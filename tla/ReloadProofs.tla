----------------------------- MODULE ReloadProofs -----------------------------
(****************************************************************************)
(* Proofs about reload, the enabled override and the control table for      *)
(* every set of services, definitions and dependencies, any number of       *)
(* clients, monitors, edits, requests and faults, and any order of the      *)
(* services in the files.                                                   *)
(****************************************************************************)
EXTENDS Reload, FiniteSetTheorems, WellFoundedInduction, TLAPS

----------------------------------------------------------------------------
(* The inductive invariants.                                                *)

\* The positions of the main thread in the loop over the new services.
Walk == {"apply", "spawn", "start", "toggle", "definition"}

\* Whatever a thread is at work on is there.
Where ==
    /\ \A m \in Monitors :
          IF mon[m].pc = "unborn" THEN mon[m].queue = <<>> /\ mon[m].runs = Absent /\ ~mon[m].tracked
          ELSE mon[m].svc \in Services
    /\ main.pc \in {"quit", "drop"} => main.gone \in Services
    /\ main.pc \in Walk => main.at \in 1..Len(Order) /\ main.new[Svc] # Absent
    /\ \A c \in Clients : cl[c].pc # "idle" => cl[c].svc \in Services

\* A request that saves without ever having met another one is the only one that
\* saves: it carries the file with its own entry changed, and the temporary file is
\* its own.
OneSaves ==
    \A c \in Saving : cl[c].svc \notin hist.overlap =>
        /\ Saving = {c} /\ file # Torn
        /\ cl[c].map = [file EXCEPT ![cl[c].svc] = Word(cl[c].on)]
        /\ cl[c].pc = "write" => cl[c].fd = "tmp" /\ tmp = Torn
        /\ cl[c].pc = "rename" => tmp = cl[c].map

\* A service whose requests met no other has one request at most, and none once
\* it is acknowledged.
OneAsks ==
    \A s \in Services \ hist.overlap :
        /\ \A b, c \in Active(s) : b = c
        /\ hist.acked[s] # "none" => Active(s) = {}

\* The entry w of s has been saved, and no later request has begun.
Settled(s, w) ==
    \/ hist.acked[s] = w
    \/ \E c \in Active(s) : cl[c].pc \in {"apply", "send"} /\ Word(cl[c].on) = w

\* Whoever saves, and whatever there is on disk, has that entry, or is torn.
Keeps(s, w) ==
    /\ file # Torn => file[s] = w
    /\ tmp \in Maps => tmp[s] = w
    /\ \A c \in Saving : cl[c].map[s] = w
Kept ==
    \A s \in Services \ hist.overlap, w \in {"on", "off"} : Settled(s, w) => Keeps(s, w)

\* What AckDurable needs.
AckInv == OneSaves /\ OneAsks /\ Kept /\ (file = Torn => hist.overlap # {})

\* A request that has changed the configuration and not yet the file.
Unsaved(s) == {c \in Active(s) : cl[c].pc \in {"load", "open", "write", "rename"}}

\* The positions of the main thread with a new configuration that is not in
\* place yet.
Unplaced == {"clone", "remove", "quit", "drop", "replace"}

\* With no event on its way, what the main thread has loaded is what is on
\* disk, and what is in place is that, or a request is about to save.
FollowInv ==
    ~dirty /\ signals = 0 =>
        /\ main.pc = "override" => main.new = disk
        /\ main.pc \in Unplaced => file # Torn /\ main.new = Overridden(disk, file)
        /\ main.pc \notin {"override"} \cup Unplaced /\ Valid(disk) /\ file # Torn =>
              \A s \in Services \ hist.failed :
                  config[s] = Overridden(disk, file)[s] \/ Unsaved(s) # {}

\* Who is in the table has a definition, serves its own service and was told
\* no Quit.
TableInv ==
    \A s \in Services : ctl[s] # Nobody =>
        /\ config[s] # Absent
        /\ mon[ctl[s]].svc = s /\ mon[ctl[s]].pc \notin {"unborn", "dead", "quit"}
        /\ \A i \in 1..Len(mon[ctl[s]].queue) : mon[ctl[s]].queue[i] # "Quit"

\* The loop over the new services has added or found the one at position i.
Passed(i) ==
    LET s == Order[i] IN
    /\ main.new[s] # Absent
    /\ \/ i < main.at \/ main.old[s] # Absent
       \/ i = main.at /\ main.pc \in {"start", "toggle", "definition"}

\* Table, runtimes and configuration agree, up to where a reload has come.
Together ==
    /\ main.pc \in {"idle", "override", "clone"} =>
          \A s \in Services : /\ rt[s] # Absent <=> config[s] # Absent
                              /\ ctl[s] # Nobody <=> config[s] # Absent
    /\ main.pc \in {"remove", "quit", "drop", "replace"} =>
          \A s \in Services :
              /\ rt[s] # Absent <=> main.old[s] # Absent
              /\ ctl[s] # Nobody <=> main.old[s] # Absent /\ ~(main.pc = "drop" /\ main.gone = s)
              /\ main.old[s] # Absent => config[s] # Absent
              /\ main.pc = "replace" /\ main.old[s] # Absent => main.new[s] # Absent
    /\ main.pc \in {"quit", "drop"} => main.gone \in Removed(main.old)
    /\ main.pc \in Walk =>
          \A i \in 1..Len(Order) :
              /\ config[Order[i]] # Absent <=> main.new[Order[i]] # Absent
              /\ main.old[Order[i]] # Absent => main.new[Order[i]] # Absent
              /\ ctl[Order[i]] # Nobody <=> Passed(i)
              /\ rt[Order[i]] # Absent <=> Passed(i) \/ (i = main.at /\ main.pc = "spawn")
    /\ main.pc = "spawn" => main.old[Svc] = Absent

----------------------------------------------------------------------------
(* The operators the steps are made of.                                     *)

\* A set of numbers has a least one.
LEMMA LeastNat ==
    ASSUME NEW T, T \subseteq Nat, T # {}
    PROVE  \E x \in T : \A y \in T : x <= y
<1> DEFINE R == OpToRel(<, Nat)
<1>1. IsWellFoundedOn(R, Nat)
  BY NatLessThanWellFounded
<1>2. \A x, y \in Nat : y < x => <<y, x>> \in R
  BY DEF OpToRel
<1>3. \E x \in T : \A y \in T : ~(<<y, x>> \in R)
  <2> HIDE DEF R
  <2> QED BY <1>1, WFMin
<1>4. PICK x \in T : \A y \in T : ~(<<y, x>> \in R)
  BY <1>3
<1>5. \A y \in T : ~(y < x)
  BY <1>2, <1>4, Zenon
<1>6. \A y \in T : x <= y
  BY <1>5
<1> QED BY <1>6

\* The order lists every service once.
LEMMA OrderFacts ==
    /\ Len(Order) \in Nat /\ \A i \in 1..Len(Order) : Order[i] \in Services
    /\ \A s \in Services : \E i \in 1..Len(Order) : Order[i] = s
    /\ \A i, j \in 1..Len(Order) : Order[i] = Order[j] => i = j
<1>1. Len(Order) \in Nat /\ \A i \in 1..Len(Order) : Order[i] \in Services
  BY OrderAssumption
<1> QED BY <1>1, OrderAssumption, Zenon

\* send_ctl puts the message at the end of one queue and touches nothing else.
LEMMA PostedFacts ==
    ASSUME TypeOK, NEW s \in Services, NEW msg \in Msgs
    PROVE  /\ Posted(s, msg) \in [Monitors -> Monitor]
           /\ \A m \in Monitors :
                 /\ Posted(s, msg)[m].svc = mon[m].svc /\ Posted(s, msg)[m].pc = mon[m].pc
                 /\ Posted(s, msg)[m].def = mon[m].def /\ Posted(s, msg)[m].runs = mon[m].runs
                 /\ Posted(s, msg)[m].tracked = mon[m].tracked /\ Posted(s, msg)[m].fell = mon[m].fell
                 /\ Posted(s, msg)[m].queue = IF Receiver(s) /\ m = ctl[s]
                                                THEN Append(mon[m].queue, msg) ELSE mon[m].queue
<1>1. CASE ~Receiver(s)
  BY <1>1 DEF Posted, TypeOK
<1>2. CASE Receiver(s)
  <2>1. ctl[s] \in Monitors
    BY <1>2 DEF Receiver, TypeOK
  <2>2. Posted(s, msg) = [mon EXCEPT ![ctl[s]].queue = Append(@, msg)]
    BY <1>2 DEF Posted
  <2>3. \A m \in Monitors : mon[m] \in Monitor
    BY DEF TypeOK
  <2>4. Append(mon[ctl[s]].queue, msg) \in Seq(Msgs)
    BY <2>1, <2>3 DEF Monitor
  <2> DEFINE q == Append(mon[ctl[s]].queue, msg)
             n == [mon[ctl[s]] EXCEPT !.queue = q]
  <2>5. /\ n \in Monitor /\ n.queue = q /\ n.svc = mon[ctl[s]].svc /\ n.pc = mon[ctl[s]].pc
        /\ n.def = mon[ctl[s]].def /\ n.runs = mon[ctl[s]].runs
        /\ n.tracked = mon[ctl[s]].tracked /\ n.fell = mon[ctl[s]].fell
    <3> HIDE DEF q
    <3>1. mon[ctl[s]] \in Monitor /\ q \in Seq(Msgs)
      BY <2>1, <2>3, <2>4 DEF q
    <3> QED BY <3>1 DEF Monitor
  <2>6. Posted(s, msg) = [mon EXCEPT ![ctl[s]] = n]
    BY <2>2
  <2> HIDE DEF n
  <2>7. Posted(s, msg) \in [Monitors -> Monitor]
    BY <2>1, <2>5, <2>6 DEF TypeOK
  <2>8. \A m \in Monitors : Posted(s, msg)[m] = IF m = ctl[s] THEN n ELSE mon[m]
    BY <2>1, <2>6 DEF TypeOK
  <2> QED BY <1>2, <2>5, <2>7, <2>8
<1> QED BY <1>1, <1>2

\* apply_enabled_override gives a configuration of the same services and definitions.
LEMMA OverriddenFacts ==
    ASSUME NEW c \in Configs, NEW map \in Maps
    PROVE  /\ Overridden(c, map) \in Configs
           /\ \A s \in Services : Overridden(c, map)[s] # Absent <=> c[s] # Absent
<1>1. \A s \in Services : c[s] # Absent => c[s] \in Entries
  BY DEF Configs
<1>2. \A s \in Services : c[s] \in Entries => [c[s] EXCEPT !.on = (map[s] = "on")] \in Entries
  BY DEF Entries
<1> QED BY <1>1, <1>2, MarkAssumption DEF Overridden, Configs

\* set_enabled and set_state neither add nor drop a runtime.
LEMMA RuntimeFacts ==
    ASSUME TypeOK, NEW s \in Services, NEW on \in BOOLEAN, NEW q \in States
    PROVE  /\ Enabled(s, on) \in [Services -> Runtimes \cup {Absent}]
           /\ InState(s, q) \in [Services -> Runtimes \cup {Absent}]
           /\ \A t \in Services : /\ Enabled(s, on)[t] # Absent <=> rt[t] # Absent
                                  /\ InState(s, q)[t] # Absent <=> rt[t] # Absent
<1>1. rt[s] # Absent => rt[s] \in Runtimes
  BY DEF TypeOK
<1>2. rt[s] # Absent => [on |-> on, state |-> IF ~on THEN "Disabled"
                                  ELSE IF rt[s].state = "Disabled" THEN "Pending"
                                  ELSE rt[s].state] \in Runtimes
  BY <1>1 DEF Runtimes, States
<1>3. rt[s] # Absent => [rt[s] EXCEPT !.state = q] \in Runtimes
  BY <1>1 DEF Runtimes
<1> QED BY <1>1, <1>2, <1>3, MarkAssumption DEF Enabled, InState, TypeOK

\* The loop over the new services ends after position i.
RoundEnds(i) ==
    /\ \A k \in (i + 1)..Len(Order) : main.new[Order[k]] = Absent
    /\ main'.pc = "idle" /\ main'.at = 1

\* It goes on to the next service of the new configuration.
RoundGoes(i) ==
    /\ main'.pc = "apply" /\ main'.at \in (i + 1)..Len(Order)
    /\ main.new[Order[main'.at]] # Absent
    /\ \A k \in (i + 1)..Len(Order) : k < main'.at => main.new[Order[k]] = Absent
    /\ main'.old = main.old /\ main'.new = main.new

\* There is no third way.
LEMMA RoundFacts ==
    ASSUME TypeOK, NEW i \in 0..Len(Order), main' = Round(i)
    PROVE  main' \in MainThread /\ (RoundEnds(i) \/ RoundGoes(i))
<1> DEFINE rest == {k \in (i + 1)..Len(Order) : main.new[Order[k]] # Absent}
<1>0. Len(Order) \in Nat
  BY OrderAssumption
<1>1. main \in MainThread /\ NoConfig \in Configs
  BY DEF TypeOK, NoConfig, Configs
<1>2. CASE rest = {}
  <2>1. main' = [main EXCEPT !.pc = "idle", !.at = 1, !.old = NoConfig, !.new = NoConfig]
    BY <1>2 DEF Round
  <2>2. 1 \in 1..(Len(Order) + 1)
    BY <1>0
  <2>3. main' \in MainThread /\ main'.pc = "idle" /\ main'.at = 1
    BY <1>1, <2>1, <2>2 DEF MainThread
  <2> QED BY <1>2, <2>3 DEF RoundEnds
<1>3. CASE rest # {}
  <2> DEFINE k == CHOOSE k \in rest : \A n \in rest : k <= n
  <2>1. main' = [main EXCEPT !.pc = "apply", !.at = k]
    BY <1>3 DEF Round
  <2>2. rest \subseteq Nat
    BY <1>0
  <2>3. \E j \in rest : \A n \in rest : j <= n
    <3> HIDE DEF rest
    <3> QED BY <1>3, <2>2, LeastNat
  <2>4. k \in rest /\ \A n \in rest : k <= n
    BY <2>3
  <2> HIDE DEF k
  <2>5. k \in (i + 1)..Len(Order) /\ main.new[Order[k]] # Absent
    BY <2>4
  <2>6. \A n \in (i + 1)..Len(Order) : n < k => main.new[Order[n]] = Absent
    BY <1>0, <2>4
  <2>7. main'.pc = "apply" /\ main'.at = k /\ main'.old = main.old /\ main'.new = main.new
        /\ main' \in MainThread
    <3>1. k \in 1..(Len(Order) + 1)
      BY <1>0, <2>5
    <3> QED BY <1>1, <2>1, <3>1 DEF MainThread
  <2> QED BY <2>5, <2>6, <2>7 DEF RoundGoes
<1> QED BY <1>2, <1>3

----------------------------------------------------------------------------
(* Type correctness: one step per action.                                   *)

\* The fields of the main thread.
LEMMA MainFields ==
    ASSUME TypeOK
    PROVE  /\ main \in MainThread
           /\ main.old \in Configs /\ main.new \in Configs /\ main.at \in 1..(Len(Order) + 1)
           /\ main.gone \in Services \cup {Nobody}
BY DEF TypeOK, MainThread

\* Nobody in the table is unborn.
TableBorn == \A s \in Services : ctl[s] # Nobody => mon[ctl[s]].pc # "unborn"

\* A step that only adds to the queue of a monitor in the table.
OnlyQueues ==
    \A m \in Monitors : /\ mon'[m].svc = mon[m].svc /\ mon'[m].pc = mon[m].pc
                        /\ mon'[m].def = mon[m].def /\ mon'[m].runs = mon[m].runs
                        /\ mon'[m].tracked = mon[m].tracked /\ mon'[m].fell = mon[m].fell
                        /\ mon[m].pc = "unborn" => mon'[m].queue = mon[m].queue

\* send_ctl is such a step.
LEMMA PostedQueues ==
    ASSUME TypeOK, TableBorn, NEW s \in Services, NEW msg \in Msgs, mon' = Posted(s, msg)
    PROVE  mon' \in [Monitors -> Monitor] /\ OnlyQueues
BY PostedFacts DEF OnlyQueues, TableBorn, Receiver

\* It leaves every monitor where it was.
LEMMA QueuesType ==
    ASSUME TypeOK, Where, TableBorn, mon' \in [Monitors -> Monitor], OnlyQueues
    PROVE  /\ \A m \in Monitors :
                 IF mon'[m].pc = "unborn"
                 THEN mon'[m].queue = <<>> /\ mon'[m].runs = Absent /\ ~mon'[m].tracked
                 ELSE mon'[m].svc \in Services
           /\ ctl' = ctl => TableBorn'
BY DEF Where, OnlyQueues, TableBorn, TypeOK

\* Edits and signals.
LEMMA FilesType ==
    ASSUME TypeOK, Where, TableBorn,
           (\E s \in Services, e \in Entries \cup {Absent} : Edit(s, e)) \/ Signal
    PROVE  TypeOK' /\ Where' /\ TableBorn'
<1>1. ASSUME NEW s \in Services, NEW e \in Entries \cup {Absent}, Edit(s, e) PROVE TypeOK'
  <2>1. disk' \in Configs
    BY <1>1 DEF Edit, TypeOK, Configs
  <2>2. left' \in [edits : 0..MaxEdits, work : 0..MaxWork, faults : 0..MaxFaults]
    <3>1. left.edits - 1 \in 0..MaxEdits /\ left.work - 1 \in 0..MaxWork
      BY <1>1, BoundAssumption DEF Edit, TypeOK
    <3> QED BY <1>1, <3>1 DEF Edit, TypeOK
  <2> QED BY <1>1, <2>1, <2>2 DEF Edit, TypeOK, shared
<1>2. ASSUME Signal PROVE TypeOK'
  <2>1. signals' \in Nat
    BY <1>2 DEF Signal, Debounced, TypeOK
  <2>2. dirty' \in BOOLEAN
    BY <1>2 DEF Signal
  <2>3. UNCHANGED <<disk, file, tmp, config, rt, ctl, mon, main, cl, left, hist>>
    BY <1>2 DEF Signal, shared
  <2> QED BY <2>1, <2>2, <2>3 DEF TypeOK
<1>3. UNCHANGED <<mon, main, cl, ctl>>
  BY DEF Edit, Signal, shared
<1>4. Where' /\ TableBorn'
  BY <1>3 DEF Where, TableBorn, Svc
<1> QED BY <1>1, <1>2, <1>4

\* The main thread, up to the loop over the new services.
LEMMA LoadType ==
    ASSUME TypeOK, Where, TableBorn, LoadFiles \/ LoadOverride \/ CloneOld
    PROVE  TypeOK' /\ Where' /\ TableBorn'
<1>0. main \in MainThread
  BY DEF TypeOK
<1>1. CASE LoadFiles
  <2>1. main' \in MainThread /\ main'.pc = "override"
    <3>1. main' = [main EXCEPT !.pc = "override", !.new = disk] /\ disk \in Configs
      BY <1>1 DEF LoadFiles, TypeOK
    <3> QED BY <1>0, <3>1 DEF MainThread
  <2>2. hist' \in History
    BY <1>1 DEF LoadFiles, TypeOK, History
  <2>3. signals' \in Nat
    BY <1>1 DEF LoadFiles, TypeOK
  <2> QED BY <1>1, <2>1, <2>2, <2>3 DEF LoadFiles, TypeOK, Where, TableBorn, Walk, shared
<1>2. CASE LoadOverride
  <2>1. file # Torn => Overridden(main.new, file) \in Configs
    BY MainFields, OverriddenFacts DEF TypeOK
  <2>2. NoConfig \in Configs
    BY DEF NoConfig, Configs
  <2>3. main' \in MainThread /\ main'.pc \in {"clone", "idle"}
    <3>1. CASE file # Torn /\ Valid(main.new)
      <4>1. main' = [main EXCEPT !.pc = "clone", !.new = Overridden(main.new, file)]
        BY <1>2, <3>1 DEF LoadOverride
      <4> QED BY <1>0, <2>1, <3>1, <4>1 DEF MainThread
    <3>2. CASE ~(file # Torn /\ Valid(main.new))
      <4>1. main' = [main EXCEPT !.pc = "idle", !.new = NoConfig]
        BY <1>2, <3>2 DEF LoadOverride
      <4> QED BY <1>0, <2>2, <4>1 DEF MainThread
    <3> QED BY <3>1, <3>2
  <2> QED BY <1>2, <2>3 DEF LoadOverride, TypeOK, Where, TableBorn, Walk, files, shared
<1>3. CASE CloneOld
  <2>1. main' \in MainThread /\ main'.pc \in {"replace", "remove"}
    <3>1. main' = [main EXCEPT !.pc = NextRemoval(config), !.old = config] /\ config \in Configs
      BY <1>3 DEF CloneOld, TypeOK
    <3> QED BY <1>0, <3>1 DEF NextRemoval, MainThread
  <2> QED BY <1>3, <2>1 DEF CloneOld, TypeOK, Where, TableBorn, Walk, files, shared
<1> QED BY <1>1, <1>2, <1>3

\* The removals.
LEMMA RemoveType ==
    ASSUME TypeOK, Where, TableBorn,
           (\E s \in Services : RemoveStop(s)) \/ RemoveQuit \/ RemoveDrop
    PROVE  TypeOK' /\ Where' /\ TableBorn'
<1>0. main \in MainThread
  BY DEF TypeOK
<1>1. ASSUME NEW s \in Services, RemoveStop(s) PROVE TypeOK' /\ Where' /\ TableBorn'
  <2>1. main' \in MainThread /\ main'.pc = "quit" /\ main'.gone = s
    BY <1>0, <1>1 DEF RemoveStop, MainThread
  <2>2. mon' = Posted(s, "Stop") /\ UNCHANGED <<files, shared, cl, left, hist>>
    BY <1>1 DEF RemoveStop
  <2>3. mon' \in [Monitors -> Monitor] /\ OnlyQueues
    BY <2>2, PostedQueues DEF Msgs
  <2>4. TypeOK'
    BY <2>1, <2>2, <2>3 DEF TypeOK, files, shared
  <2> QED BY <2>1, <2>2, <2>3, <2>4, QueuesType DEF Where, TableBorn, TypeOK, Walk, shared
<1>2. CASE RemoveQuit
  <2>0. main.gone \in Services
    BY <1>2 DEF RemoveQuit, Main, Where
  <2>1. main' \in MainThread /\ main'.pc = "drop" /\ main'.gone = main.gone
    BY <1>0, <1>2 DEF RemoveQuit, Main, MainThread
  <2>2. mon' = Posted(main.gone, "Quit") /\ UNCHANGED <<files, config, rt, cl, left, hist>>
        /\ ctl' = [ctl EXCEPT ![main.gone] = Nobody]
    BY <1>2 DEF RemoveQuit
  <2>3. mon' \in [Monitors -> Monitor] /\ OnlyQueues
    BY <2>0, <2>2, PostedQueues DEF Msgs
  <2>4. TypeOK'
    BY <2>0, <2>1, <2>2, <2>3 DEF TypeOK, files
  <2>5. \A s \in Services : ctl'[s] # Nobody => ctl'[s] = ctl[s] /\ ctl[s] \in Monitors
    BY <2>2 DEF TypeOK
  <2>6. TableBorn'
    BY <2>3, <2>5 DEF TableBorn, OnlyQueues
  <2> QED BY <2>0, <2>1, <2>2, <2>3, <2>4, <2>6, QueuesType DEF Where, Walk
<1>3. CASE RemoveDrop
  <2>0. main.gone \in Services
    BY <1>3 DEF RemoveDrop, Where
  <2> DEFINE old == [main.old EXCEPT ![main.gone] = Absent]
  <2>1. old \in Configs
    BY <2>0, MainFields DEF Configs
  <2>2. main' = [main EXCEPT !.gone = Nobody, !.old = old, !.pc = NextRemoval(old)]
    BY <1>3 DEF RemoveDrop
  <2> HIDE DEF old
  <2>3. main' \in MainThread /\ main'.pc \in {"replace", "remove"}
    BY <1>0, <2>1, <2>2 DEF NextRemoval, MainThread
  <2>4. rt' \in [Services -> Runtimes \cup {Absent}] /\ UNCHANGED <<files, config, ctl, mon, cl, left, hist>>
    BY <1>3, <2>0 DEF RemoveDrop, TypeOK
  <2> QED BY <2>3, <2>4 DEF TypeOK, Where, TableBorn, Walk, files
<1> QED BY <1>1, <1>2, <1>3

\* The loop over the new services.
LEMMA WalkType ==
    ASSUME TypeOK, Where, TableBorn,
           \/ Replace \/ AddRuntime \/ StartAdded \/ ApplyEnabled \/ SendToggle \/ SendRestart
           \/ \E m \in Monitors : SpawnMonitor(m)
    PROVE  TypeOK' /\ Where' /\ TableBorn'
<1>0. Len(Order) \in Nat /\ \A i \in 1..Len(Order) : Order[i] \in Services
  BY OrderAssumption
<1> DEFINE Here == main.at \in 1..Len(Order) /\ Svc \in Services /\ main.new[Svc] \in Entries
<1>1. main.pc \in Walk => Here
  BY <1>0, MainFields DEF Where, Svc, Configs
<1>2. \A s \in Services : main.new[s] \in Entries => main.new[s].on \in BOOLEAN
  BY DEF Entries
<1>3. ASSUME NEW i \in 0..Len(Order), main' = Round(i)
      PROVE  /\ main' \in MainThread /\ main'.pc \notin {"quit", "drop"}
             /\ main'.pc \in Walk => main'.at \in 1..Len(Order) /\ main'.new[Order[main'.at]] # Absent
  BY <1>0, <1>3, RoundFacts DEF RoundEnds, RoundGoes, Walk
<1>4. ASSUME NEW pc \in Walk, main.pc \in Walk, main' = [main EXCEPT !.pc = pc]
      PROVE  /\ main' \in MainThread /\ main'.pc \notin {"quit", "drop"}
             /\ main'.pc \in Walk => main'.at \in 1..Len(Order) /\ main'.new[Order[main'.at]] # Absent
  <2>1. main' \in MainThread /\ main'.pc = pc /\ main'.at = main.at /\ main'.new = main.new
    BY <1>4, MainFields DEF MainThread, Walk
  <2> QED BY <1>1, <1>4, <2>1 DEF Walk, Where, Svc
<1>5. CASE Replace
  <2>1. main' = Round(0) /\ 0 \in 0..Len(Order)
    BY <1>0, <1>5 DEF Replace
  <2>2. /\ main' \in MainThread /\ main'.pc \notin {"quit", "drop"}
        /\ main'.pc \in Walk => main'.at \in 1..Len(Order) /\ main'.new[Order[main'.at]] # Absent
    BY <1>3, <2>1
  <2>3. config' \in Configs /\ UNCHANGED <<files, rt, ctl, mon, cl, left, hist>>
    BY <1>5, MainFields DEF Replace
  <2> QED BY <2>2, <2>3 DEF TypeOK, Where, TableBorn, Svc, files
<1>6. CASE AddRuntime
  <2>1. main.pc \in Walk /\ main' = [main EXCEPT !.pc = "spawn"] /\ "spawn" \in Walk
        /\ UNCHANGED <<files, config, ctl, mon, cl, left>>
    BY <1>6 DEF AddRuntime, Main, Walk
  <2>4. hist' \in History
    BY <1>1, <1>6, <2>1 DEF AddRuntime, TypeOK, History
  <2>2. NewRuntime(main.new[Svc].on) \in Runtimes
    BY <1>1, <1>2, <2>1 DEF NewRuntime, Runtimes, States
  <2>3. rt' \in [Services -> Runtimes \cup {Absent}]
    BY <1>6, <2>2 DEF AddRuntime, TypeOK
  <2> QED BY <1>4, <2>1, <2>3, <2>4 DEF TypeOK, Where, TableBorn, Svc, files
<1>7. CASE ApplyEnabled
  <2>1. main.pc \in Walk /\ main' = [main EXCEPT !.pc = "toggle"] /\ "toggle" \in Walk
        /\ UNCHANGED <<files, config, ctl, mon, cl, left, hist>>
    BY <1>7 DEF ApplyEnabled, Main, Walk
  <2>2. rt' \in [Services -> Runtimes \cup {Absent}]
    <3>1. "Running" \in States
      BY DEF States
    <3> QED BY <1>1, <1>2, <1>7, <2>1, <3>1, RuntimeFacts DEF ApplyEnabled
  <2> QED BY <1>4, <2>1, <2>2 DEF TypeOK, Where, TableBorn, Svc, files
<1>8. CASE StartAdded \/ SendToggle \/ SendRestart
  <2>1. main.pc \in Walk /\ UNCHANGED <<files, shared, cl, left, hist>>
    BY <1>8 DEF StartAdded, SendToggle, SendRestart, Main, Walk
  <2>2. mon' \in [Monitors -> Monitor] /\ OnlyQueues
    <3>1. mon' = mon \/ \E msg \in Msgs : mon' = Posted(Svc, msg)
      BY <1>8 DEF StartAdded, SendToggle, SendRestart, RestartChanged, Msgs
    <3>2. mon' = mon => mon' \in [Monitors -> Monitor] /\ OnlyQueues
      BY DEF TypeOK, OnlyQueues
    <3> QED BY <1>1, <2>1, <3>1, <3>2, PostedQueues
  <2>3. /\ main' \in MainThread /\ main'.pc \notin {"quit", "drop"}
        /\ main'.pc \in Walk => main'.at \in 1..Len(Order) /\ main'.new[Order[main'.at]] # Absent
    <3>1. main' = Round(main.at) \/ main' = [main EXCEPT !.pc = "definition"]
      BY <1>8 DEF StartAdded, SendToggle, SendRestart, Main, NextRound
    <3>2. main.at \in 0..Len(Order) /\ "definition" \in Walk
      BY <1>0, <1>1, <2>1 DEF Walk
    <3> QED BY <1>3, <1>4, <2>1, <3>1, <3>2
  <2>4. TypeOK'
    BY <2>1, <2>2, <2>3 DEF TypeOK, files, shared
  <2> QED BY <2>1, <2>2, <2>3, <2>4, QueuesType DEF Where, Svc, shared
<1>9. ASSUME NEW m \in Monitors, SpawnMonitor(m) PROVE TypeOK' /\ Where' /\ TableBorn'
  <2>1. main.pc \in Walk /\ UNCHANGED <<files, config, rt, cl, left, hist>>
        /\ ctl' = [ctl EXCEPT ![Svc] = m] /\ mon' = [mon EXCEPT ![m].svc = Svc, ![m].pc = "idle"]
    BY <1>9 DEF SpawnMonitor, Walk
  <2>2. /\ main' \in MainThread /\ main'.pc \notin {"quit", "drop"}
        /\ main'.pc \in Walk => main'.at \in 1..Len(Order) /\ main'.new[Order[main'.at]] # Absent
    <3>1. main' = Round(main.at) \/ main' = [main EXCEPT !.pc = "start"]
      BY <1>9 DEF SpawnMonitor, NextRound
    <3>2. main.at \in 0..Len(Order) /\ "start" \in Walk
      BY <1>0, <1>1, <2>1 DEF Walk
    <3> QED BY <1>3, <1>4, <2>1, <3>1, <3>2
  <2>3. /\ mon' \in [Monitors -> Monitor]
        /\ mon'[m].pc = "idle" /\ mon'[m].svc = Svc
        /\ \A n \in Monitors : n # m => mon'[n] = mon[n]
    <3>1. mon[m] \in Monitor /\ Svc \in Services
      BY <1>1, <2>1 DEF TypeOK
    <3> DEFINE n == [mon[m] EXCEPT !.svc = Svc, !.pc = "idle"]
    <3>2. n \in Monitor /\ n.pc = "idle" /\ n.svc = Svc
      BY <3>1 DEF Monitor
    <3>3. mon' = [mon EXCEPT ![m] = n]
      BY <2>1 DEF TypeOK
    <3> HIDE DEF n
    <3> QED BY <3>2, <3>3 DEF TypeOK
  <2>4. TypeOK'
    BY <1>1, <2>1, <2>2, <2>3 DEF TypeOK, files
  <2>5. Where'
    BY <1>1, <2>1, <2>2, <2>3 DEF Where, Svc
  <2>6. TableBorn'
    BY <1>1, <2>1, <2>3 DEF TableBorn, TypeOK
  <2> QED BY <2>4, <2>5, <2>6
<1> QED BY <1>5, <1>6, <1>7, <1>8, <1>9

\* An answer leaves the other requests alone and writes the history of its service.
LEMMA AnswerFacts ==
    ASSUME TypeOK, Where, NEW c \in Clients, NEW ok \in BOOLEAN, cl[c].pc # "idle", Answer(c, ok)
    PROVE  /\ cl' \in [Clients -> Request] /\ cl'[c].pc = "idle"
           /\ \A b \in Clients : b # c => cl'[b] = cl[b]
           /\ hist' \in History
           /\ hist'.raced = hist.raced /\ hist'.overlap = hist.overlap
           /\ hist'.twins = hist.twins
           /\ hist'.failed = IF ok THEN hist.failed ELSE hist.failed \cup {cl[c].svc}
           /\ hist'.broken = IF ok THEN hist.broken ELSE hist.broken \cup {cl[c].svc}
           /\ \A s \in Services : hist'.acked[s] =
                 IF ok /\ s = cl[c].svc THEN Word(cl[c].on) ELSE hist.acked[s]
<1>1. cl[c].svc \in Services
  BY DEF Where
<1>2. NoMap \in Maps
  BY DEF NoMap, Maps
<1>3. [pc |-> "idle", svc |-> Nobody, on |-> TRUE, map |-> NoMap, fd |-> "none"] \in Request
  BY <1>2 DEF Request
<1>4. cl' \in [Clients -> Request] /\ cl'[c].pc = "idle" /\ \A b \in Clients : b # c => cl'[b] = cl[b]
  BY <1>3 DEF Answer, TypeOK
<1>5. hist.acked \in Maps /\ [hist.acked EXCEPT ![cl[c].svc] = Word(cl[c].on)] \in Maps
  BY <1>1 DEF TypeOK, Maps, Word, History
<1>6. CASE ok
  <2> DEFINE acked == [hist.acked EXCEPT ![cl[c].svc] = Word(cl[c].on)]
  <2>1. hist' = [hist EXCEPT !.acked = acked]
    BY <1>6 DEF Answer, TypeOK, History
  <2>2. \A s \in Services : acked[s] = IF s = cl[c].svc THEN Word(cl[c].on) ELSE hist.acked[s]
    BY <1>5 DEF Maps
  <2>3. acked \in Maps
    BY <1>5
  <2> HIDE DEF acked
  <2> QED BY <1>4, <1>6, <2>1, <2>2, <2>3 DEF TypeOK, History
<1>7. CASE ~ok
  <2>1. hist' = [hist EXCEPT !.failed = @ \cup {cl[c].svc},
                           !.broken = @ \cup {cl[c].svc}]
    BY <1>7 DEF Answer
  <2> QED BY <1>1, <1>4, <1>7, <2>1 DEF TypeOK, History
<1> QED BY <1>6, <1>7

\* What a request that begins changes.
SetFacts(c, s, on) ==
    /\ cl' \in [Clients -> Request]
    /\ cl'[c].pc = "load" /\ cl'[c].svc = s /\ cl'[c].on = on
    /\ \A b \in Clients : b # c => cl'[b] = cl[b]
    /\ config' \in Configs /\ config'[s] # Absent
    /\ config'[s].def = config[s].def /\ config'[s].on = on
    /\ \A t \in Services : t # s => config'[t] = config[t]
    /\ hist' \in History
    /\ hist'.raced = IF main.pc # "idle" \/ Active(s) # {} THEN hist.raced \cup {s} ELSE hist.raced
    /\ hist'.overlap = IF Active(s) # {} THEN hist.overlap \cup {s} ELSE hist.overlap
    /\ hist'.twins = hist.twins /\ hist'.broken = hist.broken
    /\ hist'.failed = hist.failed \ {s}
    /\ \A t \in Services : hist'.acked[t] = IF t = s THEN "none" ELSE hist.acked[t]
    /\ left' \in [edits : 0..MaxEdits, work : 0..MaxWork, faults : 0..MaxFaults]

\* set_enabled changes the configuration of its service and no other.
LEMMA SetConfigFacts ==
    ASSUME TypeOK, Where, NEW c \in Clients, NEW s \in Services, NEW on \in BOOLEAN, SetConfig(c, s, on)
    PROVE  SetFacts(c, s, on)
<1>1. NoMap \in Maps
  BY DEF NoMap, Maps
<1> DEFINE q == [pc |-> "load", svc |-> s, on |-> on, map |-> NoMap, fd |-> "none"]
<1>2. q \in Request /\ q.pc = "load" /\ q.svc = s /\ q.on = on
  BY <1>1 DEF Request
<1>3. cl' = [cl EXCEPT ![c] = q]
  BY DEF SetConfig
<1> HIDE DEF q
<1>4. /\ cl' \in [Clients -> Request]
      /\ cl'[c].pc = "load" /\ cl'[c].svc = s /\ cl'[c].on = on
      /\ \A b \in Clients : b # c => cl'[b] = cl[b]
  BY <1>2, <1>3 DEF TypeOK
<1>5. config[s] \in Entries
  BY DEF SetConfig, TypeOK, Configs
<1> DEFINE e == [config[s] EXCEPT !.on = on]
<1>6. e \in Entries /\ e.def = config[s].def /\ e.on = on
  BY <1>5 DEF Entries
<1>7. config' = [config EXCEPT ![s] = e]
  BY DEF SetConfig, TypeOK, Configs
<1> HIDE DEF e
<1>8. /\ config' \in Configs /\ config'[s] = e
      /\ \A t \in Services : t # s => config'[t] = config[t]
  BY <1>6, <1>7 DEF TypeOK, Configs
<1>9. config'[s] # Absent /\ config'[s].def = config[s].def /\ config'[s].on = on
  BY <1>6, <1>8, MarkAssumption
<1> DEFINE acked == [hist.acked EXCEPT ![s] = "none"]
           raced == IF main.pc # "idle" \/ Active(s) # {} THEN hist.raced \cup {s} ELSE hist.raced
           overlap == IF Active(s) # {} THEN hist.overlap \cup {s} ELSE hist.overlap
<1>10. acked \in Maps /\ \A t \in Services : acked[t] = IF t = s THEN "none" ELSE hist.acked[t]
  BY DEF TypeOK, Maps, History
<1>11. hist' = [hist EXCEPT !.raced = raced, !.overlap = overlap, !.failed = @ \ {s}, !.acked = acked]
  BY DEF SetConfig, TypeOK, History
<1>12. raced \in SUBSET Services /\ overlap \in SUBSET Services
  BY DEF TypeOK, History
<1>13. left.work - 2 \in 0..MaxWork
  BY BoundAssumption DEF SetConfig, TypeOK
<1>14. left' \in [edits : 0..MaxEdits, work : 0..MaxWork, faults : 0..MaxFaults]
  BY <1>13 DEF SetConfig, TypeOK
<1> HIDE DEF acked, raced, overlap
<1>15. /\ hist' \in History
       /\ hist'.raced = raced /\ hist'.overlap = overlap
       /\ hist'.twins = hist.twins /\ hist'.broken = hist.broken
       /\ hist'.failed = hist.failed \ {s} /\ hist'.acked = acked
  BY <1>10, <1>11, <1>12 DEF TypeOK, History
<1> QED BY <1>4, <1>8, <1>9, <1>10, <1>14, <1>15 DEF raced, overlap, SetFacts

\* A request that goes on, field by field.
Becomes(c, pc, map, fd) ==
    /\ cl' \in [Clients -> Request]
    /\ \A b \in Clients : b # c => cl'[b] = cl[b]
    /\ cl'[c].pc = pc /\ cl'[c].svc = cl[c].svc /\ cl'[c].on = cl[c].on
    /\ cl'[c].map = map /\ cl'[c].fd = fd

\* A request whose record is replaced by one for the same service and flag.
LEMMA RequestGoesOn ==
    ASSUME TypeOK, NEW c \in Clients, NEW q \in Request, cl' = [cl EXCEPT ![c] = q],
           q.svc = cl[c].svc, q.on = cl[c].on
    PROVE  Becomes(c, q.pc, q.map, q.fd)
BY DEF TypeOK, Becomes

\* Each step of a request that does so.
LEMMA LoadMapFacts ==
    ASSUME TypeOK, NEW c \in Clients, LoadMap(c)
    PROVE  /\ file \in Maps
           /\ Becomes(c, "open", [file EXCEPT ![cl[c].svc] = Word(cl[c].on)], cl[c].fd)
<1> DEFINE map == [file EXCEPT ![cl[c].svc] = Word(cl[c].on)]
           q == [cl[c] EXCEPT !.pc = "open", !.map = map]
<1>1. file \in Maps
  BY DEF LoadMap, TypeOK
<1>2. map \in Maps
  BY <1>1 DEF Maps, Word
<1>3. cl' = [cl EXCEPT ![c].pc = "open", ![c].map = map]
  BY DEF LoadMap
<1> HIDE DEF map
<1>4. /\ q \in Request /\ q.pc = "open" /\ q.map = map
      /\ q.svc = cl[c].svc /\ q.on = cl[c].on /\ q.fd = cl[c].fd
  BY <1>2 DEF Request, TypeOK
<1>5. cl' = [cl EXCEPT ![c] = q]
  BY <1>3 DEF TypeOK
<1> HIDE DEF q
<1>6. Becomes(c, "open", map, cl[c].fd)
  BY <1>4, <1>5, RequestGoesOn
<1> QED BY <1>1, <1>6 DEF map

\* Opening and writing the temporary file, and the change of the runtime.
LEMMA OtherStepFacts ==
    ASSUME TypeOK, NEW c \in Clients
    PROVE  /\ OpenTmp(c) => Becomes(c, "write", cl[c].map, "tmp")
           /\ WriteTmp(c) => Becomes(c, "rename", cl[c].map, "none")
           /\ ApplyRequest(c) => Becomes(c, "send", cl[c].map, cl[c].fd)
<1>1. ASSUME OpenTmp(c) PROVE Becomes(c, "write", cl[c].map, "tmp")
  <2> DEFINE q == [cl[c] EXCEPT !.pc = "write", !.fd = "tmp"]
  <2>1. /\ q \in Request /\ q.pc = "write" /\ q.fd = "tmp"
        /\ q.svc = cl[c].svc /\ q.on = cl[c].on /\ q.map = cl[c].map
    BY DEF Request, TypeOK
  <2>2. cl' = [cl EXCEPT ![c] = q]
    BY <1>1 DEF OpenTmp, TypeOK
  <2> HIDE DEF q
  <2> QED BY <2>1, <2>2, RequestGoesOn
<1>2. ASSUME WriteTmp(c) PROVE Becomes(c, "rename", cl[c].map, "none")
  <2> DEFINE q == [cl[c] EXCEPT !.pc = "rename", !.fd = "none"]
  <2>1. /\ q \in Request /\ q.pc = "rename" /\ q.fd = "none"
        /\ q.svc = cl[c].svc /\ q.on = cl[c].on /\ q.map = cl[c].map
    BY DEF Request, TypeOK
  <2>2. cl' = [cl EXCEPT ![c] = q]
    BY <1>2 DEF WriteTmp, TypeOK
  <2> HIDE DEF q
  <2> QED BY <2>1, <2>2, RequestGoesOn
<1>3. ASSUME ApplyRequest(c) PROVE Becomes(c, "send", cl[c].map, cl[c].fd)
  <2> DEFINE q == [cl[c] EXCEPT !.pc = "send"]
  <2>1. /\ q \in Request /\ q.pc = "send" /\ q.fd = cl[c].fd
        /\ q.svc = cl[c].svc /\ q.on = cl[c].on /\ q.map = cl[c].map
    BY DEF Request, TypeOK
  <2>2. cl' = [cl EXCEPT ![c] = q]
    BY <1>3 DEF ApplyRequest, TypeOK
  <2> HIDE DEF q
  <2> QED BY <2>1, <2>2, RequestGoesOn
<1> QED BY <1>1, <1>2, <1>3

\* A rename moves the files that others hold open.
LEMMA RenameFacts ==
    ASSUME TypeOK, Where, NEW c \in Clients, Rename(c)
    PROVE  /\ cl' \in [Clients -> Request] /\ cl'[c].pc = "apply"
           /\ \A b \in Clients :
                 /\ b # c => cl'[b].pc = cl[b].pc
                 /\ cl'[b].svc = cl[b].svc /\ cl'[b].on = cl[b].on /\ cl'[b].map = cl[b].map
<1> DEFINE new(b) == IF b = c THEN [cl[c] EXCEPT !.pc = "apply"]
                     ELSE [cl[b] EXCEPT !.fd = Moved[@]]
<1>1. ASSUME NEW b \in Clients
      PROVE  /\ new(b) \in Request /\ new(b).pc = IF b = c THEN "apply" ELSE cl[b].pc
             /\ new(b).svc = cl[b].svc /\ new(b).on = cl[b].on /\ new(b).map = cl[b].map
  <2>1. cl[b] \in Request
    BY DEF TypeOK
  <2>2. cl[b].fd \in {"none", "tmp", "file"}
    BY <2>1 DEF Request
  <2>3. Moved[cl[b].fd] \in {"none", "tmp", "file"}
    BY <2>2 DEF Moved
  <2>4. CASE b = c
    BY <2>1, <2>4 DEF Request
  <2>5. CASE b # c
    <3> DEFINE f == Moved[cl[b].fd]
    <3>1. new(b) = [cl[b] EXCEPT !.fd = f]
      BY <2>5
    <3>2. f \in {"none", "tmp", "file"}
      BY <2>3
    <3> HIDE DEF f, new
    <3> QED BY <2>1, <2>5, <3>1, <3>2 DEF Request
  <2> QED BY <2>4, <2>5
<1>2. cl' = [b \in Clients |-> new(b)]
  BY DEF Rename
<1> HIDE DEF new
<1> QED BY <1>1, <1>2

\* A fault stays within its bounds.
LEMMA FaultType ==
    ASSUME TypeOK, Fault
    PROVE  left' \in [edits : 0..MaxEdits, work : 0..MaxWork, faults : 0..MaxFaults]
<1>1. left.faults - 1 \in 0..MaxFaults /\ left.work - 1 \in 0..MaxWork
  BY BoundAssumption DEF Fault, TypeOK
<1> QED BY <1>1 DEF Fault, TypeOK

\* The requests.
LEMMA ClientType ==
    ASSUME TypeOK, Where, TableBorn, NEW c \in Clients,
           ClientStep(c) \/ \E s \in Services, on \in BOOLEAN : SetConfig(c, s, on)
    PROVE  TypeOK' /\ Where' /\ TableBorn'
<1>0. cl[c].map \in Maps /\ cl[c].fd \in {"none", "tmp", "file"} /\ cl[c].on \in BOOLEAN
  BY DEF TypeOK, Request
<1> DEFINE ClOK == /\ cl' \in [Clients -> Request]
                   /\ \A b \in Clients : cl'[b].pc # "idle" => cl'[b].svc \in Services
<1>1. ASSUME NEW s \in Services, NEW on \in BOOLEAN, SetConfig(c, s, on)
      PROVE  TypeOK' /\ Where' /\ TableBorn'
  <2>1. ClOK /\ config' \in Configs /\ hist' \in History
        /\ left' \in [edits : 0..MaxEdits, work : 0..MaxWork, faults : 0..MaxFaults]
    <3>1. SetFacts(c, s, on)
      BY <1>1, SetConfigFacts
    <3> QED BY <3>1 DEF SetFacts, Where
  <2>2. UNCHANGED <<files, rt, ctl, mon, main>>
    BY <1>1 DEF SetConfig
  <2> QED BY <2>1, <2>2 DEF TypeOK, Where, TableBorn, Svc, files
<1>2. CASE LoadMap(c)
  <2>1. cl[c].pc # "idle" /\ UNCHANGED <<files, shared, mon, main, left>>
    BY <1>2 DEF LoadMap
  <2>2. ClOK
    BY <1>2, <2>1, LoadMapFacts DEF Becomes, Where
  <2>3. hist' \in History
    <3>1. Met(c) \subseteq Services
      BY <2>1 DEF Met, Saving, Where
    <3> QED BY <1>2, <3>1 DEF LoadMap, TypeOK, History
  <2> QED BY <2>1, <2>2, <2>3 DEF TypeOK, Where, TableBorn, Svc, files, shared
<1>3. CASE OpenTmp(c)
  <2>1. cl[c].pc # "idle" /\ tmp' = Torn /\ UNCHANGED <<disk, file, dirty, signals, shared, mon, main, left, hist>>
    BY <1>3 DEF OpenTmp
  <2>2. ClOK
    BY <1>3, <2>1, OtherStepFacts DEF Becomes, Where
  <2> QED BY <2>1, <2>2 DEF TypeOK, Where, TableBorn, Svc, shared
<1>4. CASE WriteTmp(c)
  <2>1. cl[c].pc # "idle" /\ UNCHANGED <<disk, signals, shared, mon, main, left, hist>>
    BY <1>4 DEF WriteTmp
  <2>2. ClOK
    BY <1>4, <2>1, OtherStepFacts DEF Becomes, Where
  <2>3. tmp' \in Maps \cup {Torn, Absent} /\ file' \in Maps \cup {Torn} /\ dirty' \in BOOLEAN
    BY <1>0, <1>4 DEF WriteTmp, Over, TypeOK
  <2> QED BY <2>1, <2>2, <2>3 DEF TypeOK, Where, TableBorn, Svc, shared
<1>5. CASE Rename(c)
  <2>1. UNCHANGED <<disk, signals, shared, mon, main, left, hist>> /\ tmp' = Absent
        /\ file' \in Maps \cup {Torn} /\ dirty' \in BOOLEAN /\ cl[c].pc # "idle"
    BY <1>5 DEF Rename, TypeOK
  <2>2. ClOK
    BY <1>5, <2>1, RenameFacts DEF Where
  <2> QED BY <2>1, <2>2 DEF TypeOK, Where, TableBorn, Svc, shared
<1>6. CASE ApplyRequest(c)
  <2>1. cl[c].pc # "idle" /\ UNCHANGED <<files, config, ctl, mon, main, left, hist>>
    BY <1>6 DEF ApplyRequest
  <2>2. ClOK
    BY <1>6, <2>1, OtherStepFacts DEF Becomes, Where
  <2>3. rt' \in [Services -> Runtimes \cup {Absent}]
    <3>1. "Running" \in States /\ cl[c].svc \in Services
      BY <2>1 DEF States, Where
    <3> QED BY <1>0, <1>6, <3>1, RuntimeFacts DEF ApplyRequest
  <2> QED BY <2>1, <2>2, <2>3 DEF TypeOK, Where, TableBorn, Svc, files
<1>7. CASE LoadMapFails(c) \/ WriteFails(c) \/ RenameFails(c)
  <2>1. cl[c].pc # "idle" /\ Answer(c, FALSE) /\ UNCHANGED <<files, shared, mon, main>>
    BY <1>7 DEF LoadMapFails, WriteFails, RenameFails
  <2>2. left' = left \/ Fault
    BY <1>7 DEF LoadMapFails, WriteFails, RenameFails
  <2>3. left' \in [edits : 0..MaxEdits, work : 0..MaxWork, faults : 0..MaxFaults]
    BY <2>2, FaultType DEF TypeOK
  <2>4. ClOK /\ hist' \in History
    BY <2>1, AnswerFacts DEF Where
  <2> QED BY <2>1, <2>3, <2>4 DEF TypeOK, Where, TableBorn, Svc, files, shared
<1>8. CASE SendRequest(c)
  <2>1. cl[c].pc # "idle" /\ Answer(c, Receiver(cl[c].svc)) /\ UNCHANGED <<files, shared, main, left>>
        /\ \E msg \in Msgs : mon' = Posted(cl[c].svc, msg)
    BY <1>8 DEF SendRequest, Msgs
  <2>2. cl[c].svc \in Services /\ Receiver(cl[c].svc) \in BOOLEAN
    BY <2>1 DEF Where, Receiver
  <2>3. ClOK /\ hist' \in History
    BY <2>1, <2>2, AnswerFacts DEF Where
  <2>4. mon' \in [Monitors -> Monitor] /\ OnlyQueues
    BY <2>1, <2>2, PostedQueues
  <2>5. TypeOK'
    BY <2>1, <2>3, <2>4 DEF TypeOK, files, shared
  <2> QED BY <2>1, <2>3, <2>4, <2>5, QueuesType DEF Where, Svc, shared
<1> QED BY <1>1, <1>2, <1>3, <1>4, <1>5, <1>6, <1>7, <1>8 DEF ClientStep

\* A monitor that goes on, field by field.
Turns(m, pc, queue, def, runs, tracked, fell) ==
    /\ mon' \in [Monitors -> Monitor]
    /\ \A n \in Monitors : n # m => mon'[n] = mon[n]
    /\ mon'[m].pc = pc /\ mon'[m].svc = mon[m].svc
    /\ mon'[m].queue = queue /\ mon'[m].def = def /\ mon'[m].runs = runs
    /\ mon'[m].tracked = tracked /\ mon'[m].fell = fell

\* A monitor whose record is replaced by one for the same service.
LEMMA MonitorGoesOn ==
    ASSUME TypeOK, NEW m \in Monitors, NEW q \in Monitor, mon' = [mon EXCEPT ![m] = q],
           q.svc = mon[m].svc
    PROVE  Turns(m, q.pc, q.queue, q.def, q.runs, q.tracked, q.fell)
BY DEF TypeOK, Turns

\* The fields of a monitor.
LEMMA MonitorFields ==
    ASSUME TypeOK, NEW m \in Monitors
    PROVE  /\ mon[m] \in Monitor
           /\ mon[m].queue \in Seq(Msgs) /\ mon[m].def \in Defs \cup {Absent}
           /\ mon[m].runs \in Defs \cup {Absent} /\ mon[m].tracked \in BOOLEAN /\ mon[m].fell \in BOOLEAN
<1>1. mon[m] \in Monitor
  BY DEF TypeOK
<1> QED BY <1>1 DEF Monitor

\* The definition a monitor looks up.
LEMMA LookedUp ==
    ASSUME TypeOK, Where, NEW m \in Monitors, mon[m].pc # "unborn", Configured(m)
    PROVE  mon[m].svc \in Services /\ config[mon[m].svc].def \in Defs
<1>1. mon[m].svc \in Services
  BY DEF Where
<1>2. config[mon[m].svc] \in Entries
  BY <1>1 DEF Configured, TypeOK, Configs
<1> QED BY <1>1, <1>2 DEF Entries

\* A message takes a monitor to one of these.
LEMMA TakesFacts ==
    ASSUME TypeOK, NEW m \in Monitors, mon[m].queue # <<>>
    PROVE  /\ Takes(m) \in {"idle", "stop", "quit", "restart", "start"}
           /\ \/ Head(mon[m].queue) = "Quit" /\ Takes(m) = "quit"
              \/ Head(mon[m].queue) = "Stop" /\ Takes(m) = "stop"
              \/ Head(mon[m].queue) = "Restart" /\ Takes(m) = "restart"
              \/ Head(mon[m].queue) = "Start" /\ mon[m].tracked /\ Takes(m) = "idle"
              \/ Head(mon[m].queue) = "Start" /\ ~mon[m].tracked /\ Takes(m) = "start"
<1>1. Head(mon[m].queue) \in Msgs
  BY MonitorFields
<1>2. Takes(m) = IF Head1(m) = "Quit" THEN "quit"
                 ELSE IF Head1(m) = "Stop" THEN "stop"
                 ELSE IF Head1(m) = "Restart" THEN "restart"
                 ELSE IF mon[m].tracked THEN "idle" ELSE "start"
  BY <1>1 DEF Takes, Head1, Msgs
<1> QED BY <1>1, <1>2 DEF Head1, Msgs

\* Each step of a monitor.
LEMMA RecvFacts ==
    ASSUME TypeOK, Where, NEW m \in Monitors
    PROVE  /\ RecvGone(m) => /\ Turns(m, "dead", <<>>, mon[m].def, mon[m].runs,
                                      mon[m].tracked, mon[m].fell)
                             /\ rt' = rt
           /\ Recv(m) => /\ Turns(m, Takes(m), Tail(mon[m].queue),
                                  IF Takes(m) = "idle" THEN mon[m].def ELSE config[mon[m].svc].def,
                                  mon[m].runs, mon[m].tracked, mon[m].fell)
                         /\ rt' = IF Takes(m) = "stop" THEN InState(mon[m].svc, "Stopping") ELSE rt
<1>1. ASSUME RecvGone(m) PROVE Turns(m, "dead", <<>>, mon[m].def, mon[m].runs, mon[m].tracked, mon[m].fell)
  <2>0. <<>> \in Seq(Msgs)
    OBVIOUS
  <2> DEFINE q == [mon[m] EXCEPT !.pc = "dead", !.queue = <<>>]
  <2>1. mon' = [mon EXCEPT ![m] = q]
    BY <1>1 DEF RecvGone, TypeOK
  <2>2. /\ q \in Monitor /\ q.svc = mon[m].svc /\ q.queue = <<>> /\ q.pc = "dead" /\ q.def = mon[m].def
        /\ q.runs = mon[m].runs /\ q.tracked = mon[m].tracked /\ q.fell = mon[m].fell
    BY <2>0, MonitorFields DEF Monitor
  <2> HIDE DEF q
  <2> QED BY <2>1, <2>2, MonitorGoesOn
<1>2. ASSUME Recv(m)
      PROVE  /\ Turns(m, Takes(m), Tail(mon[m].queue),
                      IF Takes(m) = "idle" THEN mon[m].def ELSE config[mon[m].svc].def,
                      mon[m].runs, mon[m].tracked, mon[m].fell)
             /\ rt' = IF Takes(m) = "stop" THEN InState(mon[m].svc, "Stopping") ELSE rt
  <2> DEFINE def == IF Takes(m) = "idle" THEN mon[m].def ELSE config[mon[m].svc].def
  <2>1. /\ mon' = [mon EXCEPT ![m].pc = Takes(m), ![m].queue = Tail(@),
                              ![m].def = IF Takes(m) = "idle" THEN @ ELSE config[mon[m].svc].def]
        /\ rt' = IF Takes(m) = "stop" THEN InState(mon[m].svc, "Stopping") ELSE rt
        /\ mon[m].pc = "idle" /\ mon[m].queue # <<>> /\ Configured(m)
    BY <1>2 DEF Recv
  <2>2. Tail(mon[m].queue) \in Seq(Msgs) /\ Takes(m) \in {"idle", "stop", "quit", "restart", "start"}
    BY <2>1, MonitorFields, TakesFacts
  <2>3. def \in Defs \cup {Absent}
    BY <2>1, LookedUp, MonitorFields
  <2> DEFINE q == [mon[m] EXCEPT !.pc = Takes(m), !.queue = Tail(mon[m].queue), !.def = def]
  <2>4. mon' = [mon EXCEPT ![m] = q]
    BY <2>1 DEF TypeOK
  <2>6. /\ q \in Monitor /\ q.svc = mon[m].svc /\ q.queue = Tail(mon[m].queue) /\ q.pc = Takes(m) /\ q.def = def
        /\ q.runs = mon[m].runs /\ q.tracked = mon[m].tracked /\ q.fell = mon[m].fell
    <3> HIDE DEF def
    <3> QED BY <2>2, <2>3, MonitorFields DEF Monitor
  <2> HIDE DEF q
  <2>5. Turns(m, Takes(m), Tail(mon[m].queue), def, mon[m].runs, mon[m].tracked, mon[m].fell)
    BY <2>4, <2>6, MonitorGoesOn
  <2> QED BY <2>1, <2>5 DEF def
<1> QED BY <1>1, <1>2 DEF RecvGone, shared

\* Where the end of a stop takes a monitor, and the state it leaves.
LEMMA StoppedFacts ==
    ASSUME TypeOK, Where, NEW m \in Monitors, Stopped(m)
    PROVE  \/ /\ mon[m].pc = "stop" /\ Turns(m, "idle", mon[m].queue, Absent, Absent, FALSE, mon[m].fell)
              /\ rt' = InState(mon[m].svc, IF rt[mon[m].svc] # Absent /\ ~rt[mon[m].svc].on
                                             THEN "Disabled" ELSE "Stopped")
           \/ /\ mon[m].pc = "quit" /\ Turns(m, "dead", <<>>, Absent, Absent, FALSE, mon[m].fell)
              /\ rt' = InState(mon[m].svc, "Stopped")
           \/ /\ mon[m].pc \in {"restart", "probe"} /\ rt' = rt
              /\ Turns(m, "start", mon[m].queue, mon[m].def, Absent, FALSE, mon[m].fell)
<1> DEFINE next == [stop |-> "idle", quit |-> "dead", restart |-> "start", probe |-> "start"][mon[m].pc]
<1>1. /\ mon[m].pc \in {"stop", "quit", "restart", "probe"}
      /\ mon' = [mon EXCEPT ![m].pc = next, ![m].runs = Absent, ![m].tracked = FALSE,
                            ![m].queue = IF next = "dead" THEN <<>> ELSE @,
                            ![m].def = IF next = "start" THEN @ ELSE Absent]
      /\ rt' = CASE next = "start" -> rt
                 [] mon[m].pc = "stop" /\ rt[mon[m].svc] # Absent /\ ~rt[mon[m].svc].on
                      -> InState(mon[m].svc, "Disabled")
                 [] OTHER -> InState(mon[m].svc, "Stopped")
  BY DEF Stopped
<1>2. next = IF mon[m].pc = "stop" THEN "idle" ELSE IF mon[m].pc = "quit" THEN "dead" ELSE "start"
  BY <1>1
<1> HIDE DEF next
<1> DEFINE queue == IF next = "dead" THEN <<>> ELSE mon[m].queue
           def == IF next = "start" THEN mon[m].def ELSE Absent
<1>3. queue \in Seq(Msgs) /\ def \in Defs \cup {Absent} /\ next \in {"idle", "dead", "start"}
  BY <1>2, MonitorFields
<1> DEFINE q == [mon[m] EXCEPT !.pc = next, !.runs = Absent, !.tracked = FALSE, !.queue = queue, !.def = def]
<1>4. mon' = [mon EXCEPT ![m] = q]
  BY <1>1 DEF TypeOK
<1>9. /\ q \in Monitor /\ q.svc = mon[m].svc /\ q.queue = queue /\ q.pc = next /\ q.def = def
      /\ q.runs = Absent /\ q.tracked = FALSE /\ q.fell = mon[m].fell
  <2> HIDE DEF queue, def
  <2> QED BY <1>3, MonitorFields DEF Monitor
<1> HIDE DEF q
<1>5. Turns(m, next, queue, def, Absent, FALSE, mon[m].fell)
  BY <1>4, <1>9, MonitorGoesOn
<1>6. CASE mon[m].pc = "stop"
  <2>1. rt' = InState(mon[m].svc, IF rt[mon[m].svc] # Absent /\ ~rt[mon[m].svc].on
                                    THEN "Disabled" ELSE "Stopped")
    BY <1>1, <1>2, <1>6
  <2> QED BY <1>2, <1>5, <1>6, <2>1
<1>7. CASE mon[m].pc = "quit"
  <2>1. rt' = InState(mon[m].svc, "Stopped")
    BY <1>1, <1>2, <1>7
  <2> QED BY <1>2, <1>5, <1>7, <2>1
<1>8. CASE mon[m].pc \in {"restart", "probe"}
  <2>1. rt' = rt
    BY <1>1, <1>2, <1>8
  <2> QED BY <1>2, <1>5, <1>8, <2>1
<1> QED BY <1>1, <1>6, <1>7, <1>8

\* The states do_start can decide on.
LEMMA StartStateFacts ==
    ASSUME NEW s
    PROVE  StartState(s) \in {"Failed", "Starting", "WaitingForDependency"}
BY DEF StartState

\* Where a start takes a monitor.
LEMMA StartFacts ==
    ASSUME TypeOK, Where, NEW m \in Monitors
    PROVE  /\ NoStart(m) =>
                 /\ StartState(mon[m].svc) \in {"Failed", "WaitingForDependency"}
                 /\ rt' = InState(mon[m].svc, StartState(mon[m].svc))
                 /\ Turns(m, "idle", mon[m].queue, Absent, Absent, FALSE, mon[m].fell)
           /\ \A tracked \in BOOLEAN : Start(m, tracked) =>
                 /\ \E q \in {"Running", "Succeeded"} : rt' = InState(mon[m].svc, q)
                 /\ Turns(m, "idle", mon[m].queue, Absent, mon[m].def, tracked, mon[m].fell)
           /\ StartFails(m) =>
                 /\ rt' = InState(mon[m].svc, "Failed")
                 /\ Turns(m, "idle", mon[m].queue, Absent, Absent, FALSE, TRUE)
           /\ RestartScript(m) =>
                 /\ rt' = InState(mon[m].svc, "Running")
                 /\ Turns(m, "idle", mon[m].queue, Absent, mon[m].def, FALSE, mon[m].fell)
<1>1. ASSUME NEW runs \in Defs \cup {Absent}, NEW tracked \in BOOLEAN, NEW fell \in BOOLEAN,
             mon' = [mon EXCEPT ![m].pc = "idle", ![m].def = Absent, ![m].runs = runs,
                                ![m].tracked = tracked, ![m].fell = fell]
      PROVE  Turns(m, "idle", mon[m].queue, Absent, runs, tracked, fell)
  <2> DEFINE q == [mon[m] EXCEPT !.pc = "idle", !.def = Absent, !.runs = runs, !.tracked = tracked, !.fell = fell]
  <2>1. mon' = [mon EXCEPT ![m] = q]
    BY <1>1 DEF TypeOK
  <2>2. /\ q \in Monitor /\ q.svc = mon[m].svc /\ q.queue = mon[m].queue /\ q.pc = "idle" /\ q.def = Absent
        /\ q.runs = runs /\ q.tracked = tracked /\ q.fell = fell
    BY MonitorFields DEF Monitor
  <2> HIDE DEF q
  <2> QED BY <2>1, <2>2, MonitorGoesOn
<1>2. ASSUME NoStart(m)
      PROVE  /\ StartState(mon[m].svc) \in {"Failed", "WaitingForDependency"}
             /\ rt' = InState(mon[m].svc, StartState(mon[m].svc))
             /\ Turns(m, "idle", mon[m].queue, Absent, Absent, FALSE, mon[m].fell)
  BY <1>1, <1>2, MonitorFields, StartStateFacts DEF NoStart, EndStart
<1>3. ASSUME NEW tracked \in BOOLEAN, Start(m, tracked)
      PROVE  /\ \E q \in {"Running", "Succeeded"} : rt' = InState(mon[m].svc, q)
             /\ Turns(m, "idle", mon[m].queue, Absent, mon[m].def, tracked, mon[m].fell)
  BY <1>1, <1>3, MonitorFields DEF Start, EndStart, UpState
<1>4. ASSUME StartFails(m)
      PROVE  /\ rt' = InState(mon[m].svc, "Failed")
             /\ Turns(m, "idle", mon[m].queue, Absent, Absent, FALSE, TRUE)
  BY <1>1, <1>4 DEF StartFails, EndStart
<1>5. ASSUME RestartScript(m)
      PROVE  /\ rt' = InState(mon[m].svc, "Running")
             /\ Turns(m, "idle", mon[m].queue, Absent, mon[m].def, FALSE, mon[m].fell)
  <2>1. /\ mon' = [mon EXCEPT ![m].pc = "idle", ![m].def = Absent, ![m].runs = mon[m].def, ![m].tracked = FALSE]
        /\ rt' = InState(mon[m].svc, "Running")
    BY <1>5 DEF RestartScript
  <2>2. mon[m].fell \in BOOLEAN /\ mon[m].def \in Defs \cup {Absent}
    BY MonitorFields
  <2>3. mon' = [mon EXCEPT ![m].pc = "idle", ![m].def = Absent, ![m].runs = mon[m].def,
                           ![m].tracked = FALSE, ![m].fell = mon[m].fell]
    BY <2>1, MonitorFields DEF TypeOK, Monitor
  <2> QED BY <1>1, <2>1, <2>2, <2>3
<1> QED BY <1>2, <1>3, <1>4, <1>5

\* Where the polls of an idle monitor take it.
LEMMA PollFacts ==
    ASSUME TypeOK, Where, NEW m \in Monitors
    PROVE  /\ Retry(m) =>
                 /\ Turns(m, "start", mon[m].queue, config[mon[m].svc].def, mon[m].runs,
                          mon[m].tracked, mon[m].fell)
                 /\ rt' = rt
           /\ ExitRestart(m) =>
                 /\ Turns(m, "start", mon[m].queue, config[mon[m].svc].def, Absent, FALSE, TRUE)
                 /\ rt' = InState(mon[m].svc, "Restarting")
           /\ \A q \in {"Succeeded", "Failed"} : ExitEnds(m, q) =>
                 /\ Turns(m, "idle", mon[m].queue, mon[m].def, Absent, FALSE, TRUE)
                 /\ rt' = IF Configured(m) THEN InState(mon[m].svc, q) ELSE rt
           /\ ProbeFails(m) =>
                 /\ Turns(m, "probe", mon[m].queue, config[mon[m].svc].def, mon[m].runs, mon[m].tracked, TRUE)
                 /\ rt' = InState(mon[m].svc, "Restarting")
<1>2. ASSUME Retry(m)
      PROVE  Turns(m, "start", mon[m].queue, config[mon[m].svc].def, mon[m].runs, mon[m].tracked, mon[m].fell)
  <2>1. config[mon[m].svc].def \in Defs
    BY <1>2, LookedUp DEF Retry
  <2> DEFINE q == [mon[m] EXCEPT !.pc = "start", !.def = config[mon[m].svc].def]
  <2>2. mon' = [mon EXCEPT ![m] = q]
    BY <1>2 DEF Retry, TypeOK
  <2>3. /\ q \in Monitor /\ q.svc = mon[m].svc /\ q.queue = mon[m].queue /\ q.pc = "start" /\ q.def = config[mon[m].svc].def
        /\ q.runs = mon[m].runs /\ q.tracked = mon[m].tracked /\ q.fell = mon[m].fell
    BY <2>1, MonitorFields DEF Monitor
  <2> HIDE DEF q
  <2> QED BY <2>2, <2>3, MonitorGoesOn
<1>3. ASSUME ExitRestart(m)
      PROVE  Turns(m, "start", mon[m].queue, config[mon[m].svc].def, Absent, FALSE, TRUE)
  <2>1. config[mon[m].svc].def \in Defs
    BY <1>3, LookedUp DEF ExitRestart
  <2> DEFINE q == [mon[m] EXCEPT !.pc = "start", !.def = config[mon[m].svc].def, !.runs = Absent, !.tracked = FALSE, !.fell = TRUE]
  <2>2. mon' = [mon EXCEPT ![m] = q]
    BY <1>3 DEF ExitRestart, TypeOK
  <2>3. /\ q \in Monitor /\ q.svc = mon[m].svc /\ q.queue = mon[m].queue /\ q.pc = "start" /\ q.def = config[mon[m].svc].def
        /\ q.runs = Absent /\ q.tracked = FALSE /\ q.fell = TRUE
    BY <2>1, MonitorFields DEF Monitor
  <2> HIDE DEF q
  <2> QED BY <2>2, <2>3, MonitorGoesOn
<1>4. ASSUME NEW r \in {"Succeeded", "Failed"}, ExitEnds(m, r)
      PROVE  Turns(m, "idle", mon[m].queue, mon[m].def, Absent, FALSE, TRUE)
  <2>1. mon[m].pc = "idle"
    BY <1>4 DEF ExitEnds
  <2> DEFINE q == [mon[m] EXCEPT !.runs = Absent, !.tracked = FALSE, !.fell = TRUE]
  <2>2. mon' = [mon EXCEPT ![m] = q]
    BY <1>4 DEF ExitEnds, TypeOK
  <2>3. /\ q \in Monitor /\ q.svc = mon[m].svc /\ q.queue = mon[m].queue /\ q.pc = "idle" /\ q.def = mon[m].def
        /\ q.runs = Absent /\ q.tracked = FALSE /\ q.fell = TRUE
    BY <2>1, MonitorFields DEF Monitor
  <2> HIDE DEF q
  <2> QED BY <2>2, <2>3, MonitorGoesOn
<1>5. ASSUME ProbeFails(m)
      PROVE  Turns(m, "probe", mon[m].queue, config[mon[m].svc].def, mon[m].runs, mon[m].tracked, TRUE)
  <2>1. config[mon[m].svc].def \in Defs
    BY <1>5, LookedUp DEF ProbeFails
  <2> DEFINE q == [mon[m] EXCEPT !.pc = "probe", !.def = config[mon[m].svc].def, !.fell = TRUE]
  <2>2. mon' = [mon EXCEPT ![m] = q]
    BY <1>5 DEF ProbeFails, TypeOK
  <2>3. /\ q \in Monitor /\ q.svc = mon[m].svc /\ q.queue = mon[m].queue /\ q.pc = "probe" /\ q.def = config[mon[m].svc].def
        /\ q.runs = mon[m].runs /\ q.tracked = mon[m].tracked /\ q.fell = TRUE
    BY <2>1, MonitorFields DEF Monitor
  <2> HIDE DEF q
  <2> QED BY <2>2, <2>3, MonitorGoesOn
<1> QED BY <1>2, <1>3, <1>4, <1>5 DEF Retry, ExitRestart, ExitEnds, ProbeFails, shared

\* What every step of a monitor leaves alone, and what it writes.
LEMMA MonitorFacts ==
    ASSUME TypeOK, Where, NEW m \in Monitors, MonitorStep(m)
    PROVE  /\ UNCHANGED <<files, config, ctl, main, cl, hist>>
           /\ mon[m].pc \notin {"unborn", "dead"} /\ mon[m].svc \in Services
           /\ mon' \in [Monitors -> Monitor] /\ \A n \in Monitors : n # m => mon'[n] = mon[n]
           /\ mon'[m].svc = mon[m].svc /\ mon'[m].pc # "unborn"
           /\ rt' = rt \/ \E q \in States : rt' = InState(mon[m].svc, q)
           /\ left' = left \/ Fault
<1> USE DEF States
<1>0. mon[m].pc \notin {"unborn", "dead"} => mon[m].svc \in Services
  BY DEF Where
<1>1. CASE RecvGone(m)
  BY <1>0, <1>1, RecvFacts DEF RecvGone, Turns, shared
<1>2. CASE Recv(m)
  <2>1. Takes(m) # "unborn"
    BY <1>2, TakesFacts DEF Recv
  <2> QED BY <1>0, <1>2, <2>1, RecvFacts DEF Recv, Turns
<1>3. CASE Stopped(m)
  <2>1. UNCHANGED <<files, config, ctl, main, cl, left, hist>> /\ mon[m].pc \in {"stop", "quit", "restart", "probe"}
    BY <1>3 DEF Stopped
  <2> QED BY <1>0, <1>3, <2>1, StoppedFacts DEF Turns
<1>4. CASE NoStart(m) \/ StartFails(m) \/ RestartScript(m)
  <2>1. UNCHANGED <<files, config, ctl, main, cl, hist>> /\ mon[m].pc \in {"start", "restart"}
        /\ (left' = left \/ Fault)
    BY <1>4 DEF NoStart, StartFails, RestartScript, EndStart
  <2> QED BY <1>0, <1>4, <2>1, StartFacts DEF Turns
<1>5. ASSUME NEW tracked \in BOOLEAN, Start(m, tracked)
      PROVE  /\ UNCHANGED <<files, config, ctl, main, cl, left, hist>> /\ mon[m].pc = "start"
             /\ mon' \in [Monitors -> Monitor] /\ \A n \in Monitors : n # m => mon'[n] = mon[n]
             /\ mon'[m].svc = mon[m].svc /\ mon'[m].pc # "unborn"
             /\ \E q \in States : rt' = InState(mon[m].svc, q)
  BY <1>5, StartFacts DEF Start, EndStart, Turns
<1>6. CASE Retry(m) \/ ExitRestart(m) \/ ProbeFails(m)
  <2>1. UNCHANGED <<files, config, ctl, main, cl, hist>> /\ mon[m].pc = "idle"
        /\ (left' = left \/ Fault)
    BY <1>6 DEF Retry, ExitRestart, ProbeFails, shared
  <2> QED BY <1>0, <1>6, <2>1, PollFacts DEF Turns
<1>7. ASSUME NEW q \in {"Succeeded", "Failed"}, ExitEnds(m, q)
      PROVE  /\ UNCHANGED <<files, config, ctl, main, cl, hist>> /\ mon[m].pc = "idle"
             /\ mon' \in [Monitors -> Monitor] /\ \A n \in Monitors : n # m => mon'[n] = mon[n]
             /\ mon'[m].svc = mon[m].svc /\ mon'[m].pc # "unborn"
             /\ rt' = rt \/ \E r \in States : rt' = InState(mon[m].svc, r)
             /\ Fault
  <2>1. rt' = rt \/ rt' = InState(mon[m].svc, q)
    BY <1>7, PollFacts
  <2> QED BY <1>7, <2>1, PollFacts DEF ExitEnds, Turns
<1> QED BY <1>0, <1>1, <1>2, <1>3, <1>4, <1>5, <1>6, <1>7 DEF MonitorStep

\* The monitors.
LEMMA MonitorType ==
    ASSUME TypeOK, Where, TableBorn, NEW m \in Monitors, MonitorStep(m)
    PROVE  TypeOK' /\ Where' /\ TableBorn'
<1>1. rt' \in [Services -> Runtimes \cup {Absent}]
  <2>1. TRUE \in BOOLEAN
    OBVIOUS
  <2> QED BY <2>1, MonitorFacts, RuntimeFacts DEF TypeOK
<1>2. left' \in [edits : 0..MaxEdits, work : 0..MaxWork, faults : 0..MaxFaults]
  BY MonitorFacts, FaultType DEF TypeOK
<1>3. TypeOK'
  BY <1>1, <1>2, MonitorFacts DEF TypeOK, files
<1>4. Where'
  BY MonitorFacts DEF Where, Svc
<1>5. TableBorn'
  BY MonitorFacts DEF TableBorn, TypeOK
<1> QED BY <1>3, <1>4, <1>5

\* Every variable keeps its type, and every thread works on something that is there.
THEOREM TypeCorrect == Spec => [](TypeOK /\ Where /\ TableBorn)
<1>1. Init => TypeOK /\ Where /\ TableBorn
  <2> SUFFICES ASSUME Init PROVE TypeOK /\ Where /\ TableBorn
    OBVIOUS
  <2>0. /\ Len(Order) \in Nat /\ \A i \in 1..Len(Order) : Order[i] \in Services
        /\ \A s \in Services : \E i \in 1..Len(Order) : Order[i] = s
    BY OrderAssumption
  <2>1. NoMap \in Maps /\ NoConfig \in Configs
    BY DEF NoMap, Maps, NoConfig, Configs
  <2>2. disk \in Configs
    <3>1. \A d \in Defs \ Jobs : [def |-> d, on |-> TRUE] \in Entries
      BY DEF Entries
    <3>2. {[def |-> d, on |-> TRUE] : d \in Defs \ Jobs} \subseteq Entries
      BY <3>1
    <3> QED BY <3>2 DEF Init, Configs
  <2>3. \A s \in Services : disk[s] # Absent => disk[s].def \in Defs
    BY <2>2 DEF Configs, Entries
  <2>4. rt \in [Services -> Runtimes \cup {Absent}]
    <3>1. [on |-> TRUE, state |-> "Running"] \in Runtimes
      BY DEF Runtimes, States
    <3> QED BY <3>1 DEF Init
  <2>5. main \in MainThread /\ main.pc = "idle"
    <3>1. 1 \in 1..(Len(Order) + 1)
      BY <2>0
    <3> QED BY <2>1, <3>1 DEF Init, MainThread
  <2>6. cl \in [Clients -> Request] /\ \A c \in Clients : cl[c].pc = "idle"
    BY <2>1 DEF Init, Request
  <2>7. left \in [edits : 0..MaxEdits, work : 0..MaxWork, faults : 0..MaxFaults]
    BY BoundAssumption DEF Init
  <2>8. file \in Maps /\ hist \in History
    BY DEF Init, Maps, History
  <2>9. \A s \in Services : disk[s] # Absent =>
           ctl[s] \in 1..Len(Order) /\ Order[ctl[s]] = s
    BY <2>0 DEF Init
  <2>10. \A s \in Services : disk[s] = Absent => ctl[s] = Nobody
    BY DEF Init
  <2>11. ctl \in [Services -> Monitors \cup {Nobody}]
    BY <2>9, <2>10, MonitorsAssumption DEF Init
  <2> DEFINE new(m) == IF m <= Len(Order) /\ disk[Order[m]] # Absent
                  THEN [svc |-> Order[m], queue |-> <<>>, pc |-> "idle",
                        def |-> Absent, runs |-> disk[Order[m]].def,
                        tracked |-> TRUE, fell |-> FALSE]
                  ELSE [svc |-> Nobody, queue |-> <<>>, pc |-> "unborn",
                        def |-> Absent, runs |-> Absent, tracked |-> FALSE, fell |-> FALSE]
  <2>12. ASSUME NEW m \in Monitors, m <= Len(Order), disk[Order[m]] # Absent
         PROVE  new(m) \in Monitor /\ new(m).svc \in Services /\ new(m).pc = "idle"
    <3>1. m \in 1..Len(Order)
      <4>1. Cardinality(Monitors) \in Nat
        BY MonitorsAssumption, FS_CardinalityType
      <4>2. m \in 1..Cardinality(Monitors)
        BY MonitorsAssumption
      <4> QED BY <2>0, <2>12, <4>1, <4>2
    <3>2. Order[m] \in Services /\ disk[Order[m]].def \in Defs /\ <<>> \in Seq(Msgs)
      BY <2>0, <2>3, <2>12, <3>1
    <3> QED BY <2>12, <3>2 DEF Monitor
  <2>13. ASSUME NEW m \in Monitors, ~(m <= Len(Order) /\ disk[Order[m]] # Absent)
         PROVE  /\ new(m) \in Monitor /\ new(m).pc = "unborn" /\ new(m).queue = <<>>
                /\ new(m).runs = Absent /\ ~new(m).tracked
    <3>1. <<>> \in Seq(Msgs)
      OBVIOUS
    <3> QED BY <2>13, <3>1 DEF Monitor
  <2>14. mon = [m \in Monitors |-> new(m)]
    BY DEF Init
  <2>15. \A s \in Services : ctl[s] # Nobody => new(ctl[s]).pc = "idle" /\ ctl[s] \in Monitors
    BY <2>0, <2>9, <2>10, <2>11
  <2> HIDE DEF new
  <2>16. /\ mon \in [Monitors -> Monitor]
         /\ \A m \in Monitors :
               IF mon[m].pc = "unborn" THEN mon[m].queue = <<>> /\ mon[m].runs = Absent /\ ~mon[m].tracked
               ELSE mon[m].svc \in Services
    BY <2>12, <2>13, <2>14
  <2>17. TableBorn
    BY <2>14, <2>15 DEF TableBorn
  <2>18. /\ file \in Maps \cup {Torn} /\ tmp \in Maps \cup {Torn, Absent}
         /\ signals \in Nat /\ config \in Configs
    BY <2>2, <2>8 DEF Init
  <2>19. dirty \in BOOLEAN
    BY DEF Init
  <2> QED BY <2>2, <2>4, <2>5, <2>6, <2>7, <2>8, <2>11, <2>16, <2>17, <2>18, <2>19
          DEF TypeOK, Where, Walk
<1>2. TypeOK /\ Where /\ TableBorn /\ [Next]_vars => (TypeOK /\ Where /\ TableBorn)'
  <2> SUFFICES ASSUME TypeOK, Where, TableBorn, [Next]_vars PROVE TypeOK' /\ Where' /\ TableBorn'
    OBVIOUS
  <2>1. CASE UNCHANGED vars
    BY <2>1 DEF vars, files, shared, TypeOK, Where, TableBorn, Svc
  <2> QED BY <2>1, FilesType, LoadType, RemoveType, WalkType, ClientType, MonitorType DEF Next, MainStep
<1> QED BY <1>1, <1>2, PTL DEF Spec

----------------------------------------------------------------------------
(* An acknowledged request is on disk.                                      *)

\* Edits, reloads and monitors leave the requests and the override file alone.
LEMMA AckFrame ==
    ASSUME AckInv, cl' = cl, file' = file, tmp' = tmp, hist'.overlap = hist.overlap,
           hist'.acked = hist.acked
    PROVE  AckInv'
BY DEF AckInv, OneSaves, OneAsks, Kept, Keeps, Settled, Saving, Active

\* The history a step of the main thread writes.
LEMMA MainHist ==
    ASSUME TypeOK, MainStep
    PROVE  /\ hist.raced \subseteq hist'.raced
           /\ hist'.overlap = hist.overlap /\ hist'.acked = hist.acked
           /\ hist'.failed = hist.failed
           /\ hist'.broken = hist.broken /\ hist.twins \subseteq hist'.twins
<1>1. CASE LoadFiles
  BY <1>1 DEF LoadFiles, TypeOK
<1>2. CASE AddRuntime
  BY <1>2 DEF AddRuntime, TypeOK
<1>3. CASE hist' = hist
  BY <1>3
<1>4. LoadFiles \/ AddRuntime \/ hist' = hist
  BY DEF MainStep, LoadOverride, CloneOld, RemoveStop, RemoveQuit, RemoveDrop, Replace, StartAdded,
     ApplyEnabled, SendToggle, SendRestart, SpawnMonitor
<1> QED BY <1>1, <1>2, <1>3, <1>4

\* A service that is settled has no other request, so what a request of another
\* service loads from the file has its entry.
LEMMA SettledOther ==
    ASSUME TypeOK, Where, AckInv, NEW s \in Services \ hist.overlap, NEW w \in {"on", "off"}, Settled(s, w),
           NEW c \in Clients, cl[c].pc \in {"load", "open", "write", "rename"}
    PROVE  cl[c].svc # s
<1> SUFFICES ASSUME cl[c].svc = s PROVE FALSE
  OBVIOUS
<1>1. c \in Active(s)
  BY DEF Active
<1> QED BY <1>1 DEF AckInv, OneAsks, Settled

\* Steps of a request that leave it where it is not settled, and change file and
\* temporary file only as a saver may.
LEMMA KeptOn ==
    ASSUME TypeOK, AckInv, hist.overlap \subseteq hist'.overlap,
           \A s \in Services \ hist'.overlap, w \in {"on", "off"} : Settled(s, w)' => Settled(s, w),
           \A s \in Services \ hist'.overlap, w \in {"on", "off"} : Settled(s, w) /\ Keeps(s, w) => Keeps(s, w)'
    PROVE  Kept'
BY DEF AckInv, Kept

\* Requests that begin, save and end.
LEMMA AckClient ==
    ASSUME TypeOK, Where, AckInv, NEW c \in Clients,
           ClientStep(c) \/ \E s \in Services, on \in BOOLEAN : SetConfig(c, s, on)
    PROVE  AckInv'
<1>0. cl[c].pc # "idle" => cl[c].svc \in Services
  BY DEF Where
<1>1. ASSUME NEW s \in Services, NEW on \in BOOLEAN, SetConfig(c, s, on) PROVE AckInv'
  <2>1. SetFacts(c, s, on) /\ cl[c].pc = "idle" /\ file' = file /\ tmp' = tmp
    <3>1. SetFacts(c, s, on)
      BY <1>1, SetConfigFacts
    <3> QED BY <1>1, <3>1 DEF SetConfig, files
  <2>2. Saving' = Saving /\ \A b \in Saving : cl'[b] = cl[b]
    BY <2>1 DEF Saving, SetFacts
  <2>3. hist.overlap \subseteq hist'.overlap /\ (s \notin hist'.overlap => Active(s) = {})
    BY <2>1 DEF SetFacts
  <2>4. OneSaves'
    BY <2>1, <2>2, <2>3 DEF AckInv, OneSaves
  <2>5. \A t \in Services : Active(t)' = IF t = s THEN Active(t) \cup {c} ELSE Active(t)
    BY <2>1 DEF SetFacts, Active
  <2>6. \A t \in Services : hist'.acked[t] = IF t = s THEN "none" ELSE hist.acked[t]
    BY <2>1 DEF SetFacts
  <2>7. OneAsks'
    BY <2>3, <2>5, <2>6 DEF AckInv, OneAsks
  <2>8. ASSUME NEW t \in Services \ hist'.overlap, NEW w \in {"on", "off"}, Settled(t, w)' PROVE Settled(t, w)
    <3>1. CASE t = s
      <4>1. Active(t)' = {c} /\ cl'[c].pc = "load" /\ hist'.acked[t] = "none"
        BY <2>1, <2>3, <2>5, <2>6, <2>8, <3>1 DEF SetFacts
      <4> QED BY <2>8, <4>1 DEF Settled
    <3>2. CASE t # s
      <4>1. Active(t)' = Active(t) /\ hist'.acked[t] = hist.acked[t]
        BY <2>5, <2>6, <3>2
      <4>2. \A b \in Active(t) : cl'[b] = cl[b]
        BY <2>1 DEF Active, SetFacts
      <4> QED BY <2>8, <4>1, <4>2 DEF Settled
    <3> QED BY <3>1, <3>2
  <2>9. Kept'
    BY <2>1, <2>2, <2>3, <2>8, KeptOn DEF Keeps
  <2> QED BY <2>1, <2>3, <2>4, <2>7, <2>9 DEF AckInv
<1>2. CASE LoadMap(c)
  <2> DEFINE map == [file EXCEPT ![cl[c].svc] = Word(cl[c].on)]
  <2>1. cl[c].pc = "load" /\ file' = file /\ tmp' = tmp /\ Becomes(c, "open", map, cl[c].fd)
        /\ file \in Maps /\ file # Torn
    BY <1>2, LoadMapFacts DEF LoadMap, files
  <2>2. hist'.overlap = hist.overlap \cup Met(c) /\ hist'.acked = hist.acked
    BY <1>2 DEF LoadMap, TypeOK
  <2>3. \A t \in Services : t # cl[c].svc => map[t] = file[t]
    BY <2>1 DEF Maps
  <2> HIDE DEF map
  <2>4. Saving' = Saving \cup {c}
    BY <2>1 DEF Saving, Becomes
  <2>5. \A b \in Clients : cl'[b].svc = cl[b].svc
    BY <2>1 DEF Becomes
  <2>6. OneSaves'
    <3>1. CASE Saving = {}
      <4>1. Saving' = {c}
        BY <2>4, <3>1
      <4> QED BY <2>1, <4>1 DEF OneSaves, Becomes, map
    <3>2. CASE Saving # {}
      <4>1. \A b \in Saving' : cl'[b].svc \in hist'.overlap
        BY <2>2, <2>4, <2>5, <3>2 DEF Met, Saving
      <4> QED BY <4>1 DEF OneSaves
    <3> QED BY <3>1, <3>2
  <2>7. \A t \in Services : Active(t)' = Active(t)
    BY <2>1 DEF Becomes, Active
  <2>8. OneAsks'
    BY <2>2, <2>7 DEF AckInv, OneAsks
  <2>9. ASSUME NEW t \in Services, NEW w \in {"on", "off"}, Settled(t, w)' PROVE Settled(t, w)
    BY <2>1, <2>2, <2>7, <2>9 DEF Settled, Becomes, Active
  <2>10. ASSUME NEW t \in Services \ hist'.overlap, NEW w \in {"on", "off"}, Settled(t, w), Keeps(t, w)
         PROVE  Keeps(t, w)'
    <3>1. t \notin hist.overlap /\ cl[c].svc # t
      <4>1. t \in Services \ hist.overlap
        BY <2>2
      <4> QED BY <2>1, <2>10, <4>1, SettledOther
    <3>2. map[t] = w
      BY <2>1, <2>3, <2>10, <3>1 DEF Keeps
    <3>3. \A b \in Saving : cl'[b].map = cl[b].map \/ b = c
      BY <2>1 DEF Becomes, Saving
    <3> QED BY <2>1, <2>4, <2>10, <3>2, <3>3 DEF Keeps, Becomes
  <2>11. Kept'
    BY <2>2, <2>9, <2>10, KeptOn
  <2> QED BY <2>1, <2>6, <2>8, <2>11 DEF AckInv
<1>3. CASE OpenTmp(c)
  <2>1. cl[c].pc = "open" /\ file' = file /\ tmp' = Torn /\ hist' = hist /\ Becomes(c, "write", cl[c].map, "tmp")
    BY <1>3, OtherStepFacts DEF OpenTmp
  <2>2. Saving' = Saving /\ c \in Saving
    BY <2>1 DEF Saving, Becomes
  <2>3. OneSaves'
    <3> SUFFICES ASSUME NEW b \in Saving, cl[b].svc \notin hist.overlap
                 PROVE  /\ Saving = {b} /\ file # Torn
                        /\ cl'[b].map = [file EXCEPT ![cl'[b].svc] = Word(cl'[b].on)]
                        /\ cl'[b].pc = "write" => cl'[b].fd = "tmp" /\ tmp' = Torn
                        /\ cl'[b].pc = "rename" => tmp' = cl'[b].map
      BY <2>1, <2>2 DEF OneSaves, Becomes, Saving
    <3>1. b = c
      BY <2>2 DEF AckInv, OneSaves
    <3> QED BY <2>1, <3>1 DEF AckInv, OneSaves, Becomes
  <2>4. \A t \in Services : Active(t)' = Active(t)
    BY <2>1 DEF Becomes, Active
  <2>5. OneAsks'
    BY <2>1, <2>4 DEF AckInv, OneAsks
  <2>6. \A t \in Services, w \in {"on", "off"} : Settled(t, w)' => Settled(t, w)
    BY <2>1, <2>4 DEF Settled, Becomes, Active
  <2>7. \A t \in Services, w \in {"on", "off"} : Keeps(t, w) => Keeps(t, w)'
    BY <2>1, <2>2, MarkAssumption DEF Keeps, Becomes, Saving
  <2>8. Kept'
    BY <2>1, <2>6, <2>7, KeptOn
  <2> QED BY <2>1, <2>3, <2>5, <2>8 DEF AckInv
<1>4. CASE WriteTmp(c)
  <2>1. cl[c].pc = "write" /\ hist' = hist /\ Becomes(c, "rename", cl[c].map, "none")
    BY <1>4, OtherStepFacts DEF WriteTmp
  <2>2. Saving' = Saving /\ c \in Saving
    BY <2>1 DEF Saving, Becomes
  <2>3. file' \in {file, cl[c].map, Torn} /\ tmp' \in {tmp, cl[c].map, Torn}
    BY <1>4 DEF WriteTmp, Over
  <2>4. cl[c].svc \notin hist.overlap => file' = file /\ tmp' = cl[c].map
    BY <1>4, <2>1, <2>2 DEF AckInv, OneSaves, WriteTmp, Over
  <2>5. OneSaves'
    <3> SUFFICES ASSUME NEW b \in Saving, cl[b].svc \notin hist.overlap
                 PROVE  /\ Saving = {b} /\ file' # Torn
                        /\ cl'[b].map = [file' EXCEPT ![cl'[b].svc] = Word(cl'[b].on)]
                        /\ cl'[b].pc = "write" => cl'[b].fd = "tmp" /\ tmp' = Torn
                        /\ cl'[b].pc = "rename" => tmp' = cl'[b].map
      BY <2>1, <2>2 DEF OneSaves, Becomes, Saving
    <3>1. b = c
      BY <2>2 DEF AckInv, OneSaves
    <3> QED BY <2>1, <2>4, <3>1 DEF AckInv, OneSaves, Becomes
  <2>6. \A t \in Services : Active(t)' = Active(t)
    BY <2>1 DEF Becomes, Active
  <2>7. OneAsks'
    BY <2>1, <2>6 DEF AckInv, OneAsks
  <2>8. \A t \in Services, w \in {"on", "off"} : Settled(t, w)' => Settled(t, w)
    BY <2>1, <2>6 DEF Settled, Becomes, Active
  <2>9. \A t \in Services, w \in {"on", "off"} : Keeps(t, w) => Keeps(t, w)'
    BY <2>1, <2>2, <2>3, MarkAssumption DEF Keeps, Becomes, Saving
  <2>10. Kept'
    BY <2>1, <2>8, <2>9, KeptOn
  <2>11. file' = Torn => hist'.overlap # {}
    BY <2>1, <2>4 DEF AckInv
  <2> QED BY <2>5, <2>7, <2>10, <2>11 DEF AckInv
<1>5. CASE Rename(c)
  <2>1. /\ cl[c].pc = "rename" /\ hist' = hist /\ file' = tmp /\ tmp' = Absent /\ tmp # Absent
        /\ cl'[c].pc = "apply"
        /\ \A b \in Clients : /\ b # c => cl'[b].pc = cl[b].pc
                              /\ cl'[b].svc = cl[b].svc /\ cl'[b].on = cl[b].on /\ cl'[b].map = cl[b].map
    BY <1>5, RenameFacts DEF Rename
  <2>2. Saving' = Saving \ {c} /\ c \in Saving
    BY <2>1 DEF Saving
  <2>3. ASSUME cl[c].svc \notin hist.overlap
        PROVE  /\ Saving' = {} /\ file' \in Maps /\ file' # Torn
               /\ file'[cl[c].svc] = Word(cl[c].on)
    <3>1. Saving = {c} /\ file # Torn /\ tmp = cl[c].map
          /\ cl[c].map = [file EXCEPT ![cl[c].svc] = Word(cl[c].on)]
      BY <2>1, <2>2, <2>3 DEF AckInv, OneSaves
    <3>2. cl[c].map \in Maps /\ file \in Maps /\ cl[c].svc \in Services
      BY <1>0, <2>1, <3>1 DEF TypeOK, Request
    <3>3. cl[c].map[cl[c].svc] = Word(cl[c].on)
      BY <3>1, <3>2 DEF Maps
    <3> QED BY <2>1, <2>2, <3>1, <3>2, <3>3, MarkAssumption
  <2>4. OneSaves'
    <3>1. \A b \in Saving' : b \in Saving /\ b # c /\ b \in Clients
      BY <2>2 DEF Saving
    <3>2. ASSUME NEW b \in Saving' PROVE cl'[b].svc \in hist'.overlap
      <4>1. b \in Saving /\ Saving # {b} /\ b \in Clients
        BY <2>2, <3>1
      <4>2. cl[b].svc \in hist.overlap
        BY <4>1 DEF AckInv, OneSaves
      <4> QED BY <2>1, <4>1, <4>2
    <3> QED BY <3>2 DEF OneSaves
  <2>5. \A t \in Services : Active(t)' = Active(t)
    BY <2>1 DEF Active
  <2>6. OneAsks'
    BY <2>1, <2>5 DEF AckInv, OneAsks
  <2>7. ASSUME NEW t \in Services \ hist.overlap, NEW w \in {"on", "off"}, Settled(t, w)' PROVE Keeps(t, w)'
    <3>1. CASE Settled(t, w)
      <4>1. Keeps(t, w)
        BY <3>1 DEF AckInv, Kept
      <4>2. tmp = Torn \/ tmp \in Maps
        BY <2>1 DEF TypeOK
      <4>3. file' # Torn => file'[t] = w
        BY <2>1, <4>1, <4>2 DEF Keeps
      <4>4. \A b \in Saving' : cl'[b].map[t] = w
        BY <2>1, <2>2, <4>1 DEF Keeps, Saving
      <4> QED BY <2>1, <4>3, <4>4, MarkAssumption DEF Keeps
    <3>2. CASE ~Settled(t, w)
      <4>1. PICK b \in Active(t)' : cl'[b].pc \in {"apply", "send"} /\ Word(cl'[b].on) = w
        BY <2>1, <2>7, <3>2 DEF Settled
      <4>2. b \in Active(t) /\ b \in Clients /\ b = c
        BY <2>1, <2>5, <3>2, <4>1 DEF Settled, Active
      <4>3. cl[c].svc = t /\ Word(cl[c].on) = w
        BY <2>1, <4>1, <4>2 DEF Active
      <4> QED BY <2>1, <2>3, <4>3, MarkAssumption DEF Keeps
    <3> QED BY <3>1, <3>2
  <2>8. Kept'
    BY <2>1, <2>7 DEF Kept
  <2>9. file' = Torn => hist'.overlap # {}
    BY <2>1, <2>3
  <2> QED BY <2>4, <2>6, <2>8, <2>9 DEF AckInv
<1>6. CASE ApplyRequest(c)
  <2>1. /\ cl[c].pc = "apply" /\ hist' = hist /\ file' = file /\ tmp' = tmp
        /\ Becomes(c, "send", cl[c].map, cl[c].fd)
    BY <1>6, OtherStepFacts DEF ApplyRequest, files
  <2>2. Saving' = Saving /\ c \notin Saving
    BY <2>1 DEF Saving, Becomes
  <2>3. \A b \in Saving : cl'[b] = cl[b]
    BY <2>1, <2>2 DEF Becomes, Saving
  <2>4. OneSaves'
    BY <2>1, <2>2, <2>3 DEF AckInv, OneSaves
  <2>5. \A t \in Services : Active(t)' = Active(t)
    BY <2>1 DEF Becomes, Active
  <2>6. OneAsks'
    BY <2>1, <2>5 DEF AckInv, OneAsks
  <2>7. \A t \in Services, w \in {"on", "off"} : Settled(t, w)' => Settled(t, w)
    BY <2>1, <2>5 DEF Settled, Becomes, Active
  <2>8. \A t \in Services, w \in {"on", "off"} : Keeps(t, w) => Keeps(t, w)'
    BY <2>1, <2>2, <2>3 DEF Keeps
  <2>9. Kept'
    BY <2>1, <2>7, <2>8, KeptOn
  <2> QED BY <2>1, <2>4, <2>6, <2>9 DEF AckInv
<1>7. ASSUME NEW ok \in BOOLEAN, cl[c].pc # "idle", Answer(c, ok), file' = file, tmp' = tmp,
             ok => cl[c].pc = "send"
      PROVE  AckInv'
  <2>1. /\ cl'[c].pc = "idle" /\ \A b \in Clients : b # c => cl'[b] = cl[b]
        /\ hist'.overlap = hist.overlap
    BY <1>7, AnswerFacts
  <2>2. \A s \in Services : hist'.acked[s] = IF ok /\ s = cl[c].svc THEN Word(cl[c].on) ELSE hist.acked[s]
    BY <1>7, AnswerFacts
  <2>3. Saving' = Saving \ {c} /\ \A b \in Saving' : cl'[b] = cl[b]
    BY <2>1 DEF Saving
  <2>4. OneSaves'
    BY <1>7, <2>1, <2>3 DEF AckInv, OneSaves
  <2>5. \A t \in Services : Active(t)' = Active(t) \ {c}
    BY <2>1 DEF Active
  <2>6. c \in Active(cl[c].svc)
    BY <1>7 DEF Active
  <2>7. OneAsks'
    <3> SUFFICES ASSUME NEW t \in Services, t \notin hist.overlap
                 PROVE  /\ \A a, b \in Active(t)' : a = b
                        /\ hist'.acked[t] # "none" => Active(t)' = {}
      BY <2>1 DEF OneAsks
    <3>1. \A a, b \in Active(t) : a = b
      BY DEF AckInv, OneAsks
    <3>2. CASE t = cl[c].svc
      BY <2>5, <2>6, <3>1, <3>2
    <3>3. CASE t # cl[c].svc
      <4>1. hist'.acked[t] = hist.acked[t]
        BY <2>2, <3>3
      <4> QED BY <2>5, <3>1, <4>1 DEF AckInv, OneAsks
    <3> QED BY <3>2, <3>3
  <2>8. ASSUME NEW t \in Services, NEW w \in {"on", "off"}, Settled(t, w)' PROVE Settled(t, w)
    <3>1. \A b \in Active(t)' : b \in Active(t) /\ cl'[b] = cl[b]
      BY <2>1, <2>5 DEF Active
    <3>2. hist'.acked[t] = w => Settled(t, w)
      <4>1. CASE ok /\ t = cl[c].svc
        BY <1>7, <2>2, <2>6, <4>1 DEF Settled
      <4>2. CASE ~(ok /\ t = cl[c].svc)
        BY <2>2, <4>2 DEF Settled
      <4> QED BY <4>1, <4>2
    <3> QED BY <2>8, <3>1, <3>2 DEF Settled
  <2>9. \A t \in Services, w \in {"on", "off"} : Keeps(t, w) => Keeps(t, w)'
    BY <1>7, <2>3 DEF Keeps
  <2>10. Kept'
    BY <2>1, <2>8, <2>9, KeptOn
  <2> QED BY <1>7, <2>1, <2>4, <2>7, <2>10 DEF AckInv
<1>8. CASE LoadMapFails(c) \/ WriteFails(c) \/ RenameFails(c)
  <2>1. cl[c].pc # "idle" /\ Answer(c, FALSE) /\ file' = file /\ tmp' = tmp
    BY <1>8 DEF LoadMapFails, WriteFails, RenameFails, files
  <2> QED BY <1>7, <2>1
<1>9. CASE SendRequest(c)
  <2>1. cl[c].pc = "send" /\ Answer(c, Receiver(cl[c].svc)) /\ file' = file /\ tmp' = tmp
        /\ Receiver(cl[c].svc) \in BOOLEAN
    BY <1>9 DEF SendRequest, files, Receiver
  <2> QED BY <1>7, <2>1
<1> QED BY <1>1, <1>2, <1>3, <1>4, <1>5, <1>6, <1>8, <1>9 DEF ClientStep

\* An acknowledged enable or disable is in the override file from the answer until
\* the next request for the service, whatever other requests do meanwhile and
\* however they tear the file; only an entry of a service whose own request met
\* another one can differ, and only such requests can tear the file.
THEOREM AckDurableHolds == Spec => []AckDurable
<1>1. Init => AckInv
  <2> SUFFICES ASSUME Init PROVE AckInv
    OBVIOUS
  <2>1. \A c \in Clients : cl[c].pc = "idle"
    BY DEF Init
  <2>2. Saving = {} /\ \A s \in Services : Active(s) = {}
    BY <2>1 DEF Saving, Active
  <2>3. file \in Maps /\ tmp = Absent /\ hist.acked = file
    BY DEF Init, Maps
  <2> QED BY <2>2, <2>3, MarkAssumption DEF AckInv, OneSaves, OneAsks, Kept, Keeps, Settled
<1>2. TypeOK /\ Where /\ AckInv /\ [Next]_vars => AckInv'
  <2> SUFFICES ASSUME TypeOK, Where, AckInv, [Next]_vars PROVE AckInv'
    OBVIOUS
  <2>1. CASE MainStep
    <3>1. UNCHANGED <<cl, file, tmp>>
      BY <2>1 DEF MainStep, LoadFiles, LoadOverride, CloneOld, RemoveStop, RemoveQuit, RemoveDrop, Replace,
         AddRuntime, StartAdded, ApplyEnabled, SendToggle, SendRestart, SpawnMonitor, files
    <3> QED BY <2>1, <3>1, MainHist, AckFrame
  <2>2. CASE UNCHANGED <<cl, file, tmp, hist>>
    BY <2>2, AckFrame
  <2>3. ASSUME NEW m \in Monitors, MonitorStep(m) PROVE UNCHANGED <<cl, file, tmp, hist>>
    BY <2>3, MonitorFacts DEF files
  <2>4. ASSUME Signal \/ \E s \in Services, e \in Entries \cup {Absent} : Edit(s, e)
        PROVE  UNCHANGED <<cl, file, tmp, hist>>
    BY <2>4 DEF Edit, Signal
  <2>5. UNCHANGED vars => UNCHANGED <<cl, file, tmp, hist>>
    BY DEF vars, files
  <2> QED BY <2>1, <2>2, <2>3, <2>4, <2>5, AckClient DEF Next
<1>3. TypeOK /\ AckInv => AckDurable
  <2> SUFFICES ASSUME TypeOK, AckInv, file # Torn, NEW s \in Services \ hist.overlap, hist.acked[s] # "none"
               PROVE  file[s] = hist.acked[s]
    BY DEF AckInv, AckDurable
  <2>1. hist.acked[s] \in {"on", "off"}
    BY DEF TypeOK, History, Maps
  <2> QED BY <2>1 DEF AckInv, Kept, Keeps, Settled
<1> QED BY <1>1, <1>2, <1>3, TypeCorrect, PTL DEF Spec

----------------------------------------------------------------------------
(* The configuration follows the disk.                                      *)

\* Steps that leave the files, the events and the requests alone, and the
\* configuration with the position of the main thread.
LEMMA FollowFrame ==
    ASSUME FollowInv, UNCHANGED <<disk, file, dirty, signals, config, main, cl>>,
           hist.failed \subseteq hist'.failed
    PROVE  FollowInv'
BY DEF FollowInv, Unsaved, Active, Overridden, Valid

\* The main thread loads what is there and puts it in place.
LEMMA FollowMain ==
    ASSUME TypeOK, Where, FollowInv, MainStep
    PROVE  FollowInv'
<1>0. hist'.failed = hist.failed /\ UNCHANGED <<disk, file, dirty, cl>>
  <2>1. UNCHANGED <<disk, file, dirty, cl>>
    BY DEF MainStep, LoadFiles, LoadOverride, CloneOld, RemoveStop, RemoveQuit, RemoveDrop, Replace,
       AddRuntime, StartAdded, ApplyEnabled, SendToggle, SendRestart, SpawnMonitor, files
  <2> QED BY <2>1, MainHist
<1>1. CASE LoadFiles
  <2>1. main'.pc = "override" /\ main'.new = disk
    BY <1>1 DEF LoadFiles, TypeOK, MainThread
  <2> QED BY <1>0, <2>1 DEF FollowInv, Unplaced
<1>2. CASE LoadOverride
  <2>0. signals' = signals /\ config' = config /\ main.pc = "override"
    BY <1>2 DEF LoadOverride, files, shared
  <2>1. CASE file # Torn /\ Valid(main.new)
    <3>1. main'.pc = "clone" /\ main'.new = Overridden(main.new, file)
      BY <1>2, <2>1 DEF LoadOverride, TypeOK, MainThread
    <3> QED BY <1>0, <2>0, <2>1, <3>1 DEF FollowInv, Unplaced, Overridden
  <2>2. CASE ~(file # Torn /\ Valid(main.new))
    <3>1. main'.pc = "idle"
      BY <1>2, <2>2 DEF LoadOverride, TypeOK, MainThread
    <3> QED BY <1>0, <2>0, <2>2, <3>1 DEF FollowInv, Unplaced, Valid
  <2> QED BY <2>1, <2>2
<1>3. CASE Replace
  <2>0. signals' = signals /\ config' = main.new /\ main.pc = "replace"
    BY <1>3 DEF Replace, files
  <2>1. main'.pc \in {"idle", "apply"}
    <3>1. main' = Round(0) /\ 0 \in 0..Len(Order)
      BY <1>3, OrderAssumption DEF Replace
    <3> QED BY <3>1, RoundFacts DEF RoundEnds, RoundGoes
  <2> QED BY <1>0, <2>0, <2>1 DEF FollowInv, Unplaced, Overridden
<1>4. CASE CloneOld \/ (\E s \in Services : RemoveStop(s)) \/ RemoveQuit \/ RemoveDrop
  <2>1. /\ signals' = signals /\ main.pc \in Unplaced
        /\ main'.pc \in Unplaced /\ main'.new = main.new
    BY <1>4 DEF CloneOld, NextRemoval, RemoveStop, RemoveQuit, RemoveDrop, Main, Unplaced,
       TypeOK, MainThread, files
  <2> QED BY <1>0, <2>1 DEF FollowInv, Unplaced, Overridden
<1>5. CASE \/ AddRuntime \/ StartAdded \/ ApplyEnabled \/ SendToggle \/ SendRestart
           \/ \E m \in Monitors : SpawnMonitor(m)
  <2>0. signals' = signals /\ config' = config /\ main.pc \in Walk
    BY <1>5 DEF AddRuntime, StartAdded, ApplyEnabled, SendToggle, SendRestart, SpawnMonitor, Main, Walk,
       files, shared
  <2>1. main' = Round(main.at) \/ \E pc \in Walk : main' = [main EXCEPT !.pc = pc]
    BY <1>5 DEF AddRuntime, StartAdded, ApplyEnabled, SendToggle, SendRestart, SpawnMonitor, Main, Walk,
       NextRound
  <2>2. main.at \in 0..Len(Order)
    BY <2>0, OrderAssumption DEF Where
  <2>3. main'.pc \in Walk \cup {"idle"}
    <3>1. CASE main' = Round(main.at)
      BY <2>2, <3>1, RoundFacts DEF RoundEnds, RoundGoes, Walk
    <3>2. ASSUME NEW pc \in Walk, main' = [main EXCEPT !.pc = pc] PROVE main'.pc \in Walk
      BY <3>2 DEF TypeOK, MainThread
    <3> QED BY <2>1, <3>1, <3>2
  <2> QED BY <1>0, <2>0, <2>3 DEF FollowInv, Unplaced, Walk, Unsaved, Active, Valid, Overridden
<1> QED BY <1>1, <1>2, <1>3, <1>4, <1>5 DEF MainStep

\* A request changes the configuration first and the file after it, or fails.
LEMMA FollowClient ==
    ASSUME TypeOK, Where, FollowInv, NEW c \in Clients,
           ClientStep(c) \/ \E s \in Services, on \in BOOLEAN : SetConfig(c, s, on)
    PROVE  FollowInv'
<1>1. ASSUME NEW s \in Services, NEW on \in BOOLEAN, SetConfig(c, s, on) PROVE FollowInv'
  <2>1. SetFacts(c, s, on)
    BY <1>1, SetConfigFacts
  <2>2. cl[c].pc = "idle" /\ UNCHANGED <<disk, file, dirty, signals, main>>
    BY <1>1 DEF SetConfig, files
  <2>3. \A t \in Services : t # s => Unsaved(t)' = Unsaved(t)
    BY <2>1, <2>2 DEF Unsaved, Active, SetFacts
  <2>4. c \in Unsaved(s)'
    BY <2>1 DEF Unsaved, Active, SetFacts
  <2>5. \A t \in Services : t # s => config'[t] = config[t] /\ (t \in hist'.failed <=> t \in hist.failed)
    BY <2>1 DEF SetFacts
  <2> QED BY <2>2, <2>3, <2>4, <2>5 DEF FollowInv, Valid, Overridden
<1>2. CASE Rename(c)
  BY <1>2 DEF Rename, FollowInv
<1>3. ASSUME UNCHANGED <<disk, dirty, signals, config, main, hist>>, file' = file,
             \A t \in Services : Unsaved(t)' = Unsaved(t)
      PROVE  FollowInv'
  BY <1>3 DEF FollowInv, Valid, Overridden
<1>4. CASE LoadMap(c)
  <2>1. cl[c].pc = "load" /\ UNCHANGED <<disk, file, dirty, signals, config, main>>
    BY <1>4 DEF LoadMap, files, shared
  <2>2. hist'.failed = hist.failed
    BY <1>4 DEF LoadMap, TypeOK
  <2>3. \A t \in Services : Unsaved(t)' = Unsaved(t)
    BY <1>4, <2>1, LoadMapFacts DEF Becomes, Unsaved, Active
  <2> QED BY <2>1, <2>2, <2>3 DEF FollowInv, Valid, Overridden
<1>5. CASE OpenTmp(c)
  <2>1. cl[c].pc = "open" /\ UNCHANGED <<disk, file, dirty, signals, config, main, hist>>
    BY <1>5 DEF OpenTmp, shared
  <2>2. \A t \in Services : Unsaved(t)' = Unsaved(t)
    BY <1>5, <2>1, OtherStepFacts DEF Becomes, Unsaved, Active
  <2> QED BY <1>3, <2>1, <2>2
<1>6. CASE WriteTmp(c)
  <2>1. cl[c].pc = "write" /\ UNCHANGED <<disk, signals, config, main, hist>>
    BY <1>6 DEF WriteTmp, shared
  <2>2. \A t \in Services : Unsaved(t)' = Unsaved(t)
    BY <1>6, <2>1, OtherStepFacts DEF Becomes, Unsaved, Active
  <2>3. CASE cl[c].fd = "file"
    <3>1. dirty'
      BY <1>6, <2>3 DEF WriteTmp
    <3> QED BY <3>1 DEF FollowInv
  <2>4. CASE cl[c].fd # "file"
    <3>1. file' = file
      BY <1>6, <2>4 DEF WriteTmp
    <3>2. dirty' = dirty
      BY <1>6, <2>4 DEF WriteTmp, TypeOK
    <3> QED BY <1>3, <2>1, <2>2, <3>1, <3>2
  <2> QED BY <2>3, <2>4
<1>7. CASE ApplyRequest(c)
  <2>1. cl[c].pc = "apply" /\ UNCHANGED <<disk, file, dirty, signals, config, main, hist>>
    BY <1>7 DEF ApplyRequest, files
  <2>2. \A t \in Services : Unsaved(t)' = Unsaved(t)
    BY <1>7, <2>1, OtherStepFacts DEF Becomes, Unsaved, Active
  <2> QED BY <1>3, <2>1, <2>2
<1>8. ASSUME NEW ok \in BOOLEAN, cl[c].pc # "idle", Answer(c, ok), ok => cl[c].pc = "send",
             UNCHANGED <<disk, file, dirty, signals, config, main>>
      PROVE  FollowInv'
  <2>1. /\ cl'[c].pc = "idle" /\ \A b \in Clients : b # c => cl'[b] = cl[b]
        /\ hist'.failed = IF ok THEN hist.failed ELSE hist.failed \cup {cl[c].svc}
    BY <1>8, AnswerFacts
  <2>2. \A t \in Services : Unsaved(t)' = Unsaved(t) \ {c}
    BY <2>1 DEF Unsaved, Active
  <2>3. \A t \in Services : t \notin hist'.failed => t \notin hist.failed /\ c \notin Unsaved(t)
    BY <1>8, <2>1 DEF Unsaved, Active
  <2>4. \A t \in Services \ hist'.failed : t \in Services \ hist.failed /\ Unsaved(t)' = Unsaved(t)
    BY <2>2, <2>3
  <2> QED BY <1>8, <2>4 DEF FollowInv, Valid, Overridden
<1>9. CASE LoadMapFails(c) \/ WriteFails(c) \/ RenameFails(c)
  <2>1. cl[c].pc # "idle" /\ Answer(c, FALSE) /\ UNCHANGED <<disk, file, dirty, signals, config, main>>
    BY <1>9 DEF LoadMapFails, WriteFails, RenameFails, files, shared
  <2> QED BY <1>8, <2>1
<1>10. CASE SendRequest(c)
  <2>1. cl[c].pc = "send" /\ Answer(c, Receiver(cl[c].svc)) /\ Receiver(cl[c].svc) \in BOOLEAN
        /\ UNCHANGED <<disk, file, dirty, signals, config, main>>
    BY <1>10 DEF SendRequest, files, shared, Receiver
  <2> QED BY <1>8, <2>1
<1> QED BY <1>1, <1>2, <1>4, <1>5, <1>6, <1>7, <1>9, <1>10 DEF ClientStep

\* At rest the configuration in memory is that of the files with the override
\* on top, but for services whose last request failed half way.
THEOREM ConfigFollowsDiskHolds == Spec => []ConfigFollowsDisk
<1>1. Init => FollowInv
  <2> SUFFICES ASSUME Init PROVE FollowInv
    OBVIOUS
  <2>1. main.pc = "idle" /\ config = disk /\ \A s \in Services : file[s] \in {"none", "on"}
    BY DEF Init
  <2>2. \A s \in Services : disk[s] # Absent => [disk[s] EXCEPT !.on = TRUE] = disk[s]
    BY DEF Init
  <2>3. \A s \in Services : Overridden(disk, file)[s] = disk[s]
    BY <2>1, <2>2 DEF Overridden
  <2> QED BY <2>1, <2>3 DEF FollowInv, Unplaced
<1>2. TypeOK /\ Where /\ FollowInv /\ [Next]_vars => FollowInv'
  <2> SUFFICES ASSUME TypeOK, Where, FollowInv, [Next]_vars PROVE FollowInv'
    OBVIOUS
  <2>1. ASSUME NEW m \in Monitors, MonitorStep(m)
        PROVE  UNCHANGED <<disk, file, dirty, signals, config, main, cl, hist>>
    BY <2>1, MonitorFacts DEF files
  <2>2. ASSUME NEW s \in Services, NEW e \in Entries \cup {Absent}, Edit(s, e) PROVE FollowInv'
    BY <2>2 DEF Edit, FollowInv
  <2>3. CASE Signal
    <3>1. signals' # 0
      BY <2>3 DEF Signal, Debounced, TypeOK
    <3> QED BY <3>1 DEF FollowInv
  <2>4. UNCHANGED vars => UNCHANGED <<disk, file, dirty, signals, config, main, cl, hist>>
    BY DEF vars, files, shared
  <2>5. UNCHANGED <<disk, file, dirty, signals, config, main, cl, hist>> => FollowInv'
    BY FollowFrame
  <2> QED BY <2>1, <2>2, <2>3, <2>4, <2>5, FollowMain, FollowClient DEF Next
<1>3. FollowInv => ConfigFollowsDisk
  <2> SUFFICES ASSUME FollowInv, AtRest, Valid(disk), file # Torn, NEW s \in Services \ hist.failed
               PROVE  config[s] = Overridden(disk, file)[s]
    BY DEF ConfigFollowsDisk
  <2>1. Unsaved(s) = {}
    BY DEF AtRest, Unsaved, Active
  <2> QED BY <2>1 DEF FollowInv, AtRest, Unplaced
<1> QED BY <1>1, <1>2, <1>3, TypeCorrect, PTL DEF Spec

----------------------------------------------------------------------------
(* Every configured service, and no other, can be reached.                  *)

\* No Quit is in the queue q.
NoQuit(q) == \A i \in 1..Len(q) : q[i] # "Quit"

\* Queues without a Quit.
LEMMA NoQuitFacts ==
    ASSUME NEW q \in Seq(Msgs), NoQuit(q)
    PROVE  /\ \A msg \in Msgs \ {"Quit"} : NoQuit(Append(q, msg))
           /\ q # <<>> => Head(q) # "Quit" /\ NoQuit(Tail(q))
<1>1. ASSUME NEW msg \in Msgs, msg # "Quit" PROVE NoQuit(Append(q, msg))
  <2> SUFFICES ASSUME NEW i \in 1..Len(Append(q, msg)) PROVE Append(q, msg)[i] # "Quit"
    BY DEF NoQuit
  <2>1. Len(Append(q, msg)) = Len(q) + 1
    OBVIOUS
  <2>2. CASE i = Len(q) + 1
    BY <1>1, <2>2
  <2>3. CASE i \in 1..Len(q)
    BY <2>3 DEF NoQuit
  <2> QED BY <2>1, <2>2, <2>3
<1>2. ASSUME q # <<>> PROVE Head(q) # "Quit" /\ NoQuit(Tail(q))
  <2>1. Len(q) \in Nat \ {0} /\ Head(q) = q[1]
    BY <1>2
  <2>2. Len(Tail(q)) = Len(q) - 1 /\ \A i \in 1..(Len(q) - 1) : Tail(q)[i] = q[i + 1]
    BY <1>2
  <2> QED BY <2>1, <2>2 DEF NoQuit
<1> QED BY <1>1, <1>2

\* Two tables have entries for the same services.
SameNames(f, g) == \A s \in Services : f[s] # Absent <=> g[s] # Absent

\* A request configures no other services.
LEMMA ClientNames ==
    ASSUME TypeOK, Where, NEW c \in Clients,
           ClientStep(c) \/ \E s \in Services, on \in BOOLEAN : SetConfig(c, s, on)
    PROVE  SameNames(config', config)
<1>1. ASSUME NEW s \in Services, NEW on \in BOOLEAN, SetConfig(c, s, on) PROVE SameNames(config', config)
  <2>1. SetFacts(c, s, on)
    BY <1>1, SetConfigFacts
  <2> QED BY <1>1, <2>1 DEF SetConfig, SetFacts, SameNames
<1>2. CASE ClientStep(c)
  <2>1. config' = config
    BY <1>2 DEF ClientStep, LoadMap, LoadMapFails, OpenTmp, WriteTmp, WriteFails, Rename, RenameFails,
       ApplyRequest, SendRequest, shared
  <2> QED BY <2>1 DEF SameNames
<1> QED BY <1>1, <1>2

\* A step that leaves the table alone and sends no Quit.
LEMMA TableFrame ==
    ASSUME TypeOK, TableInv, ctl' = ctl, SameNames(config', config),
           mon' \in [Monitors -> Monitor],
           \A m \in Monitors :
              /\ mon'[m].svc = mon[m].svc
              /\ mon[m].pc \notin {"unborn", "dead", "quit"} /\ NoQuit(mon[m].queue) /\ config[mon[m].svc] # Absent =>
                    mon'[m].pc \notin {"unborn", "dead", "quit"} /\ NoQuit(mon'[m].queue)
    PROVE  TableInv'
BY DEF TableInv, TypeOK, NoQuit, SameNames

\* A message that is no Quit.
LEMMA TablePosted ==
    ASSUME TypeOK, TableInv, ctl' = ctl, SameNames(config', config),
           NEW s \in Services, NEW msg \in {"Start", "Stop", "Restart"},
           mon' = mon \/ mon' = Posted(s, msg)
    PROVE  TableInv'
<1>1. msg \in Msgs /\ msg # "Quit"
  BY DEF Msgs
<1>2. \A m \in Monitors : mon[m].queue \in Seq(Msgs)
  BY DEF TypeOK, Monitor
<1>3. CASE mon' = mon
  BY <1>3, TableFrame DEF TypeOK
<1>4. CASE mon' = Posted(s, msg)
  <2>1. /\ mon' \in [Monitors -> Monitor]
        /\ \A m \in Monitors : /\ mon'[m].svc = mon[m].svc /\ mon'[m].pc = mon[m].pc
                               /\ \/ mon'[m].queue = mon[m].queue
                                  \/ mon'[m].queue = Append(mon[m].queue, msg)
    <3>1. /\ mon' \in [Monitors -> Monitor]
          /\ \A m \in Monitors :
                /\ mon'[m].svc = mon[m].svc /\ mon'[m].pc = mon[m].pc
                /\ mon'[m].queue = IF Receiver(s) /\ m = ctl[s]
                                     THEN Append(mon[m].queue, msg) ELSE mon[m].queue
      <4>1. msg \in Msgs
        BY <1>1
      <4>2. mon' = Posted(s, msg)
        BY <1>4
      <4> QED BY <4>1, <4>2, PostedFacts
    <3> QED BY <3>1, Zenon
  <2>2. \A m \in Monitors : NoQuit(mon[m].queue) => NoQuit(mon'[m].queue)
    BY <1>1, <1>2, <2>1, NoQuitFacts
  <2> QED BY <2>1, <2>2, TableFrame
<1> QED BY <1>3, <1>4

\* A monitor in the table has a definition, so it does not end.
LEMMA TableMonitor ==
    ASSUME TypeOK, Where, TableInv, NEW m \in Monitors, MonitorStep(m)
    PROVE  TableInv'
<1>1. ctl' = ctl /\ config' = config /\ SameNames(config', config)
  BY MonitorFacts DEF SameNames
<1>2. mon[m].queue \in Seq(Msgs)
  BY DEF TypeOK, Monitor
<1>3. CASE RecvGone(m)
  <2>1. config[mon[m].svc] = Absent
    BY <1>3 DEF RecvGone, Configured
  <2> QED BY <1>1, <2>1, MonitorFacts, TableFrame
<1>4. CASE Recv(m)
  <2>1. mon[m].queue # <<>>
    BY <1>4 DEF Recv
  <2>2. mon' \in [Monitors -> Monitor] /\ (\A n \in Monitors : n # m => mon'[n] = mon[n])
        /\ mon'[m].svc = mon[m].svc /\ mon'[m].pc = Takes(m) /\ mon'[m].queue = Tail(mon[m].queue)
    BY <1>4, RecvFacts DEF Turns
  <2>3. NoQuit(mon[m].queue) => NoQuit(mon'[m].queue) /\ Takes(m) \notin {"unborn", "dead", "quit"}
    BY <1>2, <2>1, <2>2, NoQuitFacts, TakesFacts
  <2> QED BY <1>1, <2>2, <2>3, TableFrame
<1>5. CASE Stopped(m)
  <2>1. /\ mon' \in [Monitors -> Monitor] /\ (\A n \in Monitors : n # m => mon'[n] = mon[n])
        /\ mon'[m].svc = mon[m].svc
        /\ mon[m].pc # "quit" => mon'[m].queue = mon[m].queue /\ mon'[m].pc \in {"idle", "start"}
    BY <1>5, StoppedFacts DEF Turns
  <2>2. \A n \in Monitors :
           /\ mon'[n].svc = mon[n].svc
           /\ mon[n].pc \notin {"unborn", "dead", "quit"} /\ NoQuit(mon[n].queue) =>
                 mon'[n].pc \notin {"unborn", "dead", "quit"} /\ NoQuit(mon'[n].queue)
    BY <2>1
  <2> QED BY <1>1, <2>1, <2>2, TableFrame
<1>6. ASSUME mon'[m].queue = mon[m].queue, mon'[m].pc \in {"idle", "start", "probe"} PROVE TableInv'
  BY <1>1, <1>6, MonitorFacts, TableFrame
<1>7. CASE NoStart(m) \/ StartFails(m) \/ RestartScript(m)
  BY <1>6, <1>7, StartFacts DEF Turns
<1>8. ASSUME NEW tracked \in BOOLEAN, Start(m, tracked) PROVE TableInv'
  BY <1>6, <1>8, StartFacts DEF Turns
<1>9. CASE Retry(m) \/ ExitRestart(m) \/ ProbeFails(m)
  BY <1>6, <1>9, PollFacts DEF Turns
<1>10. ASSUME NEW q \in {"Succeeded", "Failed"}, ExitEnds(m, q) PROVE TableInv'
  BY <1>6, <1>10, PollFacts DEF Turns
<1> QED BY <1>3, <1>4, <1>5, <1>7, <1>8, <1>9, <1>10 DEF MonitorStep

\* Steps of others, and steps that change no name anywhere, keep all together.
LEMMA TogetherFrame ==
    ASSUME Together, main' = main, ctl' = ctl, SameNames(config', config), SameNames(rt', rt)
    PROVE  Together'
<1>1. \A i \in 1..Len(Order) : Order[i] \in Services
  BY OrderAssumption
<1> QED BY <1>1 DEF Together, SameNames, Passed, Removed, Svc, Walk

\* The requests and the monitors.
LEMMA OthersTogether ==
    ASSUME TypeOK, Where, TableBorn, TableInv, Together,
           \/ \E c \in Clients :
                 ClientStep(c) \/ \E s \in Services, on \in BOOLEAN : SetConfig(c, s, on)
           \/ \E m \in Monitors : MonitorStep(m)
    PROVE  TableInv' /\ Together'
<1>1. main' = main /\ ctl' = ctl
  BY MonitorFacts DEF ClientStep, SetConfig, LoadMap, LoadMapFails, OpenTmp, WriteTmp, WriteFails, Rename,
     RenameFails, ApplyRequest, SendRequest, shared
<1>2. ASSUME NEW m \in Monitors, MonitorStep(m) PROVE TableInv' /\ SameNames(config', config) /\ SameNames(rt', rt)
  <2>1. config' = config /\ mon[m].svc \in Services /\ TRUE \in BOOLEAN
        /\ (rt' = rt \/ \E q \in States : rt' = InState(mon[m].svc, q))
    BY <1>2, MonitorFacts
  <2>4. SameNames(rt', rt)
    <3>1. CASE rt' = rt
      BY <3>1 DEF SameNames
    <3>2. ASSUME NEW q \in States, rt' = InState(mon[m].svc, q) PROVE SameNames(rt', rt)
      <4>1. mon[m].svc \in Services /\ TRUE \in BOOLEAN
        BY <2>1
      <4> QED BY <3>2, <4>1, RuntimeFacts DEF SameNames
    <3> QED BY <2>1, <3>1, <3>2
  <2> QED BY <1>2, <2>1, <2>4, TableMonitor DEF SameNames
<1>3. ASSUME NEW c \in Clients,
             ClientStep(c) \/ \E s \in Services, on \in BOOLEAN : SetConfig(c, s, on)
      PROVE  TableInv' /\ SameNames(config', config) /\ SameNames(rt', rt)
  <2>1. SameNames(config', config)
    BY <1>3, ClientNames
  <2>2. SameNames(rt', rt)
    <3>1. CASE ApplyRequest(c)
      <4>1. cl[c].svc \in Services /\ cl[c].on \in BOOLEAN /\ "Running" \in States
        BY <3>1 DEF ApplyRequest, Where, TypeOK, Request, States
      <4> QED BY <3>1, <4>1, RuntimeFacts DEF ApplyRequest, SameNames
    <3>2. CASE rt' = rt
      BY <3>2 DEF SameNames
    <3>3. ApplyRequest(c) \/ rt' = rt
      BY <1>3 DEF ClientStep, SetConfig, LoadMap, LoadMapFails, OpenTmp, WriteTmp, WriteFails, Rename,
         RenameFails, SendRequest, shared
    <3> QED BY <3>1, <3>2, <3>3
  <2>3. CASE SendRequest(c)
    <3>1. cl[c].svc \in Services /\ \E msg \in {"Start", "Stop", "Restart"} : mon' = Posted(cl[c].svc, msg)
      BY <2>3 DEF SendRequest, Where
    <3> QED BY <1>1, <2>1, <2>2, <3>1, TablePosted
  <2>4. CASE mon' = mon
    BY <1>1, <2>1, <2>2, <2>4, TableFrame DEF TypeOK
  <2>5. SendRequest(c) \/ mon' = mon
    BY <1>3 DEF ClientStep, SetConfig, LoadMap, LoadMapFails, OpenTmp, WriteTmp, WriteFails, Rename,
       RenameFails, ApplyRequest
  <2> QED BY <2>3, <2>4, <2>5
<1> QED BY <1>1, <1>2, <1>3, TogetherFrame

\* The main thread loads and removes.
LEMMA LoadTogether ==
    ASSUME TypeOK, Where, TableInv, Together, LoadFiles \/ LoadOverride \/ CloneOld
    PROVE  TableInv' /\ Together'
<1>1. mon' = mon /\ ctl' = ctl /\ config' = config /\ rt' = rt
  BY DEF LoadFiles, LoadOverride, CloneOld, shared
<1>2. TableInv'
  BY <1>1 DEF TableInv
<1>3. CASE LoadFiles \/ LoadOverride
  <2>1. main.pc \in {"idle", "override"} /\ main'.pc \in {"idle", "override", "clone"}
    BY <1>3 DEF LoadFiles, LoadOverride, TypeOK, MainThread
  <2> QED BY <1>1, <1>2, <2>1 DEF Together, Walk
<1>4. CASE CloneOld
  <2>1. /\ main.pc = "clone" /\ main'.old = config /\ main'.new = main.new
        /\ main'.pc = NextRemoval(config)
    BY <1>4 DEF CloneOld, TypeOK, MainThread
  <2>2. /\ main'.pc \in {"remove", "replace"}
        /\ main'.pc = "replace" => \A s \in Services : config[s] # Absent => main.new[s] # Absent
    BY <2>1 DEF NextRemoval, Removed
  <2> QED BY <1>1, <1>2, <2>1, <2>2 DEF Together, Walk
<1> QED BY <1>3, <1>4

\* The loop over the removed services: sender, then runtime, one service at a time.
LEMMA RemoveTogether ==
    ASSUME TypeOK, Where, TableInv, Together,
           (\E s \in Services : RemoveStop(s)) \/ RemoveQuit \/ RemoveDrop
    PROVE  TableInv' /\ Together'
<1>1. ASSUME NEW s \in Services, RemoveStop(s) PROVE TableInv' /\ Together'
  <2>1. /\ main.pc = "remove" /\ main'.pc = "quit" /\ main'.gone = s /\ s \in Removed(main.old)
        /\ main'.old = main.old /\ main'.new = main.new
    BY <1>1 DEF RemoveStop, TypeOK, MainThread
  <2>2. ctl' = ctl /\ config' = config /\ rt' = rt /\ mon' = Posted(s, "Stop")
    BY <1>1 DEF RemoveStop, shared
  <2>3. SameNames(config', config) /\ "Stop" \in {"Start", "Stop", "Restart"}
    BY <2>2 DEF SameNames
  <2>4. TableInv'
    BY <2>2, <2>3, TablePosted
  <2>5. Together'
    BY <2>1, <2>2 DEF Together, Walk, Removed
  <2> QED BY <2>4, <2>5
<1>2. CASE RemoveQuit
  <2>0. main.gone \in Services /\ "Quit" \in Msgs
    BY <1>2 DEF RemoveQuit, Main, Where, Msgs
  <2>1. /\ main.pc = "quit" /\ main'.pc = "drop" /\ main'.gone = main.gone
        /\ main'.old = main.old /\ main'.new = main.new
    BY <1>2 DEF RemoveQuit, Main, TypeOK, MainThread
  <2>2. /\ ctl' = [ctl EXCEPT ![main.gone] = Nobody] /\ config' = config /\ rt' = rt
        /\ mon' = Posted(main.gone, "Quit")
    BY <1>2 DEF RemoveQuit
  <2>3. \A s \in Services : ctl'[s] = IF s = main.gone THEN Nobody ELSE ctl[s]
    BY <2>2 DEF TypeOK
  <2>4. ASSUME NEW s \in Services, ctl'[s] # Nobody
        PROVE  /\ ctl'[s] = ctl[s] /\ ctl[s] \in Monitors
               /\ mon'[ctl[s]].svc = mon[ctl[s]].svc /\ mon'[ctl[s]].pc = mon[ctl[s]].pc
               /\ mon'[ctl[s]].queue = mon[ctl[s]].queue
    <3>1. s # main.gone /\ ctl'[s] = ctl[s] /\ ctl[s] \in Monitors
      BY <2>3, <2>4 DEF TypeOK
    <3>2. ~(Receiver(main.gone) /\ ctl[s] = ctl[main.gone])
      BY <2>0, <2>4, <3>1 DEF TableInv, Receiver
    <3>3. \A m \in Monitors :
             /\ mon'[m].svc = mon[m].svc /\ mon'[m].pc = mon[m].pc
             /\ ~(Receiver(main.gone) /\ m = ctl[main.gone]) => mon'[m].queue = mon[m].queue
      BY <2>0, <2>2, PostedFacts
    <3> QED BY <3>1, <3>2, <3>3
  <2>5. TableInv'
    BY <2>2, <2>4 DEF TableInv
  <2>6. Together'
    BY <2>0, <2>1, <2>2, <2>3 DEF Together, Walk, Removed
  <2> QED BY <2>5, <2>6
<1>3. CASE RemoveDrop
  <2>0. main.gone \in Services /\ main.old \in Configs
    BY <1>3, MainFields DEF RemoveDrop, Where
  <2> DEFINE old == [main.old EXCEPT ![main.gone] = Absent]
  <2>1. /\ main.pc = "drop" /\ main'.pc = NextRemoval(old) /\ main'.old = old /\ main'.new = main.new
    BY <1>3 DEF RemoveDrop, TypeOK, MainThread
  <2>2. \A s \in Services : old[s] = IF s = main.gone THEN Absent ELSE main.old[s]
    BY <2>0 DEF Configs
  <2> HIDE DEF old
  <2>3. /\ main'.pc \in {"remove", "replace"}
        /\ main'.pc = "replace" => \A s \in Services : old[s] # Absent => main.new[s] # Absent
    BY <2>1 DEF NextRemoval, Removed
  <2>4. mon' = mon /\ ctl' = ctl /\ config' = config /\ rt' = [rt EXCEPT ![main.gone] = Absent]
    BY <1>3 DEF RemoveDrop
  <2>5. \A s \in Services : rt'[s] = IF s = main.gone THEN Absent ELSE rt[s]
    BY <2>4 DEF TypeOK
  <2>6. TableInv'
    BY <2>4 DEF TableInv
  <2>7. Together'
    BY <2>1, <2>2, <2>3, <2>4, <2>5 DEF Together, Walk
  <2> QED BY <2>6, <2>7
<1> QED BY <1>1, <1>2, <1>3

\* What the loop over the new services keeps, when it goes to the next one.
LEMMA RoundTogether ==
    ASSUME TypeOK, Where, Together, main.pc \in Walk, main' = Round(main.at),
           SameNames(config', config),
           \A i \in 1..Len(Order) :
              /\ ctl'[Order[i]] # Nobody <=> (IF i = main.at THEN TRUE ELSE ctl[Order[i]] # Nobody)
              /\ rt'[Order[i]] # Absent <=> (IF i = main.at THEN TRUE ELSE rt[Order[i]] # Absent)
    PROVE  Together'
<1>0. /\ Len(Order) \in Nat /\ \A i \in 1..Len(Order) : Order[i] \in Services
      /\ \A s \in Services : \E i \in 1..Len(Order) : Order[i] = s
      /\ \A i, j \in 1..Len(Order) : Order[i] = Order[j] => i = j
  BY OrderFacts
<1>1. /\ main.at \in 1..Len(Order) /\ main.new[Order[main.at]] # Absent
  BY DEF Where, Svc
<1>2. RoundEnds(main.at) \/ RoundGoes(main.at)
  BY <1>0, <1>1, RoundFacts
<1>3. \A i \in 1..Len(Order) :
         /\ config'[Order[i]] # Absent <=> main.new[Order[i]] # Absent
         /\ main.old[Order[i]] # Absent => main.new[Order[i]] # Absent
         /\ ctl'[Order[i]] # Nobody <=>
               main.new[Order[i]] # Absent /\ (i <= main.at \/ main.old[Order[i]] # Absent)
         /\ rt'[Order[i]] # Absent <=>
               main.new[Order[i]] # Absent /\ (i <= main.at \/ main.old[Order[i]] # Absent)
  <2> SUFFICES ASSUME NEW i \in 1..Len(Order)
               PROVE  /\ config'[Order[i]] # Absent <=> main.new[Order[i]] # Absent
                      /\ main.old[Order[i]] # Absent => main.new[Order[i]] # Absent
                      /\ ctl'[Order[i]] # Nobody <=>
                            main.new[Order[i]] # Absent /\ (i <= main.at \/ main.old[Order[i]] # Absent)
                      /\ rt'[Order[i]] # Absent <=>
                            main.new[Order[i]] # Absent /\ (i <= main.at \/ main.old[Order[i]] # Absent)
    OBVIOUS
  <2>1. CASE i = main.at
    BY <1>0, <1>1, <2>1 DEF Together, SameNames
  <2>2. CASE i # main.at
    <3>1. i <= main.at <=> i < main.at
      BY <1>1, <2>2
    <3> QED BY <1>0, <2>2, <3>1 DEF Together, SameNames, Passed
  <2> QED BY <2>1, <2>2
<1>4. CASE RoundEnds(main.at)
  <2>1. \A i \in 1..Len(Order) : /\ config'[Order[i]] # Absent <=> ctl'[Order[i]] # Nobody
                                 /\ config'[Order[i]] # Absent <=> rt'[Order[i]] # Absent
    <3> SUFFICES ASSUME NEW i \in 1..Len(Order)
                 PROVE  /\ config'[Order[i]] # Absent <=> ctl'[Order[i]] # Nobody
                        /\ config'[Order[i]] # Absent <=> rt'[Order[i]] # Absent
      OBVIOUS
    <3>1. i <= main.at \/ i \in (main.at + 1)..Len(Order)
      BY <1>0, <1>1
    <3> QED BY <1>3, <1>4, <3>1 DEF RoundEnds
  <2>2. main'.pc = "idle"
    BY <1>4 DEF RoundEnds
  <2> QED BY <1>0, <2>1, <2>2 DEF Together, Walk
<1>5. CASE RoundGoes(main.at)
  <2>1. /\ main'.pc = "apply" /\ main'.at \in (main.at + 1)..Len(Order)
        /\ main'.old = main.old /\ main'.new = main.new
    BY <1>5 DEF RoundGoes
  <2>2. ASSUME NEW i \in 1..Len(Order)
        PROVE  main.new[Order[i]] # Absent /\ i < main'.at => i <= main.at
    <3>1. i <= main.at \/ i \in (main.at + 1)..Len(Order)
      BY <1>0, <1>1
    <3> QED BY <1>5, <3>1 DEF RoundGoes
  <2>3. \A i \in 1..Len(Order) : i <= main.at => i < main'.at
    BY <1>0, <1>1, <2>1
  <2> QED BY <1>3, <2>1, <2>2, <2>3 DEF Together, Walk, Passed
<1> QED BY <1>2, <1>4, <1>5

\* The new configuration goes in once every removed service is out of both tables.
LEMMA ReplaceTogether ==
    ASSUME TypeOK, Where, TableInv, Together, Replace
    PROVE  TableInv' /\ Together'
<1>0. /\ Len(Order) \in Nat /\ \A i \in 1..Len(Order) : Order[i] \in Services
      /\ \A s \in Services : \E i \in 1..Len(Order) : Order[i] = s
  BY OrderFacts
<1>1. main.pc = "replace" /\ config' = main.new /\ main' = Round(0) /\ UNCHANGED <<rt, ctl, mon>>
  BY DEF Replace
<1>2. TableInv'
  BY <1>1 DEF TableInv, Together
<1>3. \A s \in Services : /\ main.old[s] # Absent => main.new[s] # Absent
                          /\ rt'[s] # Absent <=> main.old[s] # Absent
                          /\ ctl'[s] # Nobody <=> main.old[s] # Absent
  BY <1>1 DEF Together
<1>4. RoundEnds(0) \/ RoundGoes(0)
  <2>1. 0 \in 0..Len(Order)
    BY <1>0
  <2> QED BY <1>1, <2>1, RoundFacts
<1>5. CASE RoundEnds(0)
  <2>1. \A s \in Services : main.new[s] = Absent
    BY <1>0, <1>5 DEF RoundEnds
  <2> QED BY <1>1, <1>2, <1>3, <1>5, <2>1 DEF Together, RoundEnds, Walk
<1>6. CASE RoundGoes(0)
  <2>1. /\ main'.pc = "apply" /\ main'.old = main.old /\ main'.new = main.new
        /\ \A i \in 1..Len(Order) : i < main'.at => main.new[Order[i]] = Absent
    BY <1>6 DEF RoundGoes
  <2> QED BY <1>0, <1>1, <1>2, <1>3, <2>1 DEF Together, Walk, Passed
<1> QED BY <1>4, <1>5, <1>6

\* The rest of the loop over the new services.
LEMMA WalkTogether ==
    ASSUME TypeOK, Where, TableInv, Together,
           AddRuntime \/ StartAdded \/ ApplyEnabled \/ SendToggle \/ SendRestart
    PROVE  TableInv' /\ Together'
<1>0. /\ Len(Order) \in Nat /\ \A i \in 1..Len(Order) : Order[i] \in Services
      /\ \A i, j \in 1..Len(Order) : Order[i] = Order[j] => i = j
  BY OrderFacts
<1>1. main.pc \in Walk /\ ctl' = ctl /\ config' = config /\ SameNames(config', config)
  BY DEF AddRuntime, StartAdded, ApplyEnabled, SendToggle, SendRestart, Main, Walk, shared, SameNames
<1>2. main.at \in 1..Len(Order) /\ Svc \in Services /\ main.new[Svc] # Absent /\ main.new[Svc] \in Entries
  BY <1>0, <1>1, MainFields DEF Where, Svc, Configs
<1>3. main.new[Svc].on \in BOOLEAN
  BY <1>2 DEF Entries
<1>4. CASE AddRuntime
  <2>1. /\ main.pc = "apply" /\ main'.pc = "spawn" /\ main'.at = main.at /\ main.old[Svc] = Absent
        /\ main'.old = main.old /\ main'.new = main.new
    BY <1>4 DEF AddRuntime, Main, TypeOK, MainThread
  <2>2. NewRuntime(main.new[Svc].on) # Absent
    <3>1. NewRuntime(main.new[Svc].on) \in Runtimes
      BY <1>3 DEF NewRuntime, Runtimes, States
    <3> QED BY <3>1, MarkAssumption
  <2>3. \A i \in 1..Len(Order) : rt'[Order[i]] # Absent <=> i = main.at \/ rt[Order[i]] # Absent
    <3>1. rt' = [rt EXCEPT ![Svc] = NewRuntime(main.new[Svc].on)]
      BY <1>4 DEF AddRuntime
    <3>2. \A s \in Services : rt'[s] = IF s = Svc THEN NewRuntime(main.new[Svc].on) ELSE rt[s]
      BY <3>1 DEF TypeOK
    <3> QED BY <1>0, <1>2, <2>2, <3>2 DEF Svc
  <2>4. mon' = mon
    BY <1>4 DEF AddRuntime
  <2>5. TableInv'
    BY <1>1, <2>4 DEF TableInv
  <2>6. \A i \in 1..Len(Order) : Passed(i)' <=> Passed(i)
    BY <2>1 DEF Passed
  <2>7. ~Passed(main.at)
    BY <1>2, <2>1 DEF Passed, Svc
  <2>8. Together'
    BY <1>1, <1>2, <2>1, <2>3, <2>6, <2>7 DEF Together, Walk, Svc
  <2> QED BY <2>5, <2>8
<1>5. CASE ApplyEnabled
  <2>1. /\ main.pc = "apply" /\ main'.pc = "toggle" /\ main'.at = main.at /\ main.old[Svc] # Absent
        /\ main'.old = main.old /\ main'.new = main.new
    BY <1>5 DEF ApplyEnabled, Main, TypeOK, MainThread
  <2>2. SameNames(rt', rt)
    <3>1. "Running" \in States
      BY DEF States
    <3> QED BY <1>2, <1>3, <1>5, <3>1, RuntimeFacts DEF ApplyEnabled, SameNames
  <2>4. mon' = mon
    BY <1>5 DEF ApplyEnabled
  <2>5. TableInv'
    BY <1>1, <2>4 DEF TableInv
  <2>6. \A i \in 1..Len(Order) : Passed(i)' <=> Passed(i)
    BY <1>2, <2>1 DEF Passed, Svc
  <2>8. Together'
    BY <1>0, <1>1, <2>1, <2>2, <2>6 DEF Together, Walk, SameNames
  <2> QED BY <2>5, <2>8
<1>6. CASE SendToggle
  <2>1. /\ main.pc = "toggle" /\ main'.pc = "definition" /\ main'.at = main.at
        /\ main'.old = main.old /\ main'.new = main.new /\ rt' = rt
    BY <1>6 DEF SendToggle, Main, TypeOK, MainThread, shared
  <2>2. \E msg \in {"Start", "Stop", "Restart"} : mon' = Posted(Svc, msg)
    BY <1>6 DEF SendToggle
  <2>3. TableInv'
    BY <1>1, <1>2, <2>2, TablePosted
  <2>4. \A i \in 1..Len(Order) : Passed(i)' <=> Passed(i)
    BY <2>1 DEF Passed
  <2>5. Together'
    BY <1>1, <2>1, <2>4 DEF Together, Walk
  <2> QED BY <2>3, <2>5
<1>7. CASE StartAdded \/ SendRestart
  <2>1. /\ main' = Round(main.at) /\ rt' = rt
        /\ main.pc \in {"start", "definition"} \/ (main.pc = "apply" /\ main.old[Svc] # Absent)
    BY <1>7 DEF StartAdded, SendRestart, NextRound, shared
  <2>2. \E msg \in {"Start", "Stop", "Restart"} : mon' = mon \/ mon' = Posted(Svc, msg)
    BY <1>7 DEF StartAdded, SendRestart, RestartChanged
  <2>3. TableInv'
    BY <1>1, <1>2, <2>2, TablePosted
  <2>4. Passed(main.at)
    BY <1>2, <2>1 DEF Passed, Svc
  <2>5. ctl[Order[main.at]] # Nobody /\ rt[Order[main.at]] # Absent
    BY <1>1, <1>2, <2>4 DEF Together
  <2>6. Together'
    BY <1>1, <2>1, <2>5, RoundTogether
  <2> QED BY <2>3, <2>6
<1> QED BY <1>4, <1>5, <1>6, <1>7

\* A new monitor enters the table.
LEMMA SpawnTogether ==
    ASSUME TypeOK, Where, TableInv, Together, NEW m \in Monitors, SpawnMonitor(m)
    PROVE  TableInv' /\ Together'
<1>0. /\ Len(Order) \in Nat /\ \A i \in 1..Len(Order) : Order[i] \in Services
      /\ \A i, j \in 1..Len(Order) : Order[i] = Order[j] => i = j
  BY OrderFacts
<1>1. /\ main.pc = "spawn" /\ config' = config /\ rt' = rt /\ ctl' = [ctl EXCEPT ![Svc] = m]
      /\ mon' = [mon EXCEPT ![m].svc = Svc, ![m].pc = "idle"] /\ mon[m].pc = "unborn"
  BY DEF SpawnMonitor
<1>2. main.at \in 1..Len(Order) /\ Svc \in Services /\ main.new[Svc] # Absent /\ Svc = Order[main.at]
  BY <1>0, <1>1 DEF Where, Svc, Walk
<1>3. /\ mon'[m].svc = Svc /\ mon'[m].pc = "idle" /\ mon'[m].queue = <<>>
      /\ \A n \in Monitors : n # m => mon'[n] = mon[n]
  <2>1. mon[m] \in Monitor /\ mon[m].queue = <<>>
    BY <1>1 DEF TypeOK, Where
  <2> QED BY <1>1, <2>1 DEF TypeOK, Monitor
<1>4. \A s \in Services : ctl'[s] = IF s = Svc THEN m ELSE ctl[s]
  BY <1>1 DEF TypeOK
<1>5. config[Svc] # Absent
  BY <1>1, <1>2 DEF Together, Walk
<1>6. m # Nobody
  BY NobodyAssumption
<1>7. TableInv'
  <2> SUFFICES ASSUME NEW s \in Services, ctl'[s] # Nobody
               PROVE  /\ config'[s] # Absent
                      /\ mon'[ctl'[s]].svc = s /\ mon'[ctl'[s]].pc \notin {"unborn", "dead", "quit"}
                      /\ \A i \in 1..Len(mon'[ctl'[s]].queue) : mon'[ctl'[s]].queue[i] # "Quit"
    BY DEF TableInv
  <2>1. CASE s = Svc
    <3>1. ctl'[s] = m
      BY <1>4, <2>1
    <3>2. config'[s] # Absent /\ mon'[m].svc = s /\ mon'[m].pc \notin {"unborn", "dead", "quit"}
      BY <1>1, <1>3, <1>5, <2>1
    <3>3. \A i \in 1..Len(mon'[m].queue) : FALSE
      BY <1>3
    <3> QED BY <3>1, <3>2, <3>3
  <2>2. CASE s # Svc
    <3>1. ctl'[s] = ctl[s] /\ ctl[s] \in Monitors /\ ctl[s] # m
      BY <1>1, <1>4, <2>2 DEF TableInv, TypeOK
    <3>2. mon'[ctl'[s]] = mon[ctl[s]]
      BY <1>3, <3>1
    <3> QED BY <1>1, <3>1, <3>2 DEF TableInv
  <2> QED BY <2>1, <2>2
<1>8. \A i \in 1..Len(Order) : ctl'[Order[i]] # Nobody <=> (IF i = main.at THEN TRUE ELSE ctl[Order[i]] # Nobody)
  BY <1>0, <1>2, <1>4, <1>6
<1>9. rt[Order[main.at]] # Absent
  BY <1>1, <1>2 DEF Together, Walk
<1>10. CASE main' = Round(main.at)
  <2>1. main.pc \in Walk /\ SameNames(config', config)
    BY <1>1 DEF Walk, SameNames
  <2>2. \A i \in 1..Len(Order) : rt'[Order[i]] # Absent <=> (IF i = main.at THEN TRUE ELSE rt[Order[i]] # Absent)
    BY <1>1, <1>9
  <2>3. Together'
    BY <1>8, <1>10, <2>1, <2>2, RoundTogether
  <2> QED BY <1>7, <2>3
<1>11. CASE main' = [main EXCEPT !.pc = "start"]
  <2>1. /\ main'.pc = "start" /\ main'.at = main.at
        /\ main'.old = main.old /\ main'.new = main.new
    BY <1>11 DEF TypeOK, MainThread
  <2>2. \A i \in 1..Len(Order) : Passed(i)' <=> i = main.at \/ Passed(i)
    BY <1>1, <1>2, <2>1 DEF Passed
  <2>3. Together'
    BY <1>1, <1>8, <2>1, <2>2 DEF Together, Walk
  <2> QED BY <1>7, <2>3
<1> QED BY <1>10, <1>11 DEF SpawnMonitor, NextRound

\* Table, runtimes and configuration are together at every moment.
THEOREM TableHolds == Spec => [](TableInv /\ Together)
<1>1. Init => TableInv /\ Together
  <2> SUFFICES ASSUME Init PROVE TableInv /\ Together
    OBVIOUS
  <2>0. /\ Len(Order) \in Nat /\ \A i \in 1..Len(Order) : Order[i] \in Services
        /\ \A s \in Services : \E i \in 1..Len(Order) : Order[i] = s
    BY OrderFacts
  <2>1. config = disk /\ main.pc = "idle"
    BY DEF Init
  <2>2. \A s \in Services : disk[s] # Absent => ctl[s] \in 1..Len(Order) /\ Order[ctl[s]] = s
    BY <2>0 DEF Init
  <2>3. \A s \in Services : disk[s] = Absent => ctl[s] = Nobody
    BY DEF Init
  <2>4. \A s \in Services : disk[s] # Absent => ctl[s] \in Monitors /\ ctl[s] # Nobody
    BY <2>2, MonitorsAssumption, NobodyAssumption
  <2>5. \A s \in Services : rt[s] # Absent <=> disk[s] # Absent
    <3>1. [on |-> TRUE, state |-> "Running"] \in Runtimes
      BY DEF Runtimes, States
    <3> QED BY <3>1, MarkAssumption DEF Init
  <2>6. ASSUME NEW s \in Services, disk[s] # Absent
        PROVE  mon[ctl[s]].svc = s /\ mon[ctl[s]].pc = "idle" /\ mon[ctl[s]].queue = <<>>
    <3>1. ctl[s] \in Monitors /\ ctl[s] <= Len(Order) /\ disk[Order[ctl[s]]] # Absent /\ Order[ctl[s]] = s
      BY <2>0, <2>2, <2>4, <2>6
    <3> QED BY <3>1 DEF Init
  <2>7. TableInv
    BY <2>1, <2>3, <2>6 DEF TableInv
  <2>8. Together
    BY <2>1, <2>3, <2>4, <2>5 DEF Together, Walk
  <2> QED BY <2>7, <2>8
<1>2. TypeOK /\ Where /\ TableBorn /\ TableInv /\ Together /\ [Next]_vars => (TableInv /\ Together)'
  <2> SUFFICES ASSUME TypeOK, Where, TableBorn, TableInv, Together, [Next]_vars PROVE TableInv' /\ Together'
    OBVIOUS
  <2>1. CASE UNCHANGED <<shared, mon, main>>
    BY <2>1 DEF TableInv, Together, Passed, Removed, Svc, Walk, shared
  <2>2. ASSUME Signal \/ \E s \in Services, e \in Entries \cup {Absent} : Edit(s, e)
        PROVE  UNCHANGED <<shared, mon, main>>
    BY <2>2 DEF Edit, Signal
  <2>3. UNCHANGED vars => UNCHANGED <<shared, mon, main>>
    BY DEF vars
  <2>4. CASE MainStep
    BY <2>4, LoadTogether, RemoveTogether, ReplaceTogether, WalkTogether, SpawnTogether DEF MainStep
  <2> QED BY <2>1, <2>2, <2>3, <2>4, OthersTogether DEF Next
<1> QED BY <1>1, <1>2, TypeCorrect, PTL DEF Spec

\* At rest every configured service, and no other, has a runtime and a sender to
\* a living monitor of its own.
THEOREM RegisteredHolds == Spec => []Registered
<1>1. TypeOK /\ TableInv /\ Together => Registered
  BY DEF TableInv, Together, Registered, AtRest, Receiver
<1> QED BY <1>1, TypeCorrect, TableHolds, PTL

----------------------------------------------------------------------------
(* Reload carries the configuration out.                                    *)

\* A message of one of the kinds K is in the queue q, and the last message of q.
Holds(q, K) == \E i \in 1..Len(q) : q[i] \in K
LastMsg(q) == q[Len(q)]

\* Where the loop over the new services is, as seen by s.
AtWork(s) == main.pc \in Walk /\ Svc = s
Ahead(s) == main.pc \in Walk /\ \E i \in 1..Len(Order) : Order[i] = s /\ i > main.at

\* What the main thread or a request is about to send to s.  A Restart is coming
\* as long as the loop has not done with a service whose definition changed.
Sends(s, on) ==
    \/ \E c \in Active(s) : cl[c].pc = "send" /\ cl[c].on = on
    \/ AtWork(s) /\ main.pc = "toggle" /\ main.new[s].on = on
    \/ AtWork(s) /\ main.pc = "start" /\ on
Remakes(s) ==
    /\ AtWork(s) \/ Ahead(s)
    /\ main.old[s] # Absent /\ main.old[s].def # main.new[s].def
Coming(s) ==
    {msg \in {"Start", "Stop", "Restart"} :
        \/ msg = "Start" /\ Sends(s, TRUE)
        \/ msg = "Stop" /\ Sends(s, FALSE)
        \/ msg = "Restart" /\ Remakes(s)}

\* Reload may start s before a dependency has its runtime.
Excused(s) == \E d \in Deps[s] : ListedAfter(d, s)

\* What is true of the monitor m of a service s with the runtime r, the
\* definition def, and messages coming: the last of its messages fits the flag,
\* and an enabled service that is down waits for a dependency, has fallen, or has
\* an excuse; what is up with another definition, or is about to be started with
\* one, will be stopped; and the state shows what is up unless a Stop is due.
Down(s, r, m) ==
    \/ r.state = "WaitingForDependency"
    \/ r.state \in {"Succeeded", "Failed"} /\ m.fell
    \/ r.state = "Failed" /\ Excused(s)
Off(r, m, coming) ==
    ~r.on /\ "Stop" \notin coming =>
        IF m.queue # <<>> THEN LastMsg(m.queue) = "Stop"
        ELSE m.pc = "stop" \/ (m.pc = "idle" /\ m.runs = Absent /\ r.state = "Disabled")
On(s, r, m, coming) ==
    r.on /\ "Start" \notin coming =>
        IF m.queue # <<>> THEN LastMsg(m.queue) \in {"Start", "Restart"}
        ELSE /\ m.pc # "stop"
             /\ m.pc = "idle" /\ m.runs = Absent => Down(s, r, m)
Right(def, m, coming) ==
    \/ Holds(m.queue, {"Stop", "Restart"}) \/ "Restart" \in coming
    \/ /\ m.runs \in {Absent, def} \/ m.pc \in {"stop", "restart", "probe"}
       /\ m.pc \in {"start", "restart", "probe"} => m.def = def
Shown(r, m, coming) ==
    \/ m.runs = Absent \/ r.state \in {"Running", "Succeeded"} \/ m.pc \in {"stop", "probe"}
    \/ Holds(m.queue, {"Stop"}) \/ "Stop" \in coming
Served(s, r, def, m, coming) ==
    /\ Off(r, m, coming) /\ On(s, r, m, coming)
    /\ Right(def, m, coming) /\ Shown(r, m, coming)
    /\ m.tracked => m.runs # Absent
    /\ m.pc \in {"start", "restart", "probe"} => m.def # Absent

\* s has no monitor but the one in the table.
Alone(s) == \A m \in Monitors : mon[m].svc = s /\ m # ctl[s] => mon[m].pc = "dead"

\* s is configured and not being removed.
Stays(s) == config[s] # Absent /\ (main.pc \in Unplaced => main.new[s] # Absent)

ServedFor(s) ==
    Calm(s) /\ Stays(s) /\ ctl[s] # Nobody =>
        Alone(s) /\ Served(s, rt[s], config[s].def, mon[ctl[s]], Coming(s))
ServedInv == \A s \in Services : ServedFor(s)

\* A calm service has one request at most, and none during a reload; its flag is
\* the configured one, until a request has come to the runtime and as long as
\* the loop over the new services has not come to it.
Before(s) == (Ahead(s) \/ (AtWork(s) /\ main.pc = "apply")) /\ main.old[s] # Absent
Asked(s) == \E c \in Active(s) : cl[c].pc # "send"
FlagFor(s) ==
    Calm(s) =>
        /\ \A b, c \in Active(s) : b = c
        /\ main.pc # "idle" => Active(s) = {}
        /\ \A c \in Active(s) : config[s] # Absent /\ config[s].on = cl[c].on
        /\ main.pc \in {"remove", "quit", "drop", "replace"} /\ main.new[s] # Absent /\ main.old[s] # Absent =>
              main.old[s] = config[s]
        /\ main.pc \in Walk => config[s] = main.new[s]
        /\ config[s] # Absent /\ rt[s] # Absent /\ ~Asked(s) =>
              rt[s].on = IF Before(s) THEN main.old[s].on ELSE config[s].on
FlagInv == \A s \in Services : FlagFor(s)

\* Only an enabled service waits.
WaitInv == \A s \in Services : rt[s] # Absent /\ ~rt[s].on => rt[s].state # "WaitingForDependency"

\* Old and new configuration have what their services need, and the loop over
\* the new services is where it can be.
NeedsInv ==
    /\ Valid(config)
    /\ main.pc \in Unplaced => Valid(main.new)
    /\ main.pc \in {"remove", "quit", "drop", "replace"} \cup Walk =>
          \A s \in Services : main.old[s] # Absent /\ main.new[s] # Absent =>
              \A d \in Deps[s] : main.old[d] # Absent
    /\ main.pc = "start" => main.new[Svc].on /\ main.old[Svc] = Absent
    /\ main.pc \in {"toggle", "definition"} => main.old[Svc] # Absent

\* A calm service that is being added has no monitor yet, and says that it is
\* disabled if it is.
FreshFor(s) ==
    /\ \A m \in Monitors : mon[m].svc = s => mon[m].pc = "dead"
    /\ ~rt[s].on => rt[s].state = "Disabled"
FreshInv == main.pc = "spawn" /\ Calm(Svc) => FreshFor(Svc)

\* The queue after a message is sent, and after one is taken.
LEMMA QueueFacts ==
    ASSUME NEW q \in Seq(Msgs), NEW K
    PROVE  /\ \A msg \in Msgs : /\ Append(q, msg) # <<>> /\ LastMsg(Append(q, msg)) = msg
                                /\ Holds(q, K) \/ msg \in K => Holds(Append(q, msg), K)
           /\ q # <<>> =>
                 /\ Tail(q) # <<>> => LastMsg(Tail(q)) = LastMsg(q)
                 /\ Tail(q) = <<>> => LastMsg(q) = Head(q)
                 /\ Holds(q, K) => Head(q) \in K \/ Holds(Tail(q), K)
<1>0. Len(q) \in Nat /\ Len(<<>>) = 0
  OBVIOUS
<1>1. ASSUME NEW msg \in Msgs
      PROVE  /\ Append(q, msg) # <<>> /\ LastMsg(Append(q, msg)) = msg
             /\ Holds(q, K) \/ msg \in K => Holds(Append(q, msg), K)
  <2>1. /\ Len(Append(q, msg)) = Len(q) + 1 /\ Append(q, msg)[Len(q) + 1] = msg
        /\ \A i \in 1..Len(q) : Append(q, msg)[i] = q[i]
    OBVIOUS
  <2>2. Append(q, msg) # <<>>
    BY <1>0, <2>1
  <2>3. Len(q) + 1 \in 1..Len(Append(q, msg)) /\ \A i \in 1..Len(q) : i \in 1..Len(Append(q, msg))
    BY <1>0, <2>1
  <2> QED BY <2>1, <2>2, <2>3 DEF LastMsg, Holds
<1>2. ASSUME q # <<>>
      PROVE  /\ Tail(q) # <<>> => LastMsg(Tail(q)) = LastMsg(q)
             /\ Tail(q) = <<>> => LastMsg(q) = Head(q)
             /\ Holds(q, K) => Head(q) \in K \/ Holds(Tail(q), K)
  <2>1. Len(q) \in Nat \ {0} /\ Head(q) = q[1]
    BY <1>2
  <2>2. /\ Len(Tail(q)) = Len(q) - 1 /\ Tail(q) \in Seq(Msgs)
        /\ \A i \in 1..(Len(q) - 1) : Tail(q)[i] = q[i + 1]
    BY <1>2
  <2>3. Tail(q) # <<>> => Len(q) - 1 \in 1..(Len(q) - 1) /\ (Len(q) - 1) + 1 = Len(q)
    <3>1. Tail(q) # <<>> => Len(Tail(q)) # 0
      BY <2>2
    <3> QED BY <2>1, <2>2, <3>1
  <2>4. Tail(q) = <<>> => Len(q) = 1
    <3>1. Tail(q) = <<>> => Len(Tail(q)) = 0
      BY <1>0
    <3> QED BY <2>1, <2>2, <3>1
  <2>5. \A i \in 1..Len(q) : i = 1 \/ (i - 1 \in 1..(Len(q) - 1) /\ Tail(q)[i - 1] = q[i])
    BY <2>1, <2>2
  <2> QED BY <2>1, <2>2, <2>3, <2>4, <2>5 DEF LastMsg, Holds
<1> QED BY <1>1, <1>2

\* More messages coming excuse more.
LEMMA ServedMore ==
    ASSUME NEW s, NEW r, NEW d, NEW m, NEW C, NEW D, Served(s, r, d, m, C), C \subseteq D
    PROVE  Served(s, r, d, m, D)
BY DEF Served, Off, On, Right, Shown, Down

\* m becomes a monitor n with one more message.
Told(m, n, msg) ==
    /\ n.svc = m.svc /\ n.pc = m.pc /\ n.def = m.def /\ n.runs = m.runs
    /\ n.tracked = m.tracked /\ n.fell = m.fell /\ n.queue = Append(m.queue, msg)

\* A message that fits the flag is no longer coming once it is sent.
LEMMA ServedTold ==
    ASSUME NEW s, NEW r, NEW d, NEW m, NEW n, NEW C, NEW D,
           Served(s, r, d, m, C), m.queue \in Seq(Msgs),
           NEW msg \in {"Start", "Stop", "Restart"}, Told(m, n, msg),
           r.on <=> msg # "Stop",
           C \ {msg} \subseteq D
    PROVE  Served(s, r, d, n, D)
<1>1. /\ n.queue # <<>> /\ LastMsg(n.queue) = msg
      /\ \A K \in {{"Stop"}, {"Stop", "Restart"}} : Holds(m.queue, K) \/ msg \in K => Holds(n.queue, K)
  BY QueueFacts DEF Told, Msgs
<1>2. Off(r, n, D) /\ On(s, r, n, D)
  BY <1>1 DEF Off, On
<1>3. Right(d, n, D)
  <2>1. CASE msg \in {"Stop", "Restart"}
    BY <1>1, <2>1 DEF Right
  <2>2. CASE msg = "Start"
    BY <1>1, <2>2 DEF Right, Served, Told
  <2> QED BY <2>1, <2>2
<1>4. Shown(r, n, D)
  <2>1. CASE msg = "Stop"
    BY <1>1, <2>1 DEF Shown
  <2>2. CASE msg # "Stop"
    BY <1>1, <2>2 DEF Shown, Served, Told
  <2> QED BY <2>1, <2>2
<1> QED BY <1>2, <1>3, <1>4 DEF Served, Told

\* A disabled service needs no Restart.
LEMMA ServedDisabled ==
    ASSUME NEW s, NEW r, NEW d, NEW m, NEW C, NEW D,
           Served(s, r, d, m, C), m.queue \in Seq(Msgs), ~r.on, "Stop" \notin C, C \ {"Restart"} \subseteq D
    PROVE  Served(s, r, d, m, D)
<1>1. Off(r, m, D) /\ On(s, r, m, D) /\ Shown(r, m, D)
  BY DEF Served, Off, On, Shown
<1>2. Right(d, m, D)
  <2>1. CASE m.queue # <<>>
    <3>1. LastMsg(m.queue) = "Stop"
      BY <2>1 DEF Served, Off
    <3>2. Len(m.queue) \in 1..Len(m.queue)
      BY <2>1
    <3> QED BY <3>1, <3>2 DEF Right, Holds, LastMsg
  <2>2. CASE m.queue = <<>>
    BY <2>2 DEF Served, Off, Right
  <2> QED BY <2>1, <2>2
<1> QED BY <1>1, <1>2 DEF Served

\* The definition changes and a Restart is coming.
LEMMA ServedRemade ==
    ASSUME NEW s, NEW r, NEW d, NEW e, NEW m, NEW C, NEW D,
           Served(s, r, d, m, C), C \subseteq D, "Restart" \in D
    PROVE  Served(s, r, e, m, D)
BY DEF Served, Off, On, Right, Shown, Down

\* The flag changes and the message that says so is coming.
LEMMA ServedFlag ==
    ASSUME NEW s, NEW r, NEW t, NEW d, NEW m, NEW C, NEW D,
           Served(s, r, d, m, C), "Stop" \notin C, C \subseteq D,
           t.on => /\ "Start" \in D
                   /\ r.state \in {"Running", "Succeeded"} => t.state \in {"Running", "Succeeded"},
           ~t.on => "Stop" \in D
    PROVE  Served(s, t, d, m, D)
BY DEF Served, Off, On, Right, Shown, Down

\* A monitor takes a message.
LEMMA ServedRecv ==
    ASSUME NEW s, NEW r, NEW t, NEW d, NEW m, NEW n, NEW C,
           Served(s, r, d, m, C), m.pc = "idle", m.queue \in Seq(Msgs), m.queue # <<>>,
           d # Absent, n.runs = m.runs, n.tracked = m.tracked, n.fell = m.fell,
           n.queue = Tail(m.queue), t.on <=> r.on,
           \/ Head(m.queue) = "Stop" /\ n.pc = "stop"
           \/ Head(m.queue) = "Restart" /\ n.pc = "restart" /\ n.def = d /\ t.state = r.state
           \/ Head(m.queue) = "Start" /\ n.pc = "start" /\ n.def = d /\ t.state = r.state
           \/ Head(m.queue) = "Start" /\ m.tracked /\ n.pc = "idle" /\ n.def = m.def /\ t.state = r.state
    PROVE  Served(s, t, d, n, C)
<1>1. /\ n.queue # <<>> => LastMsg(n.queue) = LastMsg(m.queue)
      /\ n.queue = <<>> => LastMsg(m.queue) = Head(m.queue)
      /\ \A K \in {{"Stop"}, {"Stop", "Restart"}} : Holds(m.queue, K) => Head(m.queue) \in K \/ Holds(n.queue, K)
  BY QueueFacts
<1>2. Off(t, n, C)
  BY <1>1 DEF Served, Off
<1>3. On(s, t, n, C)
  BY <1>1 DEF Served, On, Down
<1>4. Right(d, n, C)
  BY <1>1 DEF Served, Right
<1>5. Shown(t, n, C)
  BY <1>1 DEF Served, Shown
<1> QED BY <1>2, <1>3, <1>4, <1>5 DEF Served

\* stop_tracked returns.
LEMMA ServedStopped ==
    ASSUME NEW s, NEW r, NEW t, NEW d, NEW m, NEW n, NEW C,
           Served(s, r, d, m, C), n.runs = Absent, n.tracked = FALSE, n.queue = m.queue, t.on <=> r.on,
           \/ m.pc = "stop" /\ n.pc = "idle" /\ (~r.on => t.state = "Disabled")
           \/ m.pc \in {"restart", "probe"} /\ n.pc = "start" /\ n.def = m.def
    PROVE  Served(s, t, d, n, C)
BY DEF Served, Off, On, Right, Shown, Down

\* A start or a restart script brings the definition up.
LEMMA ServedStart ==
    ASSUME NEW s, NEW r, NEW t, NEW d, NEW m, NEW n, NEW C,
           Served(s, r, d, m, C), m.pc \in {"start", "restart"}, n.pc = "idle", n.queue = m.queue,
           t.on <=> r.on, t.state \in {"Running", "Succeeded"}, n.runs = m.def
    PROVE  Served(s, t, d, n, C)
BY DEF Served, Off, On, Right, Shown, Down

\* A start ends with nothing up.
LEMMA ServedNoStart ==
    ASSUME NEW s, NEW r, NEW t, NEW d, NEW m, NEW n, NEW C,
           Served(s, r, d, m, C), m.pc = "start", n.pc = "idle", n.queue = m.queue,
           t.on <=> r.on, t.on => Down(s, t, n), n.runs = Absent, n.tracked = FALSE
    PROVE  Served(s, t, d, n, C)
BY DEF Served, Off, On, Right, Shown

\* A tracked process exits: nothing is up, or it is started again.
LEMMA ServedExit ==
    ASSUME NEW s, NEW r, NEW t, NEW d, NEW m, NEW n, NEW C,
           Served(s, r, d, m, C), m.pc = "idle", m.queue = <<>>, m.tracked, d # Absent,
           n.queue = m.queue, t.on <=> r.on, n.runs = Absent, n.tracked = FALSE,
           \/ n.pc = "idle" /\ Down(s, t, n)
           \/ n.pc = "start" /\ n.def = d /\ r.on
    PROVE  Served(s, t, d, n, C)
BY DEF Served, Off, On, Right, Shown

\* A waiting service tries again, or a probe has failed.
LEMMA ServedRetry ==
    ASSUME NEW s, NEW r, NEW t, NEW d, NEW m, NEW n, NEW C,
           Served(s, r, d, m, C), m.pc = "idle", r.on, t.on, d # Absent,
           n.queue = m.queue, n.def = d, n.runs = m.runs, n.tracked = m.tracked,
           \/ n.pc = "start" /\ t.state = r.state
           \/ n.pc = "probe"
    PROVE  Served(s, t, d, n, C)
BY DEF Served, Off, On, Right, Shown

\* The main thread stays with its service and its two configurations.
SamePlace == main'.at = main.at /\ main'.old = main.old /\ main'.new = main.new

\* The loop over the new services goes on from position i or ends.
Rounds(i) == RoundEnds(i) \/ RoundGoes(i)

\* Where each step of the main thread leads.
LEMMA LoadMoves ==
    ASSUME TypeOK, Where
    PROVE  /\ LoadFiles => main.pc = "idle" /\ main'.pc = "override"
           /\ LoadOverride =>
                 /\ main.pc = "override"
                 /\ \/ main'.pc = "idle"
                    \/ /\ main'.pc = "clone" /\ Valid(main.new) /\ file \in Maps
                       /\ main'.new = Overridden(main.new, file)
           /\ CloneOld => /\ main.pc = "clone" /\ main'.pc \in {"remove", "replace"}
                          /\ main'.old = config /\ main'.new = main.new
           /\ \A s \in Services : RemoveStop(s) =>
                 main.pc = "remove" /\ main'.pc = "quit" /\ s \in Removed(main.old) /\ SamePlace
           /\ RemoveQuit => /\ main.pc = "quit" /\ main'.pc = "drop" /\ SamePlace
                            /\ main.gone \in Services
           /\ RemoveDrop => /\ main.pc = "drop" /\ main'.pc \in {"remove", "replace"}
                            /\ main'.new = main.new /\ main.gone \in Services
                            /\ \A s \in Services :
                                  main'.old[s] = IF s = main.gone THEN Absent ELSE main.old[s]
<1>0. main \in MainThread /\ main.old \in Configs
  BY MainFields
<1>1. LoadFiles => main.pc = "idle" /\ main'.pc = "override"
  BY <1>0 DEF LoadFiles, MainThread
<1>2. ASSUME LoadOverride
      PROVE  /\ main.pc = "override"
             /\ \/ main'.pc = "idle"
                \/ /\ main'.pc = "clone" /\ Valid(main.new) /\ file \in Maps
                   /\ main'.new = Overridden(main.new, file)
  <2>1. CASE file # Torn /\ Valid(main.new)
    <3>1. main' = [main EXCEPT !.pc = "clone", !.new = Overridden(main.new, file)]
      BY <1>2, <2>1 DEF LoadOverride
    <3> QED BY <1>0, <1>2, <2>1, <3>1 DEF MainThread, TypeOK, LoadOverride
  <2>2. CASE ~(file # Torn /\ Valid(main.new))
    <3>1. main' = [main EXCEPT !.pc = "idle", !.new = NoConfig]
      BY <1>2, <2>2 DEF LoadOverride
    <3> QED BY <1>0, <1>2, <3>1 DEF MainThread, LoadOverride
  <2> QED BY <2>1, <2>2
<1>3. ASSUME CloneOld
      PROVE  /\ main.pc = "clone" /\ main'.pc \in {"remove", "replace"}
             /\ main'.old = config /\ main'.new = main.new
  <2>1. NextRemoval(config) \in {"remove", "replace"}
    BY DEF NextRemoval
  <2> QED BY <1>0, <1>3, <2>1 DEF CloneOld, MainThread
<1>4. ASSUME NEW s \in Services, RemoveStop(s)
      PROVE  main.pc = "remove" /\ main'.pc = "quit" /\ s \in Removed(main.old) /\ SamePlace
  BY <1>0, <1>4 DEF RemoveStop, MainThread, SamePlace
<1>5. RemoveQuit => main.pc = "quit" /\ main'.pc = "drop" /\ SamePlace /\ main.gone \in Services
  BY <1>0 DEF RemoveQuit, Main, MainThread, SamePlace, Where
<1>6. ASSUME RemoveDrop
      PROVE  /\ main.pc = "drop" /\ main'.pc \in {"remove", "replace"}
             /\ main'.new = main.new /\ main.gone \in Services
             /\ \A s \in Services : main'.old[s] = IF s = main.gone THEN Absent ELSE main.old[s]
  <2> DEFINE old == [main.old EXCEPT ![main.gone] = Absent]
  <2>1. NextRemoval(old) \in {"remove", "replace"}
    BY DEF NextRemoval
  <2>2. main.pc = "drop" /\ main.gone \in Services
    BY <1>6 DEF RemoveDrop, Where
  <2>3. \A s \in Services : old[s] = IF s = main.gone THEN Absent ELSE main.old[s]
    BY <1>0, <2>2 DEF Configs
  <2>4. main' = [main EXCEPT !.gone = Nobody, !.old = old, !.pc = NextRemoval(old)]
    BY <1>6 DEF RemoveDrop
  <2> HIDE DEF old
  <2> QED BY <1>0, <2>1, <2>2, <2>3, <2>4 DEF MainThread
<1> QED BY <1>1, <1>2, <1>3, <1>4, <1>5, <1>6

\* Each step of the loop over the new services.
LEMMA WalkMoves ==
    ASSUME TypeOK, Where
    PROVE  /\ Replace => main.pc = "replace" /\ Rounds(0)
           /\ AddRuntime => /\ main.pc = "apply" /\ main'.pc = "spawn" /\ SamePlace
                            /\ main.old[Svc] = Absent
           /\ ApplyEnabled => /\ main.pc = "apply" /\ main'.pc = "toggle" /\ SamePlace
                              /\ main.old[Svc] # Absent
           /\ SendToggle => main.pc = "toggle" /\ main'.pc = "definition" /\ SamePlace
           /\ StartAdded => main.pc = "start" /\ Rounds(main.at)
           /\ SendRestart => /\ \/ main.pc = "definition"
                                \/ /\ main.pc = "apply" /\ main.old[Svc] # Absent
                                   /\ main.old[Svc].on = main.new[Svc].on
                             /\ Rounds(main.at)
           /\ \A m \in Monitors : SpawnMonitor(m) =>
                 /\ main.pc = "spawn"
                 /\ \/ main.new[Svc].on /\ main'.pc = "start" /\ SamePlace
                    \/ ~main.new[Svc].on /\ Rounds(main.at)
<1>0. main \in MainThread /\ Len(Order) \in Nat
  BY MainFields, OrderAssumption
<1>1. main.pc \in Walk /\ main' = Round(main.at) => Rounds(main.at)
  <2>1. main.pc \in Walk => main.at \in 0..Len(Order)
    BY <1>0 DEF Where
  <2> QED BY <2>1, RoundFacts DEF Rounds
<1>2. Replace => main.pc = "replace" /\ Rounds(0)
  <2>1. 0 \in 0..Len(Order)
    BY <1>0
  <2> QED BY <2>1, RoundFacts DEF Rounds, Replace
<1>3. AddRuntime => main.pc = "apply" /\ main'.pc = "spawn" /\ SamePlace /\ main.old[Svc] = Absent
  BY <1>0 DEF AddRuntime, Main, MainThread, SamePlace
<1>4. ApplyEnabled => main.pc = "apply" /\ main'.pc = "toggle" /\ SamePlace /\ main.old[Svc] # Absent
  BY <1>0 DEF ApplyEnabled, Main, MainThread, SamePlace
<1>5. SendToggle => main.pc = "toggle" /\ main'.pc = "definition" /\ SamePlace
  BY <1>0 DEF SendToggle, Main, MainThread, SamePlace
<1>6. StartAdded => main.pc = "start" /\ Rounds(main.at)
  BY <1>1 DEF StartAdded, NextRound, Walk
<1>7. SendRestart => /\ \/ main.pc = "definition"
                        \/ /\ main.pc = "apply" /\ main.old[Svc] # Absent
                           /\ main.old[Svc].on = main.new[Svc].on
                     /\ Rounds(main.at)
  BY <1>1 DEF SendRestart, NextRound, Walk
<1>8. ASSUME NEW m \in Monitors, SpawnMonitor(m)
      PROVE  /\ main.pc = "spawn"
             /\ \/ main.new[Svc].on /\ main'.pc = "start" /\ SamePlace
                \/ ~main.new[Svc].on /\ Rounds(main.at)
  <2>1. main.pc = "spawn"
    BY <1>8 DEF SpawnMonitor
  <2>2. CASE main.new[Svc].on
    <3>1. main' = [main EXCEPT !.pc = "start"]
      BY <1>8, <2>2 DEF SpawnMonitor
    <3> QED BY <1>0, <2>1, <2>2, <3>1 DEF MainThread, SamePlace
  <2>3. CASE ~main.new[Svc].on
    BY <1>1, <1>8, <2>1, <2>3 DEF SpawnMonitor, NextRound, Walk
  <2> QED BY <2>1, <2>2, <2>3
<1> QED BY <1>2, <1>3, <1>4, <1>5, <1>6, <1>7, <1>8

\* No step makes a service calm again.
LEMMA CalmKept ==
    ASSUME TypeOK, Where, [Next]_vars, NEW s \in Services, Calm(s)'
    PROVE  Calm(s)
<1>1. CASE hist' = hist
  BY <1>1 DEF Calm
<1>2. CASE MainStep
  BY <1>2, MainHist DEF Calm
<1>3. ASSUME NEW c \in Clients, NEW t \in Services, NEW on \in BOOLEAN, SetConfig(c, t, on) PROVE Calm(s)
  <2>1. SetFacts(c, t, on)
    BY <1>3, SetConfigFacts
  <2> QED BY <2>1 DEF SetFacts, Calm
<1>4. ASSUME NEW c \in Clients, ClientStep(c) PROVE Calm(s)
  <2>1. CASE LoadMap(c)
    BY <2>1 DEF LoadMap, Calm, TypeOK, History
  <2>2. ASSUME NEW ok \in BOOLEAN, cl[c].pc # "idle", Answer(c, ok) PROVE Calm(s)
    BY <2>2, AnswerFacts DEF Calm
  <2>3. LoadMapFails(c) \/ WriteFails(c) \/ RenameFails(c) => cl[c].pc # "idle" /\ Answer(c, FALSE)
    BY DEF LoadMapFails, WriteFails, RenameFails
  <2>4. SendRequest(c) => cl[c].pc # "idle" /\ \E ok \in BOOLEAN : Answer(c, ok)
    BY DEF SendRequest, Receiver
  <2>5. OpenTmp(c) \/ WriteTmp(c) \/ Rename(c) \/ ApplyRequest(c) => hist' = hist
    BY DEF OpenTmp, WriteTmp, Rename, ApplyRequest
  <2> QED BY <1>1, <1>4, <2>1, <2>2, <2>3, <2>4, <2>5 DEF ClientStep
<1>5. ASSUME NEW m \in Monitors, MonitorStep(m) PROVE hist' = hist
  BY <1>5, MonitorFacts
<1>6. ASSUME Signal \/ \E t \in Services, e \in Entries \cup {Absent} : Edit(t, e) PROVE hist' = hist
  BY <1>6 DEF Edit, Signal
<1>7. UNCHANGED vars => hist' = hist
  BY DEF vars
<1> QED BY <1>1, <1>2, <1>3, <1>4, <1>5, <1>6, <1>7 DEF Next

\* Whether a configuration is valid depends on its names.
LEMMA ValidNames ==
    ASSUME NEW c, NEW d, SameNames(c, d), Valid(d)
    PROVE  Valid(c)
BY DepsAssumption DEF Valid, SameNames

\* A step of the main thread keeps what old and new configuration need.
LEMMA NeedsMain ==
    ASSUME TypeOK, Where, Together, NeedsInv, MainStep
    PROVE  NeedsInv'
<1>0. \A s \in Services : Deps[s] \subseteq Services
  BY DepsAssumption
<1>1. CASE LoadFiles
  <2>1. main'.pc = "override" /\ config' = config
    BY <1>1, LoadMoves DEF LoadFiles, shared
  <2> QED BY <2>1 DEF NeedsInv, Walk, Unplaced, Valid
<1>2. CASE LoadOverride
  <2>1. config' = config
    BY <1>2 DEF LoadOverride, shared
  <2>2. CASE main'.pc = "idle"
    BY <2>1, <2>2 DEF NeedsInv, Walk, Unplaced, Valid
  <2>3. CASE main'.pc = "clone" /\ Valid(main.new) /\ file \in Maps /\ main'.new = Overridden(main.new, file)
    <3>1. SameNames(Overridden(main.new, file), main.new)
      BY <2>3, MainFields, OverriddenFacts DEF SameNames
    <3>2. Valid(main'.new)
      BY <2>3, <3>1, ValidNames
    <3>3. Valid(config')
      BY <2>1 DEF NeedsInv
    <3>4. main'.pc \notin {"remove", "quit", "drop", "replace"} \cup Walk /\ main'.pc \notin {"start", "toggle", "definition"}
      BY <2>3 DEF Walk
    <3> QED BY <3>2, <3>3, <3>4 DEF NeedsInv, Valid
  <2> QED BY <1>2, <2>2, <2>3, LoadMoves
<1>3. CASE CloneOld
  <2>1. config' = config
    BY <1>3 DEF CloneOld, shared
  <2>2. /\ main.pc = "clone" /\ main'.pc \in {"remove", "replace"}
        /\ main'.old = config /\ main'.new = main.new
    BY <1>3, LoadMoves
  <2> QED BY <2>1, <2>2 DEF NeedsInv, Walk, Unplaced, Valid
<1>4. CASE (\E s \in Services : RemoveStop(s)) \/ RemoveQuit
  <2>1. config' = config
    BY <1>4 DEF RemoveStop, RemoveQuit, shared
  <2>2. main.pc \in {"remove", "quit"} /\ main'.pc \in {"quit", "drop"} /\ SamePlace
    BY <1>4, LoadMoves
  <2> QED BY <2>1, <2>2 DEF NeedsInv, Walk, Unplaced, Valid, SamePlace
<1>5. CASE RemoveDrop
  <2>1. config' = config
    BY <1>5 DEF RemoveDrop
  <2>2. /\ main.pc = "drop" /\ main'.pc \in {"remove", "replace"}
        /\ main'.new = main.new /\ main.gone \in Services
        /\ \A s \in Services : main'.old[s] = IF s = main.gone THEN Absent ELSE main.old[s]
    BY <1>5, LoadMoves
  <2>3. Valid(main.new) /\ main.new[main.gone] = Absent
    BY <2>2 DEF NeedsInv, Unplaced, Together, Removed
  <2>4. ASSUME NEW s \in Services, main'.old[s] # Absent, main'.new[s] # Absent, NEW d \in Deps[s]
        PROVE  main'.old[d] # Absent
    <3>1. d \in Services /\ d # main.gone
      BY <1>0, <2>2, <2>3, <2>4 DEF Valid
    <3>2. main.old[s] # Absent /\ main.new[s] # Absent
      BY <2>2, <2>4
    <3>3. main.old[d] # Absent
      BY <2>2, <3>2 DEF NeedsInv
    <3> QED BY <2>2, <3>1, <3>3
  <2>5. Valid(config') /\ Valid(main'.new)
    BY <2>1, <2>2, <2>3 DEF NeedsInv
  <2>6. main'.pc \notin {"start", "toggle", "definition"}
    BY <2>2
  <2> QED BY <2>4, <2>5, <2>6 DEF NeedsInv, Valid
<1>6. CASE Replace
  <2>1. config' = main.new /\ main.pc = "replace" /\ Rounds(0)
    BY <1>6, WalkMoves DEF Replace
  <2>2. Valid(config')
    BY <2>1 DEF NeedsInv, Unplaced
  <2>3. CASE main'.pc = "idle"
    BY <2>2, <2>3 DEF NeedsInv, Walk, Unplaced, Valid
  <2>4. CASE main'.pc = "apply" /\ main'.old = main.old /\ main'.new = main.new
    BY <2>1, <2>2, <2>4 DEF NeedsInv, Walk, Unplaced, Valid
  <2> QED BY <2>1, <2>3, <2>4 DEF Rounds, RoundEnds, RoundGoes
<1>7. CASE main.pc \in Walk /\ config' = config /\ Rounds(main.at)
  <2>1. CASE main'.pc = "idle"
    BY <1>7, <2>1 DEF NeedsInv, Walk, Unplaced, Valid
  <2>2. CASE main'.pc = "apply" /\ main'.old = main.old /\ main'.new = main.new
    BY <1>7, <2>2 DEF NeedsInv, Walk, Unplaced, Valid
  <2> QED BY <1>7, <2>1, <2>2 DEF Rounds, RoundEnds, RoundGoes
<1>8. CASE /\ main.pc \in Walk /\ main'.pc \in Walk /\ config' = config /\ SamePlace
           /\ main'.pc = "start" => main.new[Svc].on /\ main.old[Svc] = Absent
           /\ main'.pc \in {"toggle", "definition"} => main.old[Svc] # Absent
  <2>1. main'.old = main.old /\ main'.new = main.new /\ Svc' = Svc
    BY <1>8 DEF SamePlace, Svc
  <2> QED BY <1>8, <2>1 DEF NeedsInv, Walk, Unplaced, Valid
<1>9. CASE AddRuntime \/ ApplyEnabled \/ SendToggle
  <2>1. config' = config
    BY <1>9 DEF AddRuntime, ApplyEnabled, SendToggle, shared
  <2> QED BY <1>8, <1>9, <2>1, WalkMoves DEF Walk, NeedsInv
<1>10. CASE StartAdded \/ SendRestart
  <2>1. config' = config
    BY <1>10 DEF StartAdded, SendRestart, shared
  <2> QED BY <1>7, <1>10, <2>1, WalkMoves DEF Walk
<1>11. ASSUME NEW m \in Monitors, SpawnMonitor(m) PROVE NeedsInv'
  <2>1. config' = config /\ main.old[Svc] = Absent
    BY <1>11 DEF SpawnMonitor, Together
  <2> QED BY <1>7, <1>8, <1>11, <2>1, WalkMoves DEF Walk
<1> QED BY <1>1, <1>2, <1>3, <1>4, <1>5, <1>6, <1>9, <1>10, <1>11 DEF MainStep

\* Every step does.
LEMMA NeedsStep ==
    ASSUME TypeOK, Where, TableBorn, TableInv, Together, NeedsInv, [Next]_vars
    PROVE  NeedsInv'
<1>1. CASE main' = main /\ SameNames(config', config)
  <2>1. Valid(config')
    BY <1>1, ValidNames DEF NeedsInv
  <2> QED BY <1>1, <2>1 DEF NeedsInv, Svc, Valid
<1>2. UNCHANGED vars \/ Signal \/ (\E s \in Services, e \in Entries \cup {Absent} : Edit(s, e))
         => main' = main /\ SameNames(config', config)
  BY DEF vars, Signal, Edit, shared, SameNames
<1>3. ASSUME NEW m \in Monitors, MonitorStep(m) PROVE main' = main /\ SameNames(config', config)
  BY <1>3, MonitorFacts DEF SameNames
<1>4. ASSUME NEW c \in Clients, ClientStep(c) \/ \E s \in Services, on \in BOOLEAN : SetConfig(c, s, on)
      PROVE  main' = main /\ SameNames(config', config)
  <2>1. main' = main
    BY <1>4 DEF ClientStep, SetConfig, LoadMap, LoadMapFails, OpenTmp, WriteTmp, WriteFails, Rename,
       RenameFails, ApplyRequest, SendRequest
  <2> QED BY <1>4, <2>1, ClientNames
<1> QED BY <1>1, <1>2, <1>3, <1>4, NeedsMain DEF Next

\* What set_enabled leaves in a runtime.
LEMMA EnabledFields ==
    ASSUME TypeOK, NEW s \in Services, NEW on \in BOOLEAN
    PROVE  /\ \A t \in Services : t # s => Enabled(s, on)[t] = rt[t]
           /\ rt[s] # Absent =>
                 /\ Enabled(s, on)[s].on = on
                 /\ Enabled(s, on)[s].state = IF ~on THEN "Disabled"
                                              ELSE IF rt[s].state = "Disabled" THEN "Pending"
                                              ELSE rt[s].state
           /\ rt[s] = Absent => Enabled(s, on)[s] = Absent
<1>1. rt[s] # Absent => rt[s] \in Runtimes
  BY DEF TypeOK
<1> QED BY <1>1 DEF Enabled, TypeOK, Runtimes

\* set_state changes the state and nothing else.
LEMMA StateFields ==
    ASSUME TypeOK, NEW s \in Services, NEW q \in States
    PROVE  /\ \A t \in Services : t # s => InState(s, q)[t] = rt[t]
           /\ rt[s] # Absent => InState(s, q)[s].on = rt[s].on /\ InState(s, q)[s].state = q
           /\ InState(s, q)[s] # Absent <=> rt[s] # Absent
<1>1. rt[s] # Absent => rt[s] \in Runtimes
  BY DEF TypeOK
<1>2. rt[s] # Absent => [rt[s] EXCEPT !.state = q] \in Runtimes
  BY <1>1 DEF Runtimes
<1> QED BY <1>1, <1>2, MarkAssumption DEF InState, TypeOK, Runtimes

\* How each step of a monitor changes the runtimes.
LEMMA MonitorRuntimes ==
    ASSUME TypeOK, Where, NEW m \in Monitors, MonitorStep(m)
    PROVE  /\ mon[m].svc \in Services
           /\ \A t \in Services : t # mon[m].svc => rt'[t] = rt[t]
           /\ rt[mon[m].svc] = Absent => rt'[mon[m].svc] = Absent
           /\ rt[mon[m].svc] # Absent =>
                 /\ rt'[mon[m].svc] # Absent /\ rt'[mon[m].svc].on = rt[mon[m].svc].on
                 /\ \/ rt'[mon[m].svc].state = rt[mon[m].svc].state
                    \/ rt'[mon[m].svc].state # "WaitingForDependency"
                    \/ rt'[mon[m].svc].state = StartState(mon[m].svc)
<1>1. mon[m].svc \in Services
  BY MonitorFacts
<1>2. \/ rt' = rt
      \/ \E q \in States : /\ rt' = InState(mon[m].svc, q)
                           /\ q # "WaitingForDependency" \/ q = StartState(mon[m].svc)
  <2> USE DEF States
  <2>1. CASE RecvGone(m) \/ Recv(m)
    BY <2>1, RecvFacts
  <2>2. CASE Stopped(m)
    BY <2>2, StoppedFacts
  <2>3. CASE NoStart(m) \/ StartFails(m) \/ RestartScript(m)
    BY <2>3, StartFacts
  <2>4. ASSUME NEW tracked \in BOOLEAN, Start(m, tracked)
        PROVE  \E q \in {"Running", "Succeeded"} : rt' = InState(mon[m].svc, q)
    BY <2>4, StartFacts
  <2>5. CASE Retry(m) \/ ExitRestart(m) \/ ProbeFails(m)
    BY <2>5, PollFacts
  <2>6. ASSUME NEW q \in {"Succeeded", "Failed"}, ExitEnds(m, q)
        PROVE  rt' = rt \/ rt' = InState(mon[m].svc, q)
    BY <2>6, PollFacts
  <2> QED BY <2>1, <2>2, <2>3, <2>4, <2>5, <2>6 DEF MonitorStep
<1>3. CASE rt' = rt
  BY <1>1, <1>3
<1>4. ASSUME NEW q \in States, rt' = InState(mon[m].svc, q)
      PROVE  /\ \A t \in Services : t # mon[m].svc => rt'[t] = rt[t]
             /\ rt[mon[m].svc] = Absent => rt'[mon[m].svc] = Absent
             /\ rt[mon[m].svc] # Absent =>
                   /\ rt'[mon[m].svc] # Absent /\ rt'[mon[m].svc].on = rt[mon[m].svc].on
                   /\ rt'[mon[m].svc].state = q
  BY <1>1, <1>4, StateFields
<1> QED BY <1>1, <1>2, <1>3, <1>4

\* How every other step does.
LEMMA OtherRuntimes ==
    ASSUME TypeOK, Where, [Next]_vars
    PROVE  \/ rt' = rt
           \/ \E m \in Monitors : MonitorStep(m)
           \/ RemoveDrop /\ \A s \in Services : rt'[s] = IF s = main.gone THEN Absent ELSE rt[s]
           \/ /\ AddRuntime
              /\ \A s \in Services : rt'[s] = IF s = Svc THEN NewRuntime(main.new[Svc].on) ELSE rt[s]
           \/ ApplyEnabled /\ rt' = Enabled(Svc, main.new[Svc].on) /\ main.new[Svc].on \in BOOLEAN /\ Svc \in Services
           \/ \E c \in Clients : /\ ApplyRequest(c) /\ rt' = Enabled(cl[c].svc, cl[c].on)
                                 /\ cl[c].on \in BOOLEAN /\ cl[c].svc \in Services
<1>1. RemoveDrop => \A s \in Services : rt'[s] = IF s = main.gone THEN Absent ELSE rt[s]
  BY DEF RemoveDrop, TypeOK
<1>2. AddRuntime => \A s \in Services : rt'[s] = IF s = Svc THEN NewRuntime(main.new[Svc].on) ELSE rt[s]
  BY DEF AddRuntime, TypeOK
<1>3. ApplyEnabled => rt' = Enabled(Svc, main.new[Svc].on) /\ main.new[Svc].on \in BOOLEAN /\ Svc \in Services
  <2>1. \A i \in 1..Len(Order) : Order[i] \in Services
    BY OrderAssumption
  <2>2. ApplyEnabled => main.pc \in Walk /\ rt' = Enabled(Svc, main.new[Svc].on)
    BY DEF ApplyEnabled, Main, Walk
  <2>3. ApplyEnabled => Svc \in Services /\ main.new[Svc] # Absent
    BY <2>1, <2>2 DEF Where, Svc
  <2>4. ApplyEnabled => main.new[Svc] \in Entries
    BY <2>3, MainFields DEF Configs
  <2> QED BY <2>2, <2>3, <2>4 DEF Entries
<1>4. ASSUME NEW c \in Clients, ApplyRequest(c)
      PROVE  rt' = Enabled(cl[c].svc, cl[c].on) /\ cl[c].on \in BOOLEAN /\ cl[c].svc \in Services
  BY <1>4 DEF ApplyRequest, Where, TypeOK, Request
<1>5. MainStep => rt' = rt \/ RemoveDrop \/ AddRuntime \/ ApplyEnabled
  BY DEF MainStep, LoadFiles, LoadOverride, CloneOld, RemoveStop, RemoveQuit, Replace, StartAdded,
     SendToggle, SendRestart, SpawnMonitor, shared
<1>6. ASSUME NEW c \in Clients, ClientStep(c) PROVE rt' = rt \/ ApplyRequest(c)
  BY <1>6 DEF ClientStep, LoadMap, LoadMapFails, OpenTmp, WriteTmp, WriteFails, Rename, RenameFails,
     SendRequest, shared
<1>7. ASSUME NEW c \in Clients, NEW s \in Services, NEW on \in BOOLEAN, SetConfig(c, s, on) PROVE rt' = rt
  BY <1>7 DEF SetConfig
<1>8. UNCHANGED vars \/ Signal \/ (\E s \in Services, e \in Entries \cup {Absent} : Edit(s, e)) => rt' = rt
  BY DEF vars, Signal, Edit, shared
<1> QED BY <1>1, <1>2, <1>3, <1>4, <1>5, <1>6, <1>7, <1>8 DEF Next

\* Only do_start makes a service wait, and only an enabled one.
LEMMA WaitStep ==
    ASSUME TypeOK, Where, WaitInv, [Next]_vars
    PROVE  WaitInv'
<1> SUFFICES ASSUME NEW s \in Services, rt'[s] # Absent, ~rt'[s].on
             PROVE  rt'[s].state # "WaitingForDependency"
  BY DEF WaitInv
<1>0. rt[s] # Absent /\ ~rt[s].on => rt[s].state # "WaitingForDependency"
  BY DEF WaitInv
<1>1. CASE rt'[s] = rt[s]
  BY <1>0, <1>1
<1>2. ASSUME NEW m \in Monitors, MonitorStep(m) PROVE rt'[s].state # "WaitingForDependency"
  <2>1. CASE s = mon[m].svc
    <3>1. rt[s] # Absent /\ ~rt[s].on
      BY <1>2, <2>1, MonitorRuntimes
    <3>2. StartState(s) = "Failed"
      BY <3>1 DEF StartState
    <3> QED BY <1>0, <1>2, <2>1, <3>1, <3>2, MonitorRuntimes
  <2>2. CASE s # mon[m].svc
    BY <1>1, <1>2, <2>2, MonitorRuntimes
  <2> QED BY <2>1, <2>2
<1>3. ASSUME NEW t \in Services, NEW on \in BOOLEAN, rt' = Enabled(t, on)
      PROVE  rt'[s].state # "WaitingForDependency"
  <2>1. CASE t = s
    <3>1. rt[s] # Absent
      BY <1>3, <2>1, EnabledFields
    <3>2. rt'[s].on = on /\ rt'[s].state = IF ~on THEN "Disabled"
                                          ELSE IF rt[s].state = "Disabled" THEN "Pending"
                                          ELSE rt[s].state
      BY <1>3, <2>1, <3>1, EnabledFields
    <3> QED BY <3>2
  <2>2. CASE t # s
    BY <1>1, <1>3, <2>2, EnabledFields
  <2> QED BY <2>1, <2>2
<1>4. CASE AddRuntime /\ \A t \in Services : rt'[t] = IF t = Svc THEN NewRuntime(main.new[Svc].on) ELSE rt[t]
  <2>1. CASE s = Svc
    BY <1>4, <2>1 DEF NewRuntime
  <2> QED BY <1>1, <1>4, <2>1
<1> QED BY <1>1, <1>2, <1>3, <1>4, OtherRuntimes

\* The services that are ahead are still to come when the loop goes on.
LEMMA RoundPlaces ==
    ASSUME TypeOK, Where, main.pc \in Walk, Rounds(main.at), NEW s \in Services, main.new[s] # Absent
    PROVE  /\ s = Svc => ~AtWork(s)' /\ ~Ahead(s)'
           /\ s # Svc => (AtWork(s)' \/ Ahead(s)' <=> Ahead(s)) /\ ~AtWork(s)
           /\ main'.pc \in {"idle", "apply"}
           /\ main'.pc = "apply" => main'.old = main.old /\ main'.new = main.new
<1>0. main.at \in 1..Len(Order) /\ Svc = Order[main.at]
  BY DEF Where, Svc
<1>1. PICK i \in 1..Len(Order) : Order[i] = s
  BY OrderFacts
<1>2. Ahead(s) <=> i > main.at
  BY <1>1, OrderFacts DEF Ahead
<1>3. s = Svc <=> i = main.at
  BY <1>0, <1>1, OrderFacts
<1>4. ~AtWork(s) \/ s = Svc
  BY DEF AtWork
<1>5. CASE RoundEnds(main.at)
  <2>1. main'.pc = "idle" /\ ~AtWork(s)' /\ ~Ahead(s)'
    BY <1>5 DEF RoundEnds, AtWork, Ahead, Walk
  <2>2. ~(i > main.at)
    <3>1. i > main.at => i \in (main.at + 1)..Len(Order)
      BY <1>0, OrderFacts
    <3> QED BY <1>1, <1>5, <3>1 DEF RoundEnds
  <2> QED BY <1>2, <1>4, <2>1, <2>2
<1>6. CASE RoundGoes(main.at)
  <2>1. /\ main'.pc = "apply" /\ main'.at \in 1..Len(Order) /\ main'.at > main.at
        /\ main'.old = main.old /\ main'.new = main.new
    BY <1>0, <1>6, OrderFacts DEF RoundGoes
  <2>2. AtWork(s)' <=> i = main'.at
    <3>1. AtWork(s)' <=> Order[main'.at] = s
      BY <2>1 DEF AtWork, Svc, Walk
    <3> QED BY <1>1, <2>1, <3>1, OrderFacts
  <2>3. Ahead(s)' <=> i > main'.at
    BY <1>1, <2>1, OrderFacts DEF Ahead, Walk
  <2>4. i > main.at => i >= main'.at
    <3>1. i > main.at => i \in (main.at + 1)..Len(Order)
      BY <1>0, OrderFacts
    <3>2. i \in (main.at + 1)..Len(Order) => ~(i < main'.at)
      BY <1>1, <1>6 DEF RoundGoes
    <3> QED BY <2>1, <3>1, <3>2
  <2>5. (i = main'.at \/ i > main'.at) <=> i > main.at
    BY <1>0, <2>1, <2>4
  <2>6. i = main.at => ~(i = main'.at \/ i > main'.at)
    BY <1>0, <2>1
  <2> QED BY <1>2, <1>3, <1>4, <2>1, <2>2, <2>3, <2>5, <2>6
<1> QED BY <1>5, <1>6 DEF Rounds

\* When the new configuration goes in, every service of it is still to come.
LEMMA ReplacePlaces ==
    ASSUME TypeOK, Rounds(0), NEW s \in Services, main.new[s] # Absent
    PROVE  /\ AtWork(s)' \/ Ahead(s)'
           /\ main'.pc = "apply" /\ main'.old = main.old /\ main'.new = main.new
<1>1. PICK i \in 1..Len(Order) : Order[i] = s
  BY OrderFacts
<1>2. i \in (0 + 1)..Len(Order)
  OBVIOUS
<1>3. RoundGoes(0)
  BY <1>1, <1>2 DEF Rounds, RoundEnds
<1>4. /\ main'.pc = "apply" /\ main'.at \in 1..Len(Order) /\ ~(i < main'.at)
      /\ main'.old = main.old /\ main'.new = main.new
  BY <1>1, <1>3, OrderFacts DEF RoundGoes
<1>5. i = main'.at \/ i > main'.at
  BY <1>4, OrderFacts
<1> QED BY <1>1, <1>4, <1>5 DEF AtWork, Ahead, Svc, Walk

\* Within the loop.
LEMMA SamePlaces ==
    ASSUME main.pc \in Walk, main'.pc \in Walk, SamePlace, NEW s
    PROVE  (AtWork(s)' <=> AtWork(s)) /\ (Ahead(s)' <=> Ahead(s))
BY DEF AtWork, Ahead, SamePlace, Svc

\* The one at work is not ahead.
LEMMA WorkPlace ==
    ASSUME Where, main.pc \in Walk
    PROVE  /\ Svc \in Services /\ main.new[Svc] # Absent
           /\ AtWork(Svc) /\ ~Ahead(Svc)
BY OrderFacts DEF Where, AtWork, Ahead, Svc

\* A step that leaves a service and its requests where they are.
LEMMA FlagFrame ==
    ASSUME NEW s \in Services, FlagFor(s), Calm(s), main' = main, config'[s] = config[s],
           rt'[s] # Absent => rt[s] # Absent /\ rt'[s].on = rt[s].on,
           Active(s)' = Active(s),
           \A c \in Active(s) : cl'[c].on = cl[c].on /\ (cl'[c].pc = "send" <=> cl[c].pc = "send")
    PROVE  FlagFor(s)'
<1>1. Asked(s)' <=> Asked(s)
  BY DEF Asked
<1>2. Before(s)' <=> Before(s)
  BY DEF Before, Ahead, AtWork, Svc
<1> HIDE DEF Active
<1> QED BY <1>1, <1>2 DEF FlagFor

\* During a reload a calm service has no request.
LEMMA CalmMain ==
    ASSUME TypeOK, Where, FlagInv, MainStep, NEW s \in Services, Calm(s)'
    PROVE  Calm(s) /\ Active(s) = {} /\ Active(s)' = {} /\ ~Asked(s) /\ ~Asked(s)'
<1>1. Calm(s)
  BY CalmKept DEF Next
<1>2. cl' = cl
  BY DEF MainStep, LoadFiles, LoadOverride, CloneOld, RemoveStop, RemoveQuit, RemoveDrop, Replace,
     AddRuntime, StartAdded, ApplyEnabled, SendToggle, SendRestart, SpawnMonitor
<1>3. Active(s) = {}
  <2>1. CASE LoadFiles
    <3>1. hist'.raced = hist.raced \cup {t \in Services : Active(t) # {}}
      BY <2>1 DEF LoadFiles, TypeOK, History
    <3> QED BY <3>1 DEF Calm
  <2>2. CASE main.pc # "idle"
    BY <1>1, <2>2 DEF FlagInv, FlagFor
  <2>3. LoadFiles \/ main.pc # "idle"
    BY DEF MainStep, LoadOverride, CloneOld, RemoveStop, RemoveQuit, RemoveDrop, Replace,
       AddRuntime, StartAdded, ApplyEnabled, SendToggle, SendRestart, SpawnMonitor, Main
  <2> QED BY <2>1, <2>2, <2>3
<1>4. Active(s)' = {}
  BY <1>2, <1>3 DEF Active
<1> QED BY <1>1, <1>3, <1>4 DEF Asked

\* What is left to show of such a service.
FlagWalk(s) ==
    /\ main.pc \in {"remove", "quit", "drop", "replace"} /\ main.new[s] # Absent /\ main.old[s] # Absent =>
          main.old[s] = config[s]
    /\ main.pc \in Walk => config[s] = main.new[s]
    /\ config[s] # Absent /\ rt[s] # Absent =>
          rt[s].on = IF Before(s) THEN main.old[s].on ELSE config[s].on

\* The main thread keeps the flags of calm services.
LEMMA FlagMain ==
    ASSUME TypeOK, Where, Together, NeedsInv, FlagInv, MainStep
    PROVE  FlagInv'
<1> SUFFICES ASSUME NEW s \in Services, Calm(s)' PROVE FlagWalk(s)'
  <2>1. ASSUME NEW s \in Services, Calm(s)', FlagWalk(s)' PROVE FlagFor(s)'
    <3>1. Active(s)' = {}
      BY <2>1, CalmMain
    <3> HIDE DEF Active
    <3> QED BY <2>1, <3>1 DEF FlagFor, FlagWalk
  <2>2. \A s \in Services : ~Calm(s)' => FlagFor(s)'
    BY DEF FlagFor
  <2> QED BY <2>1, <2>2 DEF FlagInv
<1>1. FlagWalk(s)
  <2>1. Calm(s) /\ Active(s) = {} /\ ~Asked(s)
    BY CalmMain
  <2> HIDE DEF Active, Asked
  <2> QED BY <2>1 DEF FlagInv, FlagFor, FlagWalk
<1>2. CASE LoadFiles \/ LoadOverride
  <2>1. main.pc \notin Walk /\ main'.pc \in {"idle", "override", "clone"} /\ config' = config /\ rt' = rt
    BY <1>2, LoadMoves DEF LoadFiles, LoadOverride, shared, Walk
  <2>2. ~Before(s) /\ ~Before(s)' /\ main'.pc \notin Walk
    BY <2>1 DEF Before, AtWork, Ahead, Walk
  <2> QED BY <1>1, <2>1, <2>2 DEF FlagWalk
<1>3. CASE CloneOld
  <2>1. /\ main.pc = "clone" /\ main'.pc \in {"remove", "replace"}
        /\ main'.old = config /\ main'.new = main.new /\ config' = config /\ rt' = rt
    BY <1>3, LoadMoves DEF CloneOld, shared
  <2>2. ~Before(s) /\ ~Before(s)' /\ main'.pc \notin Walk
    BY <2>1 DEF Before, AtWork, Ahead, Walk
  <2> QED BY <1>1, <2>1, <2>2 DEF FlagWalk
<1>4. CASE (\E t \in Services : RemoveStop(t)) \/ RemoveQuit
  <2>1. /\ main.pc \in {"remove", "quit"} /\ main'.pc \in {"quit", "drop"}
        /\ SamePlace /\ config' = config /\ rt' = rt
    BY <1>4, LoadMoves DEF RemoveStop, RemoveQuit, shared
  <2>2. ~Before(s) /\ ~Before(s)' /\ main'.pc \notin Walk
    BY <2>1 DEF Before, AtWork, Ahead, Walk
  <2> QED BY <1>1, <2>1, <2>2 DEF FlagWalk, SamePlace
<1>5. CASE RemoveDrop
  <2>1. /\ main.pc = "drop" /\ main'.pc \in {"remove", "replace"}
        /\ main'.new = main.new /\ main.gone \in Services
        /\ \A t \in Services : main'.old[t] = IF t = main.gone THEN Absent ELSE main.old[t]
    BY <1>5, LoadMoves
  <2>2. config' = config /\ rt'[s] = IF s = main.gone THEN Absent ELSE rt[s]
    BY <1>5 DEF RemoveDrop, TypeOK
  <2>3. ~Before(s) /\ ~Before(s)' /\ main'.pc \notin Walk
    BY <2>1 DEF Before, AtWork, Ahead, Walk
  <2> QED BY <1>1, <2>1, <2>2, <2>3 DEF FlagWalk
<1>6. CASE Replace
  <2>1. config' = main.new /\ rt' = rt /\ main.pc = "replace" /\ Rounds(0)
    BY <1>6, WalkMoves DEF Replace
  <2>2. CASE main.new[s] = Absent
    <3>1. main'.pc \in {"idle", "apply"} /\ (main'.pc = "apply" => main'.new = main.new)
      BY <2>1 DEF Rounds, RoundEnds, RoundGoes
    <3> QED BY <2>1, <2>2, <3>1 DEF FlagWalk, Walk
  <2>3. CASE main.new[s] # Absent
    <3>1. /\ AtWork(s)' \/ Ahead(s)'
          /\ main'.pc = "apply" /\ main'.old = main.old /\ main'.new = main.new
      BY <2>1, <2>3, ReplacePlaces
    <3>2. ~Before(s) /\ (Before(s)' <=> main.old[s] # Absent)
      BY <2>1, <3>1 DEF Before, AtWork, Ahead, Walk
    <3>3. rt[s] # Absent => main.old[s] # Absent /\ main.old[s] = config[s]
      BY <1>1, <2>1, <2>3 DEF Together, FlagWalk
    <3> QED BY <1>1, <2>1, <3>1, <3>2, <3>3 DEF FlagWalk, Walk
  <2> QED BY <2>2, <2>3
<1>7. CASE main.pc \in Walk
  <2>1. config[s] = main.new[s]
    BY <1>1, <1>7 DEF FlagWalk
  <2>2. Svc \in Services /\ main.new[Svc] # Absent /\ AtWork(Svc) /\ ~Ahead(Svc)
    BY <1>7, WorkPlace
  <2>3. CASE AddRuntime
    <3>1. /\ main.pc = "apply" /\ main'.pc = "spawn" /\ SamePlace /\ main.old[Svc] = Absent /\ config' = config
          /\ rt'[s] = IF s = Svc THEN NewRuntime(main.new[Svc].on) ELSE rt[s]
      BY <2>3, WalkMoves DEF AddRuntime, TypeOK
    <3>2. (AtWork(s)' <=> AtWork(s)) /\ (Ahead(s)' <=> Ahead(s)) /\ (AtWork(s) => s = Svc)
      BY <1>7, <3>1, SamePlaces DEF Walk, AtWork
    <3>3. Before(s)' <=> Before(s)
      BY <3>1, <3>2 DEF Before, SamePlace
    <3>4. s = Svc => ~Before(s)
      BY <3>1 DEF Before
    <3>5. NewRuntime(main.new[Svc].on).on = main.new[Svc].on
      BY DEF NewRuntime
    <3> QED BY <1>1, <2>1, <3>1, <3>3, <3>4, <3>5 DEF FlagWalk, SamePlace, Walk
  <2>4. CASE ApplyEnabled
    <3>1. /\ main.pc = "apply" /\ main'.pc = "toggle" /\ SamePlace /\ main.old[Svc] # Absent
          /\ config' = config
      BY <2>4, WalkMoves DEF ApplyEnabled
    <3>2. rt' = Enabled(Svc, main.new[Svc].on) /\ main.new[Svc].on \in BOOLEAN
      <4>1. main.new[Svc] \in Entries
        BY <2>2, MainFields DEF Configs
      <4> QED BY <2>4, <4>1 DEF ApplyEnabled, Entries
    <3>3. (AtWork(s)' <=> AtWork(s)) /\ (Ahead(s)' <=> Ahead(s)) /\ (AtWork(s) => s = Svc)
      BY <1>7, <3>1, SamePlaces DEF Walk, AtWork
    <3>4. CASE s = Svc
      <4>1. ~Before(s)'
        BY <2>2, <3>1, <3>3, <3>4 DEF Before
      <4>2. rt'[s] # Absent => rt'[s].on = main.new[Svc].on
        BY <2>2, <3>2, <3>4, EnabledFields
      <4> QED BY <2>1, <3>1, <3>4, <4>1, <4>2 DEF FlagWalk, SamePlace, Walk
    <3>5. CASE s # Svc
      <4>1. Before(s)' <=> Before(s)
        BY <3>1, <3>3, <3>5 DEF Before, SamePlace
      <4>2. rt'[s] = rt[s]
        BY <2>2, <3>2, <3>5, EnabledFields
      <4> QED BY <1>1, <2>1, <3>1, <4>1, <4>2 DEF FlagWalk, SamePlace, Walk
    <3> QED BY <3>4, <3>5
  <2>5. CASE main'.pc \in {"start", "definition"} /\ main.pc # "apply" /\ SamePlace /\ config' = config /\ rt' = rt
    <3>1. (AtWork(s)' <=> AtWork(s)) /\ (Ahead(s)' <=> Ahead(s))
      BY <1>7, <2>5, SamePlaces DEF Walk
    <3>2. Before(s)' <=> Before(s)
      BY <2>5, <3>1 DEF Before, SamePlace
    <3> QED BY <1>1, <2>1, <2>5, <3>2 DEF FlagWalk, SamePlace, Walk
  <2>6. CASE /\ Rounds(main.at) /\ config' = config /\ rt' = rt
             /\ main.pc = "apply" /\ main.old[Svc] # Absent => main.old[Svc].on = main.new[Svc].on
    <3>1. CASE main.new[s] = Absent
      <4>1. main'.pc \in {"idle", "apply"} /\ (main'.pc = "apply" => main'.new = main.new)
        BY <2>6 DEF Rounds, RoundEnds, RoundGoes
      <4> QED BY <2>1, <2>6, <3>1, <4>1 DEF FlagWalk, Walk
    <3>2. CASE main.new[s] # Absent
      <4>1. /\ s = Svc => ~AtWork(s)' /\ ~Ahead(s)'
            /\ s # Svc => (AtWork(s)' \/ Ahead(s)' <=> Ahead(s)) /\ ~AtWork(s)
            /\ main'.pc \in {"idle", "apply"}
            /\ main'.pc = "apply" => main'.old = main.old /\ main'.new = main.new
        BY <1>7, <2>6, <3>2, RoundPlaces
      <4>2. CASE s = Svc
        <5>1. ~Before(s)'
          BY <4>1, <4>2 DEF Before
        <5>2. Before(s) => main.old[s].on = config[s].on
          BY <2>1, <2>2, <2>6, <4>2 DEF Before
        <5> QED BY <1>1, <2>1, <2>6, <4>1, <5>1, <5>2 DEF FlagWalk, Walk
      <4>3. CASE s # Svc
        <5>1. main'.pc = "idle" => ~AtWork(s)' /\ ~Ahead(s)'
          BY DEF AtWork, Ahead, Walk
        <5>2. Before(s)' <=> Before(s)
          BY <4>1, <4>3, <5>1 DEF Before
        <5>3. Before(s)' => main'.pc = "apply"
          BY <4>1, <5>1 DEF Before
        <5> QED BY <1>1, <2>1, <2>6, <4>1, <5>2, <5>3 DEF FlagWalk, Walk
      <4> QED BY <4>2, <4>3
    <3> QED BY <3>1, <3>2
  <2>7. CASE SendToggle
    BY <2>5, <2>7, WalkMoves DEF SendToggle, shared
  <2>8. CASE StartAdded \/ SendRestart
    BY <2>6, <2>8, WalkMoves DEF StartAdded, SendRestart, shared
  <2>9. ASSUME NEW m \in Monitors, SpawnMonitor(m) PROVE FlagWalk(s)'
    <3>1. config' = config /\ rt' = rt
      BY <2>9 DEF SpawnMonitor
    <3> QED BY <2>5, <2>6, <2>9, <3>1, WalkMoves
  <2>10. AddRuntime \/ ApplyEnabled \/ SendToggle \/ StartAdded \/ SendRestart \/ \E m \in Monitors : SpawnMonitor(m)
    BY <1>7 DEF MainStep, LoadFiles, LoadOverride, CloneOld, RemoveStop, RemoveQuit, RemoveDrop, Replace, Main, Walk
  <2> QED BY <2>3, <2>4, <2>7, <2>8, <2>9, <2>10
<1>8. main.pc \in Walk \/ Replace \/ RemoveDrop \/ RemoveQuit \/ (\E t \in Services : RemoveStop(t))
      \/ CloneOld \/ LoadFiles \/ LoadOverride
  BY WalkMoves DEF MainStep, Walk
<1> QED BY <1>2, <1>3, <1>4, <1>5, <1>6, <1>7, <1>8

\* A step of a request that neither ends it nor brings it to its last step.
GoesOn(c) ==
    /\ \A b \in Clients : /\ cl'[b].svc = cl[b].svc /\ cl'[b].on = cl[b].on
                          /\ b # c => cl'[b].pc = cl[b].pc
    /\ cl[c].pc \notin {"idle", "send"} /\ cl'[c].pc \notin {"idle", "send"}

\* What each step of a request does to the requests and what it shares.
LEMMA RequestMoves ==
    ASSUME TypeOK, Where, NEW c \in Clients, ClientStep(c)
    PROVE  /\ main' = main /\ config' = config /\ ctl' = ctl
           /\ cl[c].svc \in Services /\ cl[c].on \in BOOLEAN /\ cl[c].pc # "idle"
           /\ \/ GoesOn(c) /\ rt' = rt /\ mon' = mon
              \/ /\ cl[c].pc = "apply" /\ cl'[c].pc = "send"
                 /\ cl'[c].svc = cl[c].svc /\ cl'[c].on = cl[c].on
                 /\ \A b \in Clients : b # c => cl'[b] = cl[b]
                 /\ rt' = Enabled(cl[c].svc, cl[c].on) /\ mon' = mon
              \/ /\ cl[c].pc = "send" /\ cl'[c].pc = "idle"
                 /\ \A b \in Clients : b # c => cl'[b] = cl[b]
                 /\ rt' = rt /\ mon' = Posted(cl[c].svc, IF cl[c].on THEN "Start" ELSE "Stop")
                 /\ ~Receiver(cl[c].svc) => cl[c].svc \in hist'.broken
              \/ /\ cl'[c].pc = "idle" /\ \A b \in Clients : b # c => cl'[b] = cl[b]
                 /\ rt' = rt /\ mon' = mon /\ cl[c].svc \in hist'.broken
<1>1. main' = main /\ config' = config /\ ctl' = ctl /\ cl[c].pc # "idle"
  BY DEF ClientStep, LoadMap, LoadMapFails, OpenTmp, WriteTmp, WriteFails, Rename, RenameFails,
     ApplyRequest, SendRequest, shared
<1>2. cl[c].svc \in Services /\ cl[c].on \in BOOLEAN
  BY <1>1 DEF Where, TypeOK, Request
<1>3. CASE LoadMap(c) \/ OpenTmp(c) \/ WriteTmp(c)
  <2>1. cl[c].pc \in {"load", "open", "write"} /\ rt' = rt /\ mon' = mon
    BY <1>3 DEF LoadMap, OpenTmp, WriteTmp, shared
  <2>2. \E p \in {"open", "write", "rename"} : \E map, fd : Becomes(c, p, map, fd)
    BY <1>3, LoadMapFacts, OtherStepFacts
  <2>3. GoesOn(c)
    BY <2>1, <2>2 DEF Becomes, GoesOn
  <2> QED BY <1>1, <1>2, <2>1, <2>3
<1>4. CASE Rename(c)
  <2>1. cl[c].pc = "rename" /\ rt' = rt /\ mon' = mon
    BY <1>4 DEF Rename, shared
  <2>2. GoesOn(c)
    BY <1>4, <2>1, RenameFacts DEF GoesOn
  <2> QED BY <1>1, <1>2, <2>1, <2>2
<1>5. CASE ApplyRequest(c)
  BY <1>1, <1>2, <1>5, OtherStepFacts DEF ApplyRequest, Becomes
<1>6. CASE SendRequest(c)
  <2>1. /\ cl[c].pc = "send" /\ rt' = rt /\ mon' = Posted(cl[c].svc, IF cl[c].on THEN "Start" ELSE "Stop")
        /\ Answer(c, Receiver(cl[c].svc)) /\ Receiver(cl[c].svc) \in BOOLEAN
    BY <1>6 DEF SendRequest, shared, Receiver
  <2>2. /\ cl'[c].pc = "idle" /\ \A b \in Clients : b # c => cl'[b] = cl[b]
        /\ ~Receiver(cl[c].svc) => cl[c].svc \in hist'.broken
    BY <1>1, <2>1, AnswerFacts
  <2> QED BY <1>1, <1>2, <2>1, <2>2
<1>7. CASE LoadMapFails(c) \/ WriteFails(c) \/ RenameFails(c)
  <2>1. rt' = rt /\ mon' = mon /\ Answer(c, FALSE) /\ FALSE \in BOOLEAN
    BY <1>7 DEF LoadMapFails, WriteFails, RenameFails, shared
  <2>2. /\ cl'[c].pc = "idle" /\ \A b \in Clients : b # c => cl'[b] = cl[b]
        /\ cl[c].svc \in hist'.broken
    BY <1>1, <2>1, AnswerFacts
  <2> QED BY <1>1, <1>2, <2>1, <2>2
<1> QED BY <1>3, <1>4, <1>5, <1>6, <1>7 DEF ClientStep

\* The requests of other services than that of c.
LEMMA OtherActive ==
    ASSUME NEW c \in Clients, NEW s \in Services, \A b \in Clients : b # c => cl'[b] = cl[b],
           cl[c].pc # "idle" => cl[c].svc # s, cl'[c].pc # "idle" => cl'[c].svc # s
    PROVE  /\ Active(s)' = Active(s)
           /\ \A b \in Active(s) : cl'[b].on = cl[b].on /\ (cl'[b].pc = "send" <=> cl[b].pc = "send")
BY DEF Active

\* The same of a request that goes on.
LEMMA GoesOnActive ==
    ASSUME NEW c \in Clients, NEW s \in Services, GoesOn(c)
    PROVE  /\ Active(s)' = Active(s)
           /\ \A b \in Active(s) : cl'[b].on = cl[b].on /\ (cl'[b].pc = "send" <=> cl[b].pc = "send")
BY DEF Active, GoesOn

\* The requests.
LEMMA FlagClient ==
    ASSUME TypeOK, Where, FlagInv, NEW c \in Clients,
           ClientStep(c) \/ \E s \in Services, on \in BOOLEAN : SetConfig(c, s, on)
    PROVE  FlagInv'
<1> SUFFICES ASSUME NEW s \in Services, Calm(s)' PROVE FlagFor(s)'
  BY DEF FlagInv, FlagFor
<1>1. Calm(s) /\ FlagFor(s)
  BY CalmKept DEF Next, FlagInv
<1>2. ASSUME NEW t \in Services, NEW on \in BOOLEAN, SetConfig(c, t, on) PROVE FlagFor(s)'
  <2>1. SetFacts(c, t, on) /\ main' = main /\ rt' = rt /\ cl[c].pc = "idle"
    <3>1. SetFacts(c, t, on)
      BY <1>2, SetConfigFacts
    <3> QED BY <1>2, <3>1 DEF SetConfig
  <2>2. CASE s = t
    <3>1. main.pc = "idle" /\ Active(s) = {}
      BY <2>1, <2>2 DEF SetFacts, Calm
    <3>2. Active(s)' = {c}
      BY <2>1, <2>2, <3>1 DEF SetFacts, Active
    <3>3. /\ config'[s] # Absent /\ config'[s].on = cl'[c].on /\ cl'[c].pc = "load" /\ main'.pc = "idle"
      BY <2>1, <2>2, <3>1 DEF SetFacts
    <3>4. Asked(s)'
      BY <3>2, <3>3 DEF Asked
    <3> HIDE DEF Active
    <3> QED BY <3>2, <3>3, <3>4 DEF FlagFor, Walk
  <2>3. CASE s # t
    <3>1. /\ Active(s)' = Active(s)
          /\ \A b \in Active(s) : cl'[b].on = cl[b].on /\ (cl'[b].pc = "send" <=> cl[b].pc = "send")
      <4>1. (\A b \in Clients : b # c => cl'[b] = cl[b]) /\ cl'[c].svc # s
        BY <2>1, <2>3 DEF SetFacts
      <4> QED BY <2>1, <4>1, OtherActive
    <3>2. config'[s] = config[s]
      BY <2>1, <2>3 DEF SetFacts
    <3> QED BY <1>1, <2>1, <3>1, <3>2, FlagFrame
  <2> QED BY <2>2, <2>3
<1>3. ASSUME ClientStep(c) PROVE FlagFor(s)'
  <2> DEFINE t == cl[c].svc
  <2>0. main' = main /\ config' = config /\ t \in Services /\ cl[c].on \in BOOLEAN /\ cl[c].pc # "idle"
    BY <1>3, RequestMoves
  <2>1. CASE GoesOn(c) /\ rt' = rt
    BY <1>1, <2>0, <2>1, GoesOnActive, FlagFrame
  <2>2. CASE /\ s # t /\ \A b \in Clients : b # c => cl'[b] = cl[b]
             /\ cl'[c].pc # "idle" => cl'[c].svc = t
             /\ rt'[s] = rt[s]
    <3>1. /\ Active(s)' = Active(s)
          /\ \A b \in Active(s) : cl'[b].on = cl[b].on /\ (cl'[b].pc = "send" <=> cl[b].pc = "send")
      BY <2>2, OtherActive
    <3> QED BY <1>1, <2>0, <2>2, <3>1, FlagFrame
  <2>3. CASE s = t
    <3>1. c \in Active(s)
      BY <2>0, <2>3 DEF Active
    <3>2. main.pc = "idle" /\ Active(s) = {c} /\ config[s] # Absent /\ config[s].on = cl[c].on
      <4> HIDE DEF Active
      <4> QED BY <1>1, <3>1 DEF FlagFor
    <3>3. ~Before(s) /\ ~Before(s)' /\ main'.pc = "idle"
      BY <2>0, <3>2 DEF Before, AtWork, Ahead, Walk
    <3>4. CASE /\ cl[c].pc = "apply" /\ cl'[c].pc = "send"
               /\ cl'[c].svc = cl[c].svc /\ cl'[c].on = cl[c].on
               /\ \A b \in Clients : b # c => cl'[b] = cl[b]
               /\ rt' = Enabled(cl[c].svc, cl[c].on)
      <4>1. Active(s)' = {c}
        BY <2>3, <3>2, <3>4 DEF Active
      <4>2. rt'[s] # Absent => rt'[s].on = cl[c].on
        BY <2>0, <2>3, <3>4, EnabledFields
      <4> HIDE DEF Active
      <4> QED BY <2>0, <3>2, <3>3, <3>4, <4>1, <4>2 DEF FlagFor, Walk
    <3>5. CASE /\ cl[c].pc = "send" /\ cl'[c].pc = "idle"
               /\ \A b \in Clients : b # c => cl'[b] = cl[b]
               /\ rt' = rt
      <4>1. Active(s)' = {}
        BY <3>2, <3>5 DEF Active
      <4>2. ~Asked(s)
        BY <3>2, <3>5 DEF Asked
      <4>3. rt[s] # Absent => rt[s].on = config[s].on
        BY <1>1, <3>2, <3>3, <4>2 DEF FlagFor
      <4> HIDE DEF Active
      <4> QED BY <2>0, <3>2, <3>3, <3>5, <4>1, <4>3 DEF FlagFor, Walk
    <3>6. t \notin hist'.broken
      BY <2>3 DEF Calm
    <3> QED BY <1>3, <2>1, <2>3, <3>4, <3>5, <3>6, RequestMoves
  <2>4. s # t => rt'[s] = rt[s]
    <3>1. s # t /\ rt' = Enabled(t, cl[c].on) => rt'[s] = rt[s]
      BY <2>0, EnabledFields
    <3> QED BY <1>3, <3>1, RequestMoves
  <2> QED BY <1>3, <2>1, <2>2, <2>3, <2>4, RequestMoves
<1> QED BY <1>2, <1>3

\* Every step.
LEMMA FlagStep ==
    ASSUME TypeOK, Where, Together, NeedsInv, FlagInv, [Next]_vars
    PROVE  FlagInv'
<1>1. CASE UNCHANGED <<main, config, cl>> /\ \A s \in Services : rt'[s] # Absent => rt[s] # Absent /\ rt'[s].on = rt[s].on
  <2> SUFFICES ASSUME NEW s \in Services, Calm(s)' PROVE FlagFor(s)'
    BY DEF FlagInv, FlagFor
  <2>1. Calm(s) /\ FlagFor(s)
    BY CalmKept DEF FlagInv
  <2>2. Active(s)' = Active(s)
    BY <1>1 DEF Active
  <2> QED BY <1>1, <2>1, <2>2, FlagFrame
<1>2. UNCHANGED vars \/ Signal \/ (\E s \in Services, e \in Entries \cup {Absent} : Edit(s, e))
         => UNCHANGED <<main, config, cl, rt>>
  BY DEF vars, Signal, Edit, shared
<1>3. ASSUME NEW m \in Monitors, MonitorStep(m) PROVE FlagInv'
  <2>1. UNCHANGED <<main, config, cl>>
    BY <1>3, MonitorFacts
  <2> QED BY <1>1, <1>3, <2>1, MonitorRuntimes
<1> QED BY <1>1, <1>2, <1>3, FlagMain, FlagClient DEF Next

\* Between the runtime and the monitor of an added service nobody else touches it.
LEMMA FreshStep ==
    ASSUME TypeOK, Where, Together, FlagInv, FreshInv, [Next]_vars
    PROVE  FreshInv'
<1> SUFFICES ASSUME main'.pc = "spawn", Calm(Svc)' PROVE FreshFor(Svc)'
  BY DEF FreshInv
<1>1. CASE AddRuntime
  <2>1. main.pc \in Walk /\ Svc' = Svc
    BY <1>1, WalkMoves DEF SamePlace, Svc, Walk
  <2>2. Svc \in Services
    BY <2>1, WorkPlace
  <2>3. Living(Svc) = {}
    <3>1. Living(Svc) # {} => Svc \in hist'.twins
      BY <1>1 DEF AddRuntime, TypeOK, History
    <3> QED BY <2>1, <3>1 DEF Calm
  <2>4. mon' = mon /\ rt'[Svc] = NewRuntime(main.new[Svc].on)
    BY <1>1, <2>2 DEF AddRuntime, TypeOK
  <2> QED BY <2>1, <2>3, <2>4 DEF FreshFor, Living, NewRuntime
<1>2. CASE main' = main
  <2> DEFINE s == Svc
  <2>0. main.pc = "spawn" /\ s \in Services /\ Svc' = s
    <3>1. main.pc \in Walk
      BY <1>2 DEF Walk
    <3> QED BY <1>2, <3>1, WorkPlace DEF Svc
  <2>1. Calm(s)
    <3>1. Calm(s)'
      BY <2>0 DEF Calm
    <3> HIDE DEF s
    <3> QED BY <2>0, <3>1, CalmKept
  <2>2. FreshFor(s) /\ Active(s) = {}
    BY <2>0, <2>1 DEF FreshInv, FlagInv, FlagFor
  <2> HIDE DEF s
  <2> SUFFICES /\ rt'[s] = rt[s]
               /\ \A n \in Monitors : mon'[n].svc = mon[n].svc /\ (mon[n].svc = s => mon'[n].pc = mon[n].pc)
    <3>1. FreshFor(Svc)' <=> /\ \A n \in Monitors : mon'[n].svc = s => mon'[n].pc = "dead"
                             /\ ~rt'[s].on => rt'[s].state = "Disabled"
      BY <2>0 DEF FreshFor
    <3> QED BY <2>2, <3>1 DEF FreshFor
  <2>3. CASE UNCHANGED <<rt, mon>>
    BY <2>3
  <2>4. ASSUME NEW m \in Monitors, MonitorStep(m)
        PROVE  /\ rt'[s] = rt[s]
               /\ \A n \in Monitors : mon'[n].svc = mon[n].svc /\ (mon[n].svc = s => mon'[n].pc = mon[n].pc)
    <3>1. mon[m].svc # s
      BY <2>2, <2>4, MonitorFacts DEF FreshFor
    <3> QED BY <2>0, <2>4, <3>1, MonitorFacts, MonitorRuntimes
  <2>5. ASSUME NEW c \in Clients, ClientStep(c)
        PROVE  /\ rt'[s] = rt[s]
               /\ \A n \in Monitors : mon'[n].svc = mon[n].svc /\ (mon[n].svc = s => mon'[n].pc = mon[n].pc)
    <3>1. cl[c].svc # s /\ cl[c].svc \in Services /\ cl[c].on \in BOOLEAN
      BY <2>2, <2>5, RequestMoves DEF Active
    <3>2. rt' = rt \/ rt' = Enabled(cl[c].svc, cl[c].on)
      BY <2>5, RequestMoves
    <3>3. rt'[s] = rt[s]
      BY <2>0, <3>1, <3>2, EnabledFields
    <3>4. mon' = mon \/ \E msg \in Msgs : mon' = Posted(cl[c].svc, msg)
      BY <2>5, RequestMoves DEF Msgs
    <3>5. \A n \in Monitors : mon'[n].svc = mon[n].svc /\ mon'[n].pc = mon[n].pc
      BY <3>1, <3>4, PostedFacts
    <3> QED BY <3>3, <3>5
  <2>6. ASSUME NEW c \in Clients, NEW t \in Services, NEW on \in BOOLEAN, SetConfig(c, t, on)
        PROVE  UNCHANGED <<rt, mon>>
    BY <2>6 DEF SetConfig
  <2>7. UNCHANGED vars \/ Signal \/ (\E t \in Services, e \in Entries \cup {Absent} : Edit(t, e)) => UNCHANGED <<rt, mon>>
    BY DEF vars, Signal, Edit, shared
  <2>8. ~MainStep
    <3>1. MainStep => main'.pc # main.pc \/ main.pc = "apply"
      BY LoadMoves, WalkMoves DEF MainStep, Rounds, RoundEnds, RoundGoes
    <3> QED BY <1>2, <2>0, <3>1
  <2> QED BY <2>3, <2>4, <2>5, <2>6, <2>7, <2>8 DEF Next
<1>3. MainStep => AddRuntime
  <2>1. LoadFiles \/ LoadOverride \/ CloneOld \/ (\E s \in Services : RemoveStop(s)) \/ RemoveQuit \/ RemoveDrop
           => main'.pc # "spawn"
    BY LoadMoves
  <2>2. Rounds(0) \/ Rounds(main.at) => main'.pc # "spawn"
    BY DEF Rounds, RoundEnds, RoundGoes
  <2> QED BY <2>1, <2>2, WalkMoves DEF MainStep
<1>4. ~MainStep => main' = main
  <2>1. ASSUME NEW m \in Monitors, MonitorStep(m) PROVE main' = main
    BY <2>1, MonitorFacts
  <2>2. ASSUME NEW c \in Clients, ClientStep(c) PROVE main' = main
    BY <2>2, RequestMoves
  <2>3. UNCHANGED vars \/ Signal \/ (\E t \in Services, e \in Entries \cup {Absent} : Edit(t, e)) => main' = main
    BY DEF vars, Signal, Edit
  <2>4. ASSUME NEW c \in Clients, NEW t \in Services, NEW on \in BOOLEAN, SetConfig(c, t, on) PROVE main' = main
    BY <2>4 DEF SetConfig
  <2> QED BY <2>1, <2>2, <2>3, <2>4 DEF Next
<1> QED BY <1>1, <1>2, <1>3, <1>4

\* A dependency without a runtime: the loop has not come to it yet.
LEMMA MissingListed ==
    ASSUME TypeOK, Where, TableInv, Together, NeedsInv, NEW s \in Services, Stays(s), ctl[s] # Nobody,
           NEW d \in Deps[s], rt[d] = Absent
    PROVE  ListedAfter(d, s)
<1>0. d \in Services
  BY DepsAssumption
<1>1. config[s] # Absent /\ config[d] # Absent
  BY <1>0 DEF Stays, NeedsInv, Valid
<1>2. main.pc \notin {"idle", "override", "clone"}
  BY <1>0, <1>1 DEF Together
<1>3. main.pc \notin {"remove", "quit", "drop", "replace"}
  <2> SUFFICES ASSUME main.pc \in {"remove", "quit", "drop", "replace"} PROVE FALSE
    OBVIOUS
  <2>1. main.old[s] # Absent /\ main.new[s] # Absent
    BY DEF Together, Stays, Unplaced
  <2>2. main.old[d] # Absent
    BY <2>1 DEF NeedsInv
  <2> QED BY <1>0, <2>2 DEF Together
<1>4. main.pc \in Walk
  BY <1>2, <1>3 DEF TypeOK, MainThread, Walk
<1>5. PICK i \in 1..Len(Order) : Order[i] = s
  BY OrderFacts
<1>6. PICK j \in 1..Len(Order) : Order[j] = d
  BY <1>0, OrderFacts
<1>7. Passed(i) /\ ~Passed(j) /\ main.new[d] # Absent
  BY <1>1, <1>4, <1>5, <1>6 DEF Together
<1>8. main.old[d] = Absent /\ ~(j < main.at) /\ ~(j = main.at /\ main.pc \in {"start", "toggle", "definition"})
  BY <1>6, <1>7 DEF Passed
<1>9. main.old[s] = Absent
  BY <1>4, <1>5, <1>7, <1>8 DEF NeedsInv, Passed
<1>10. i < main.at \/ (i = main.at /\ main.pc \in {"start", "toggle", "definition"})
  BY <1>5, <1>7, <1>9 DEF Passed
<1>11. main.at \in 1..Len(Order)
  BY <1>4 DEF Where
<1>12. i < j
  BY <1>8, <1>10, <1>11, OrderFacts
<1> QED BY <1>5, <1>6, <1>12 DEF ListedAfter

\* What is coming, message by message.
LEMMA ComingFacts ==
    ASSUME NEW s
    PROVE  /\ "Start" \in Coming(s) <=> Sends(s, TRUE)
           /\ "Stop" \in Coming(s) <=> Sends(s, FALSE)
           /\ "Restart" \in Coming(s) <=> Remakes(s)
           /\ Coming(s) \subseteq {"Start", "Stop", "Restart"}
BY DEF Coming

\* The same after a step.
LEMMA ComingNext ==
    ASSUME NEW s
    PROVE  /\ "Start" \in Coming(s)' <=> Sends(s, TRUE)'
           /\ "Stop" \in Coming(s)' <=> Sends(s, FALSE)'
           /\ "Restart" \in Coming(s)' <=> Remakes(s)'
BY DEF Coming

\* No message that was coming is given up.
LEMMA ComingMore ==
    ASSUME NEW s, Sends(s, TRUE) => Sends(s, TRUE)', Sends(s, FALSE) => Sends(s, FALSE)',
           Remakes(s) => Remakes(s)'
    PROVE  Coming(s) \subseteq Coming(s)'
<1> HIDE DEF Coming, Sends, Remakes
<1> QED BY ComingFacts, ComingNext

\* Nothing but the requests and the main thread sends.
LEMMA ComingSame ==
    ASSUME NEW s \in Services, main' = main, Active(s)' = Active(s),
           \A b \in Active(s) : cl'[b].on = cl[b].on /\ (cl'[b].pc = "send" <=> cl[b].pc = "send")
    PROVE  Coming(s) \subseteq Coming(s)'
<1>1. AtWork(s)' = AtWork(s) /\ Ahead(s)' = Ahead(s)
  BY DEF AtWork, Ahead, Svc
<1>2. \A on \in BOOLEAN : Sends(s, on) => Sends(s, on)'
  <2> HIDE DEF Active
  <2> QED BY <1>1 DEF Sends
<1>3. Remakes(s) => Remakes(s)'
  BY <1>1 DEF Remakes
<1> QED BY <1>2, <1>3, ComingMore

\* No monitor for s is born or comes back to life.
NoneBorn(s) ==
    \A m \in Monitors : mon'[m].svc = s => mon[m].svc = s /\ (mon[m].pc = "dead" => mon'[m].pc = "dead")

\* A step that leaves a service, its runtime and its monitor alone.
LEMMA ServedFrame ==
    ASSUME NEW s \in Services, ServedFor(s), Calm(s), Stays(s), ctl'[s] = ctl[s], ctl[s] # Nobody,
           rt'[s] = rt[s], config'[s].def = config[s].def, mon'[ctl[s]] = mon[ctl[s]],
           Coming(s) \subseteq Coming(s)', NoneBorn(s)
    PROVE  ServedFor(s)'
<1>1. Alone(s) /\ Served(s, rt[s], config[s].def, mon[ctl[s]], Coming(s))
  BY DEF ServedFor
<1>2. Alone(s)'
  BY <1>1 DEF Alone, NoneBorn
<1>3. Served(s, rt[s], config[s].def, mon[ctl[s]], Coming(s)')
  <2> HIDE DEF Coming
  <2> QED BY <1>1, ServedMore
<1>4. Served(s, rt[s], config[s].def, mon[ctl[s]], Coming(s))'
  BY <1>3
<1> QED BY <1>2, <1>4 DEF ServedFor

\* A message for s reaches the monitor in the table.
LEMMA PostedHere ==
    ASSUME TypeOK, TableInv, NEW s \in Services, ctl[s] # Nobody, NEW msg \in Msgs, mon' = Posted(s, msg)
    PROVE  /\ Told(mon[ctl[s]], mon'[ctl[s]], msg) /\ mon[ctl[s]].queue \in Seq(Msgs)
           /\ \A t \in Services : NoneBorn(t)
<1>1. ctl[s] \in Monitors /\ Receiver(s)
  BY DEF TypeOK, TableInv, Receiver
<1>2. mon[ctl[s]].queue \in Seq(Msgs)
  BY <1>1 DEF TypeOK, Monitor
<1>3. Told(mon[ctl[s]], mon'[ctl[s]], msg)
  BY <1>1, PostedFacts DEF Told
<1>4. \A t \in Services : NoneBorn(t)
  BY PostedFacts DEF NoneBorn
<1> QED BY <1>2, <1>3, <1>4

\* Other services do not see it.
LEMMA PostedElsewhere ==
    ASSUME TypeOK, TableInv, NEW s \in Services, NEW t \in Services, s # t, ctl[t] # Nobody,
           NEW msg \in Msgs, mon' = Posted(s, msg)
    PROVE  mon'[ctl[t]] = mon[ctl[t]] /\ NoneBorn(t)
<1>1. NoneBorn(t)
  BY PostedFacts DEF NoneBorn
<1>2. ctl[t] \in Monitors
  BY DEF TypeOK
<1>3. ctl[s] # ctl[t]
  BY DEF TableInv
<1>4. mon'[ctl[t]] = mon[ctl[t]]
  BY <1>2, <1>3 DEF Posted, TypeOK
<1> QED BY <1>1, <1>4

\* The requests.
LEMMA ServedClient ==
    ASSUME TypeOK, Where, TableInv, Together, FlagInv, ServedInv, NEW c \in Clients,
           ClientStep(c) \/ \E s \in Services, on \in BOOLEAN : SetConfig(c, s, on)
    PROVE  ServedInv'
<1> SUFFICES ASSUME NEW s \in Services, Calm(s)', Stays(s)', ctl'[s] # Nobody PROVE ServedFor(s)'
  BY DEF ServedInv, ServedFor
<1>1. Calm(s) /\ FlagFor(s) /\ ServedFor(s)
  BY CalmKept DEF Next, FlagInv, ServedInv
<1>2. ASSUME NEW t \in Services, NEW on \in BOOLEAN, SetConfig(c, t, on) PROVE ServedFor(s)'
  <2>1. SetFacts(c, t, on)
    BY <1>2, SetConfigFacts
  <2>2. main' = main /\ rt' = rt /\ cl[c].pc = "idle" /\ ctl' = ctl /\ mon' = mon /\ config[t] # Absent
    BY <1>2 DEF SetConfig
  <2>3. config'[s].def = config[s].def /\ Stays(s)
    <3>1. config'[s].def = config[s].def /\ (config'[s] # Absent => config[s] # Absent)
      BY <2>1, <2>2 DEF SetFacts
    <3> QED BY <2>2, <3>1 DEF Stays
  <2>4. NoneBorn(s)
    BY <2>2 DEF NoneBorn
  <2>5. Coming(s) \subseteq Coming(s)'
    <3>1. \A b \in Clients : b # c => cl'[b] = cl[b]
      BY <2>1 DEF SetFacts
    <3>2. AtWork(s)' = AtWork(s) /\ Ahead(s)' = Ahead(s)
      BY <2>2 DEF AtWork, Ahead, Svc
    <3>3. \A b \in Active(s) : b \in Active(s)' /\ cl'[b] = cl[b]
      BY <2>2, <3>1 DEF Active
    <3>4. \A o \in BOOLEAN : Sends(s, o) => Sends(s, o)'
      <4> HIDE DEF Active
      <4> QED BY <2>2, <3>2, <3>3 DEF Sends
    <3>5. Remakes(s) => Remakes(s)'
      BY <2>2, <3>2 DEF Remakes
    <3> QED BY <3>4, <3>5, ComingMore
  <2> QED BY <1>1, <2>2, <2>3, <2>4, <2>5, ServedFrame
<1>3. ASSUME ClientStep(c) PROVE ServedFor(s)'
  <2> DEFINE t == cl[c].svc
  <2>0. /\ main' = main /\ config' = config /\ ctl' = ctl
        /\ t \in Services /\ cl[c].on \in BOOLEAN /\ cl[c].pc # "idle"
    BY <1>3, RequestMoves
  <2>1. Stays(s)
    BY <2>0 DEF Stays
  <2>2. CASE GoesOn(c) /\ rt' = rt /\ mon' = mon
    <3>1. NoneBorn(s)
      BY <2>2 DEF NoneBorn
    <3>2. Coming(s) \subseteq Coming(s)'
      BY <2>0, <2>2, GoesOnActive, ComingSame
    <3> QED BY <1>1, <2>0, <2>1, <2>2, <3>1, <3>2, ServedFrame
  <2>3. CASE /\ s # t /\ \A b \in Clients : b # c => cl'[b] = cl[b]
             /\ cl'[c].pc # "idle" => cl'[c].svc = t
             /\ rt'[s] = rt[s] /\ mon'[ctl[s]] = mon[ctl[s]] /\ NoneBorn(s)
    <3>1. Coming(s) \subseteq Coming(s)'
      BY <2>0, <2>3, OtherActive, ComingSame
    <3> QED BY <1>1, <2>0, <2>1, <2>3, <3>1, ServedFrame
  <2>4. CASE s = t
    <3>1. c \in Active(s)
      BY <2>0, <2>4 DEF Active
    <3>2. main.pc = "idle" /\ Active(s) = {c} /\ config[s].on = cl[c].on
      <4> HIDE DEF Active
      <4> QED BY <1>1, <3>1 DEF FlagFor
    <3>3. ~Before(s) /\ main'.pc = "idle" /\ ~AtWork(s) /\ ~Ahead(s)
      BY <2>0, <3>2 DEF Before, AtWork, Ahead, Walk
    <3>4. rt[s] # Absent
      BY <2>0, <2>1, <3>2 DEF Together, Stays
    <3>5. Alone(s) /\ Served(s, rt[s], config[s].def, mon[ctl[s]], Coming(s))
      BY <1>1, <2>0, <2>1 DEF ServedFor
    <3>6. \A on \in BOOLEAN : Sends(s, on) <=> cl[c].pc = "send" /\ cl[c].on = on
      BY <3>2, <3>3 DEF Sends
    <3>7. ~Remakes(s)
      BY <3>3 DEF Remakes
    <3>8. CASE /\ cl[c].pc = "apply" /\ cl'[c].pc = "send"
               /\ cl'[c].svc = cl[c].svc /\ cl'[c].on = cl[c].on
               /\ rt' = Enabled(cl[c].svc, cl[c].on) /\ mon' = mon
      <4>1. Alone(s)'
        BY <2>0, <3>5, <3>8 DEF Alone
      <4>2. Coming(s) = {}
        <5> HIDE DEF Coming, Sends, Remakes
        <5> QED BY <3>6, <3>7, <3>8, ComingFacts
      <4>3. c \in Active(s)'
        BY <2>4, <3>8 DEF Active
      <4>4. (cl[c].on => "Start" \in Coming(s)') /\ (~cl[c].on => "Stop" \in Coming(s)')
        <5>1. cl[c].on => Sends(s, TRUE)'
          <6> HIDE DEF Active
          <6> QED BY <2>0, <3>8, <4>3 DEF Sends
        <5>2. ~cl[c].on => Sends(s, FALSE)'
          <6> HIDE DEF Active
          <6> QED BY <2>0, <3>8, <4>3 DEF Sends
        <5> QED BY <5>1, <5>2, ComingNext
      <4>5. /\ rt'[s].on = cl[c].on
            /\ cl[c].on /\ rt[s].state \in {"Running", "Succeeded"} => rt'[s].state \in {"Running", "Succeeded"}
        BY <2>0, <2>4, <3>4, <3>8, EnabledFields
      <4>6. Served(s, rt'[s], config[s].def, mon[ctl[s]], Coming(s)')
        <5> HIDE DEF Coming
        <5> QED BY <3>5, <4>2, <4>4, <4>5, ServedFlag
      <4>7. Served(s, rt[s], config[s].def, mon[ctl[s]], Coming(s))'
        BY <2>0, <3>8, <4>6
      <4> QED BY <4>1, <4>7 DEF ServedFor
    <3>9. CASE /\ cl[c].pc = "send" /\ rt' = rt
               /\ mon' = Posted(cl[c].svc, IF cl[c].on THEN "Start" ELSE "Stop")
      <4> DEFINE msg == IF cl[c].on THEN "Start" ELSE "Stop"
      <4>1. msg \in Msgs /\ msg \in {"Start", "Stop", "Restart"} /\ mon' = Posted(s, msg)
        BY <2>4, <3>9 DEF Msgs
      <4>2. ~Asked(s)
        BY <3>2, <3>9 DEF Asked
      <4>3. rt[s].on = cl[c].on
        BY <1>1, <2>1, <3>2, <3>3, <3>4, <4>2 DEF FlagFor, Stays
      <4>4. rt[s].on <=> msg # "Stop"
        BY <4>3
      <4>5. Coming(s) \ {msg} = {}
        <5>1. cl[c].on => ~Sends(s, FALSE)
          BY <2>0, <3>6
        <5>2. ~cl[c].on => ~Sends(s, TRUE)
          BY <2>0, <3>6
        <5> HIDE DEF Coming, Sends, Remakes
        <5> QED BY <3>7, <5>1, <5>2, ComingFacts
      <4> HIDE DEF msg
      <4>6. /\ Told(mon[ctl[s]], mon'[ctl[s]], msg) /\ mon[ctl[s]].queue \in Seq(Msgs)
            /\ NoneBorn(s)
        BY <2>0, <4>1, PostedHere
      <4>7. Served(s, rt[s], config[s].def, mon'[ctl[s]], Coming(s)')
        <5> HIDE DEF Coming
        <5> QED BY <3>5, <4>1, <4>4, <4>5, <4>6, ServedTold
      <4>8. Served(s, rt[s], config[s].def, mon[ctl[s]], Coming(s))'
        BY <2>0, <3>9, <4>7
      <4>9. Alone(s)'
        BY <2>0, <3>5, <4>6 DEF Alone, NoneBorn
      <4> QED BY <4>8, <4>9 DEF ServedFor
    <3>10. t \notin hist'.broken
      BY <2>4 DEF Calm
    <3> QED BY <1>3, <2>2, <2>4, <3>8, <3>9, <3>10, RequestMoves
  <2>5. s # t => rt'[s] = rt[s]
    <3>1. s # t /\ rt' = Enabled(t, cl[c].on) => rt'[s] = rt[s]
      BY <2>0, EnabledFields
    <3> QED BY <1>3, <3>1, RequestMoves
  <2>6. s # t => mon'[ctl[s]] = mon[ctl[s]] /\ NoneBorn(s)
    <3>1. mon' = mon => NoneBorn(s)
      BY DEF NoneBorn
    <3>2. ASSUME s # t, mon' = Posted(t, IF cl[c].on THEN "Start" ELSE "Stop")
          PROVE  mon'[ctl[s]] = mon[ctl[s]] /\ NoneBorn(s)
      <4>1. (IF cl[c].on THEN "Start" ELSE "Stop") \in Msgs
        BY DEF Msgs
      <4> HIDE DEF t
      <4> QED BY <2>0, <3>2, <4>1, PostedElsewhere
    <3> QED BY <1>3, <3>1, <3>2, RequestMoves
  <2> QED BY <1>3, <2>2, <2>3, <2>4, <2>5, <2>6, RequestMoves
<1> QED BY <1>2, <1>3

\* Outside the loop over the new services nothing is coming for a calm service.
LEMMA NothingComing ==
    ASSUME NEW s \in Services, Active(s) = {}, ~AtWork(s), ~Ahead(s)
    PROVE  Coming(s) = {}
<1>1. ~Sends(s, TRUE) /\ ~Sends(s, FALSE) /\ ~Remakes(s)
  <2> HIDE DEF Active
  <2> QED BY DEF Sends, Remakes
<1> HIDE DEF Coming, Sends, Remakes
<1> QED BY <1>1, ComingFacts

\* Loading and removing.
LEMMA ServedLoad ==
    ASSUME TypeOK, Where, TableInv, Together, FlagInv, ServedInv,
           \/ LoadFiles \/ LoadOverride \/ CloneOld
           \/ (\E s \in Services : RemoveStop(s)) \/ RemoveQuit \/ RemoveDrop
    PROVE  ServedInv'
<1> SUFFICES ASSUME NEW s \in Services, Calm(s)', Stays(s)', ctl'[s] # Nobody PROVE ServedFor(s)'
  BY DEF ServedInv, ServedFor
<1>1. ServedFor(s) /\ Calm(s) /\ Active(s) = {}
  <2>1. MainStep
    BY DEF MainStep
  <2> QED BY <2>1, CalmMain DEF ServedInv
<1>2. main.pc \notin Walk /\ main'.pc \notin Walk
  BY LoadMoves DEF Walk
<1>3. Coming(s) \subseteq Coming(s)'
  <2>1. ~AtWork(s) /\ ~Ahead(s)
    BY <1>2 DEF AtWork, Ahead
  <2> HIDE DEF Coming, Active
  <2> QED BY <1>1, <2>1, NothingComing
<1>4. config' = config
  BY DEF LoadFiles, LoadOverride, CloneOld, RemoveStop, RemoveQuit, RemoveDrop, shared
<1>5. Stays(s) /\ (main'.pc \in Unplaced => main'.new[s] # Absent)
  <2>1. \/ main.pc \in {"idle", "override"}
        \/ main.pc \in Unplaced /\ main'.pc \in Unplaced /\ main'.new = main.new
    BY LoadMoves DEF Unplaced, SamePlace
  <2> QED BY <1>4, <2>1 DEF Stays, Unplaced
<1>6. CASE LoadFiles \/ LoadOverride \/ CloneOld
  <2>1. mon' = mon /\ ctl' = ctl /\ rt' = rt
    BY <1>6 DEF LoadFiles, LoadOverride, CloneOld, shared
  <2>2. NoneBorn(s)
    BY <2>1 DEF NoneBorn
  <2> QED BY <1>1, <1>3, <1>4, <1>5, <2>1, <2>2, ServedFrame
<1>7. ASSUME NEW t \in Services, RemoveStop(t) PROVE ServedFor(s)'
  <2>1. mon' = Posted(t, "Stop") /\ ctl' = ctl /\ rt' = rt /\ "Stop" \in Msgs
    BY <1>7 DEF RemoveStop, shared, Msgs
  <2>2. s # t
    BY <1>5, <1>7, LoadMoves DEF Removed, SamePlace, Unplaced
  <2>3. mon'[ctl[s]] = mon[ctl[s]] /\ NoneBorn(s)
    BY <2>1, <2>2, PostedElsewhere
  <2> QED BY <1>1, <1>3, <1>4, <1>5, <2>1, <2>3, ServedFrame
<1>8. CASE RemoveQuit
  <2>1. mon' = Posted(main.gone, "Quit") /\ rt' = rt /\ "Quit" \in Msgs /\ main.gone \in Services
    BY <1>8, LoadMoves DEF RemoveQuit, Msgs
  <2>2. s # main.gone /\ ctl'[s] = ctl[s]
    BY <1>8, <2>1 DEF RemoveQuit, TypeOK
  <2>3. mon'[ctl[s]] = mon[ctl[s]] /\ NoneBorn(s)
    BY <2>1, <2>2, PostedElsewhere
  <2> QED BY <1>1, <1>3, <1>4, <1>5, <2>1, <2>2, <2>3, ServedFrame
<1>9. CASE RemoveDrop
  <2>1. mon' = mon /\ ctl' = ctl /\ main.pc = "drop"
    BY <1>9 DEF RemoveDrop
  <2>2. s # main.gone
    BY <2>1 DEF Together
  <2>3. rt'[s] = rt[s]
    BY <1>9, <2>2 DEF RemoveDrop, TypeOK
  <2>4. NoneBorn(s)
    BY <2>1 DEF NoneBorn
  <2> QED BY <1>1, <1>3, <1>4, <1>5, <2>1, <2>3, <2>4, ServedFrame
<1> QED BY <1>6, <1>7, <1>8, <1>9

\* The new configuration goes in: a Restart is coming wherever it has a new definition.
LEMMA ServedReplace ==
    ASSUME TypeOK, Where, TableInv, Together, FlagInv, ServedInv, Replace
    PROVE  ServedInv'
<1> SUFFICES ASSUME NEW s \in Services, Calm(s)', Stays(s)', ctl'[s] # Nobody PROVE ServedFor(s)'
  BY DEF ServedInv, ServedFor
<1>1. ServedFor(s) /\ Calm(s) /\ Active(s) = {} /\ FlagFor(s)
  <2>1. MainStep
    BY DEF MainStep
  <2> QED BY <2>1, CalmMain DEF ServedInv, FlagInv
<1>2. config' = main.new /\ mon' = mon /\ ctl' = ctl /\ rt' = rt /\ main.pc = "replace" /\ Rounds(0)
  BY WalkMoves DEF Replace
<1>3. main.new[s] # Absent /\ config[s] # Absent /\ main.old[s] # Absent /\ main.old[s] = config[s]
  <2>1. main.new[s] # Absent /\ config[s] # Absent /\ main.old[s] # Absent
    BY <1>2 DEF Stays, TableInv, Together
  <2> QED BY <1>1, <1>2, <2>1 DEF FlagFor
<1>4. Stays(s)
  BY <1>3 DEF Stays
<1>5. /\ AtWork(s)' \/ Ahead(s)'
      /\ main'.pc = "apply" /\ main'.old = main.old /\ main'.new = main.new
  BY <1>2, <1>3, ReplacePlaces
<1>6. Coming(s) = {}
  <2>1. ~AtWork(s) /\ ~Ahead(s)
    BY <1>2 DEF AtWork, Ahead, Walk
  <2> HIDE DEF Coming, Active
  <2> QED BY <1>1, <2>1, NothingComing
<1>7. NoneBorn(s)
  BY <1>2 DEF NoneBorn
<1>8. CASE config'[s].def = config[s].def
  <2>1. Coming(s) \subseteq Coming(s)'
    <3> HIDE DEF Coming
    <3> QED BY <1>6
  <2> QED BY <1>1, <1>2, <1>4, <1>7, <1>8, <2>1, ServedFrame
<1>9. CASE config'[s].def # config[s].def
  <2>1. Remakes(s)'
    BY <1>2, <1>3, <1>5, <1>9 DEF Remakes
  <2>2. "Restart" \in Coming(s)'
    BY <2>1, ComingNext
  <2>3. Alone(s) /\ Served(s, rt[s], config[s].def, mon[ctl[s]], Coming(s))
    BY <1>1, <1>2, <1>4 DEF ServedFor
  <2>4. Served(s, rt[s], config'[s].def, mon[ctl[s]], Coming(s)')
    <3> HIDE DEF Coming
    <3> QED BY <1>6, <2>2, <2>3, ServedRemade
  <2>5. Served(s, rt[s], config[s].def, mon[ctl[s]], Coming(s))'
    BY <1>2, <2>4
  <2>6. Alone(s)'
    BY <1>2, <2>3 DEF Alone
  <2> QED BY <2>5, <2>6 DEF ServedFor
<1> QED BY <1>8, <1>9

\* What is coming for a service that the loop does not leave behind.
LEMMA WalkComing ==
    ASSUME TypeOK, Where, main.pc \in Walk, NEW s \in Services, Active(s) = {}, main.new[s] # Absent, s # Svc,
           (main'.pc \in Walk /\ SamePlace) \/ Rounds(main.at)
    PROVE  Coming(s) \subseteq Coming(s)'
<1>1. ~AtWork(s)
  BY DEF AtWork
<1>2. ~Sends(s, TRUE) /\ ~Sends(s, FALSE)
  <2> HIDE DEF Active
  <2> QED BY <1>1 DEF Sends
<1>3. Remakes(s) => Remakes(s)'
  <2>1. CASE main'.pc \in Walk /\ SamePlace
    <3>1. Ahead(s)' <=> Ahead(s)
      BY <2>1, SamePlaces
    <3> QED BY <1>1, <2>1, <3>1 DEF Remakes, SamePlace
  <2>2. CASE Rounds(main.at)
    <3>1. /\ AtWork(s)' \/ Ahead(s)' <=> Ahead(s)
          /\ main'.pc \in {"idle", "apply"}
          /\ main'.pc = "apply" => main'.old = main.old /\ main'.new = main.new
      BY <2>2, RoundPlaces
    <3>2. main'.pc = "idle" => ~AtWork(s)' /\ ~Ahead(s)'
      BY DEF AtWork, Ahead, Walk
    <3> QED BY <1>1, <3>1, <3>2 DEF Remakes
  <2> QED BY <2>1, <2>2
<1> QED BY <1>2, <1>3, ComingMore

\* What is coming for the service the loop is at.
LEMMA WorkComing ==
    ASSUME Where, main.pc \in Walk, Active(Svc) = {}
    PROVE  /\ "Start" \in Coming(Svc) => main.pc = "start" \/ (main.pc = "toggle" /\ main.new[Svc].on)
           /\ "Stop" \in Coming(Svc) => main.pc = "toggle" /\ main.new[Svc].on = FALSE
           /\ "Restart" \in Coming(Svc) <=>
                 main.old[Svc] # Absent /\ main.old[Svc].def # main.new[Svc].def
           /\ Coming(Svc) \subseteq {"Start", "Stop", "Restart"}
<1>1. AtWork(Svc)
  BY WorkPlace
<1>2. Sends(Svc, TRUE) => main.pc = "start" \/ (main.pc = "toggle" /\ main.new[Svc].on)
  <2> HIDE DEF Active, Svc
  <2> QED BY DEF Sends
<1>3. Sends(Svc, FALSE) => main.pc = "toggle" /\ main.new[Svc].on = FALSE
  <2> HIDE DEF Active, Svc
  <2> QED BY DEF Sends
<1>4. Remakes(Svc) <=> main.old[Svc] # Absent /\ main.old[Svc].def # main.new[Svc].def
  BY <1>1 DEF Remakes
<1> QED BY <1>2, <1>3, <1>4, ComingFacts

\* A step of the loop over the new services, for the services it is not at.
LEMMA ServedElsewhere ==
    ASSUME TypeOK, Where, TableInv, Together, FlagInv, ServedInv, main.pc \in Walk, MainStep,
           NEW s \in Services, s # Svc, Calm(s)', Stays(s)', ctl'[s] # Nobody
    PROVE  ServedFor(s)'
<1>0. Svc \in Services
  BY WorkPlace
<1>1. ServedFor(s) /\ Calm(s) /\ Active(s) = {}
  BY CalmMain DEF ServedInv
<1>2. AddRuntime \/ ApplyEnabled \/ SendToggle \/ StartAdded \/ SendRestart \/ \E m \in Monitors : SpawnMonitor(m)
  BY DEF MainStep, LoadFiles, LoadOverride, CloneOld, RemoveStop, RemoveQuit, RemoveDrop, Replace, Main, Walk
<1>3. config' = config /\ config[s] # Absent /\ main.new[s] # Absent
  <2>1. config' = config
    BY <1>2 DEF AddRuntime, ApplyEnabled, SendToggle, StartAdded, SendRestart, SpawnMonitor, shared
  <2>2. config[s] = main.new[s]
    BY <1>1 DEF FlagInv, FlagFor
  <2> QED BY <2>1, <2>2 DEF Stays
<1>4. Stays(s)
  BY <1>3 DEF Stays, Unplaced, Walk
<1>5. Coming(s) \subseteq Coming(s)'
  <2>1. (main'.pc \in Walk /\ SamePlace) \/ Rounds(main.at)
    BY <1>2, WalkMoves DEF Walk
  <2> HIDE DEF Coming, Active
  <2> QED BY <1>1, <1>3, <2>1, WalkComing
<1>6. ctl'[s] = ctl[s]
  <2>1. ASSUME NEW m \in Monitors, SpawnMonitor(m) PROVE ctl'[s] = ctl[s]
    BY <2>1 DEF SpawnMonitor, TypeOK
  <2> QED BY <1>2, <2>1 DEF AddRuntime, ApplyEnabled, SendToggle, StartAdded, SendRestart, shared
<1>7. rt'[s] = rt[s]
  <2>1. AddRuntime => rt'[s] = rt[s]
    BY DEF AddRuntime, TypeOK
  <2>2. ApplyEnabled => rt'[s] = rt[s]
    BY DEF ApplyEnabled, Enabled, TypeOK
  <2> QED BY <1>2, <2>1, <2>2 DEF SendToggle, StartAdded, SendRestart, SpawnMonitor, shared
<1>8. mon'[ctl[s]] = mon[ctl[s]] /\ NoneBorn(s)
  <2>1. mon' = mon => NoneBorn(s)
    BY DEF NoneBorn
  <2>2. ASSUME NEW msg \in Msgs, mon' = Posted(Svc, msg) PROVE mon'[ctl[s]] = mon[ctl[s]] /\ NoneBorn(s)
    <3> HIDE DEF Svc
    <3> QED BY <1>0, <1>6, <2>2, PostedElsewhere
  <2>3. ASSUME NEW m \in Monitors, SpawnMonitor(m) PROVE mon'[ctl[s]] = mon[ctl[s]] /\ NoneBorn(s)
    <3>1. mon' = [mon EXCEPT ![m].svc = Svc, ![m].pc = "idle"] /\ mon[m].pc = "unborn" /\ mon[m] \in Monitor
      BY <2>3 DEF SpawnMonitor, TypeOK
    <3>2. mon'[m].svc = Svc /\ \A n \in Monitors : n # m => mon'[n] = mon[n]
      BY <3>1 DEF TypeOK, Monitor
    <3>3. ctl[s] \in Monitors /\ ctl[s] # m
      BY <1>6, <3>1 DEF TableInv, TypeOK
    <3> QED BY <3>2, <3>3 DEF NoneBorn
  <2>4. SendToggle \/ StartAdded \/ SendRestart => mon' = mon \/ \E msg \in Msgs : mon' = Posted(Svc, msg)
    BY DEF SendToggle, StartAdded, SendRestart, RestartChanged, Msgs
  <2>5. AddRuntime \/ ApplyEnabled => mon' = mon
    BY DEF AddRuntime, ApplyEnabled
  <2> QED BY <1>2, <2>1, <2>2, <2>3, <2>4, <2>5
<1> QED BY <1>1, <1>3, <1>4, <1>5, <1>6, <1>7, <1>8, ServedFrame

\* The service the loop is at: its monitor serves it, and the flag of its runtime
\* is the old one until apply_enabled has set it.
AtIt(s) ==
    /\ s = Svc /\ Calm(s) /\ Active(s) = {} /\ ctl[s] # Nobody /\ rt[s] # Absent
    /\ main.new[s] # Absent /\ config[s] = main.new[s]
    /\ rt[s].on = IF main.pc = "apply" /\ main.old[s] # Absent THEN main.old[s].on ELSE main.new[s].on
    /\ Alone(s) /\ Served(s, rt[s], config[s].def, mon[ctl[s]], Coming(s))

\* That is so during every step of the loop at a calm service.
LEMMA WorkAtIt ==
    ASSUME TypeOK, Where, TableInv, Together, FlagInv, ServedInv, main.pc \in Walk, MainStep,
           NEW s \in Services, s = Svc, Calm(s)', ctl[s] # Nobody
    PROVE  AtIt(s)
<1>1. ServedFor(s) /\ FlagFor(s) /\ Calm(s) /\ Active(s) = {} /\ ~Asked(s)
  BY CalmMain DEF ServedInv, FlagInv
<1>2. main.new[s] # Absent /\ AtWork(s) /\ ~Ahead(s)
  <2> HIDE DEF Svc
  <2> QED BY WorkPlace
<1>3. config[s] = main.new[s]
  BY <1>1 DEF FlagFor
<1>4. Stays(s)
  BY <1>2, <1>3 DEF Stays, Unplaced, Walk
<1>5. rt[s] # Absent
  <2>1. main.at \in 1..Len(Order) /\ s = Order[main.at]
    BY DEF Where, Svc
  <2>2. Passed(main.at)
    BY <2>1 DEF Together
  <2> QED BY <2>1, <2>2 DEF Together
<1>6. Before(s) <=> main.pc = "apply" /\ main.old[s] # Absent
  BY <1>2 DEF Before
<1>7. rt[s].on = IF main.pc = "apply" /\ main.old[s] # Absent THEN main.old[s].on ELSE main.new[s].on
  BY <1>1, <1>2, <1>3, <1>5, <1>6 DEF FlagFor
<1>8. Alone(s) /\ Served(s, rt[s], config[s].def, mon[ctl[s]], Coming(s))
  BY <1>1, <1>4 DEF ServedFor
<1> QED BY <1>1, <1>2, <1>3, <1>5, <1>7, <1>8 DEF AtIt

\* A message to the service the loop is at.
LEMMA ServedSent ==
    ASSUME TypeOK, TableInv, NEW s \in Services, AtIt(s),
           NEW msg \in {"Start", "Stop", "Restart"}, mon' = Posted(s, msg),
           rt[s].on <=> msg # "Stop", Coming(s) \ {msg} \subseteq Coming(s)',
           rt' = rt, ctl' = ctl, config' = config
    PROVE  ServedFor(s)'
<1>1. Alone(s) /\ Served(s, rt[s], config[s].def, mon[ctl[s]], Coming(s)) /\ ctl[s] # Nobody
  BY DEF AtIt
<1>2. /\ Told(mon[ctl[s]], mon'[ctl[s]], msg) /\ mon[ctl[s]].queue \in Seq(Msgs)
      /\ NoneBorn(s)
  <2>1. msg \in Msgs
    BY DEF Msgs
  <2> QED BY <1>1, <2>1, PostedHere
<1>3. Served(s, rt[s], config[s].def, mon'[ctl[s]], Coming(s)')
  <2> HIDE DEF Coming
  <2> QED BY <1>1, <1>2, ServedTold
<1>4. Served(s, rt[s], config[s].def, mon[ctl[s]], Coming(s))'
  BY <1>3
<1>5. Alone(s)'
  BY <1>1, <1>2 DEF Alone, NoneBorn
<1> QED BY <1>4, <1>5 DEF ServedFor

\* The loop over the new services, for the service it is at.
LEMMA ServedWork ==
    ASSUME TypeOK, Where, TableInv, Together, NeedsInv, FlagInv, ServedInv,
           AddRuntime \/ StartAdded \/ ApplyEnabled \/ SendToggle \/ SendRestart,
           NEW s \in Services, s = Svc, Calm(s)', Stays(s)', ctl'[s] # Nobody
    PROVE  ServedFor(s)'
<1>0. main.pc \in Walk /\ MainStep /\ ctl' = ctl /\ config' = config
  BY DEF AddRuntime, StartAdded, ApplyEnabled, SendToggle, SendRestart, Main, Walk, MainStep, shared
<1>1. AtIt(s)
  BY <1>0, WorkAtIt
<1>2. /\ "Start" \in Coming(s) => main.pc = "start" \/ (main.pc = "toggle" /\ main.new[s].on)
      /\ "Stop" \in Coming(s) => main.pc = "toggle" /\ main.new[s].on = FALSE
      /\ "Restart" \in Coming(s) <=> main.old[s] # Absent /\ main.old[s].def # main.new[s].def
      /\ Coming(s) \subseteq {"Start", "Stop", "Restart"}
  <2>1. Active(s) = {}
    BY <1>1 DEF AtIt
  <2> HIDE DEF Svc, Coming, Active
  <2> QED BY <1>0, <2>1, WorkComing
<1>3. main.new[s] \in Entries /\ main.new[s].on \in BOOLEAN
  <2>1. main.new[s] \in Entries
    BY <1>1, MainFields DEF AtIt, Configs
  <2> QED BY <2>1 DEF Entries
<1>4. CASE AddRuntime
  <2>1. main.at \in 1..Len(Order) /\ s = Order[main.at] /\ main.pc = "apply" /\ main.old[s] = Absent
    BY <1>0, <1>4, WalkMoves DEF Where, Svc
  <2>2. ~Passed(main.at)
    BY <2>1 DEF Passed
  <2>3. ctl[s] = Nobody
    BY <1>0, <2>1, <2>2 DEF Together
  <2> QED BY <1>0, <2>3
<1>5. CASE StartAdded
  <2>1. main.pc = "start" /\ mon' = Posted(s, "Start") /\ rt' = rt
    BY <1>5 DEF StartAdded, shared
  <2>2. main.new[s].on /\ main.old[s] = Absent
    BY <2>1 DEF NeedsInv
  <2>3. rt[s].on
    BY <1>1, <2>1, <2>2 DEF AtIt
  <2>4. Coming(s) \ {"Start"} \subseteq Coming(s)'
    <3> HIDE DEF Coming
    <3> QED BY <1>2, <2>1, <2>2
  <2> QED BY <1>0, <1>1, <2>1, <2>3, <2>4, ServedSent
<1>6. CASE SendToggle
  <2>1. main.pc = "toggle" /\ main'.pc = "definition" /\ SamePlace /\ rt' = rt
    BY <1>6, WalkMoves DEF SendToggle, shared
  <2> DEFINE msg == IF main.new[Svc].on THEN "Start" ELSE "Stop"
  <2>2. mon' = Posted(s, msg) /\ msg \in {"Start", "Stop", "Restart"}
    BY <1>6 DEF SendToggle
  <2>3. rt[s].on <=> msg # "Stop"
    BY <1>1, <2>1 DEF AtIt
  <2>4. Coming(s) \ {msg} \subseteq Coming(s)'
    <3>1. AtWork(s)
      BY <1>0 DEF AtWork
    <3>2. AtWork(s)'
      BY <1>0, <2>1, <3>1, SamePlaces DEF Walk
    <3>3. "Restart" \in Coming(s) => Remakes(s)'
      BY <1>2, <2>1, <3>2 DEF Remakes, SamePlace
    <3>4. "Restart" \in Coming(s) => "Restart" \in Coming(s)'
      BY <3>3, ComingNext
    <3>5. ("Start" \in Coming(s) => msg = "Start") /\ ("Stop" \in Coming(s) => msg = "Stop")
      <4> HIDE DEF Coming
      <4> QED BY <1>2, <2>1
    <3> HIDE DEF Coming, msg
    <3> QED BY <1>2, <3>4, <3>5
  <2> HIDE DEF msg
  <2> QED BY <1>0, <1>1, <2>1, <2>2, <2>3, <2>4, ServedSent
<1>7. CASE ApplyEnabled
  <2>1. main.pc = "apply" /\ main'.pc = "toggle" /\ SamePlace /\ mon' = mon
    BY <1>7, WalkMoves DEF ApplyEnabled
  <2>2. rt' = Enabled(s, main.new[s].on) /\ rt[s] # Absent
    BY <1>1, <1>7 DEF ApplyEnabled, AtIt
  <2>3. /\ rt'[s].on = main.new[s].on
        /\ main.new[s].on /\ rt[s].state \in {"Running", "Succeeded"} => rt'[s].state \in {"Running", "Succeeded"}
    BY <1>3, <2>2, EnabledFields
  <2>4. AtWork(s)'
    <3>1. AtWork(s)
      BY <1>0 DEF AtWork
    <3> QED BY <1>0, <2>1, <3>1, SamePlaces DEF Walk
  <2>5. /\ main.new[s].on => "Start" \in Coming(s)'
        /\ ~main.new[s].on => "Stop" \in Coming(s)'
        /\ "Restart" \in Coming(s) => "Restart" \in Coming(s)'
    <3>1. main.new[s].on => Sends(s, TRUE)'
      BY <1>3, <2>1, <2>4 DEF Sends, SamePlace
    <3>2. ~main.new[s].on => Sends(s, FALSE)'
      BY <1>3, <2>1, <2>4 DEF Sends, SamePlace
    <3>3. "Restart" \in Coming(s) => Remakes(s)'
      BY <1>2, <2>1, <2>4 DEF Remakes, SamePlace
    <3> QED BY <3>1, <3>2, <3>3, ComingNext
  <2>6. Alone(s) /\ Served(s, rt[s], config[s].def, mon[ctl[s]], Coming(s))
    BY <1>1 DEF AtIt
  <2>7. Served(s, rt'[s], config[s].def, mon[ctl[s]], Coming(s)')
    <3>1. "Stop" \notin Coming(s) /\ Coming(s) \subseteq Coming(s)'
      <4> HIDE DEF Coming
      <4> QED BY <1>2, <2>1, <2>5
    <3> HIDE DEF Coming
    <3> QED BY <2>3, <2>5, <2>6, <3>1, ServedFlag
  <2>8. Served(s, rt[s], config[s].def, mon[ctl[s]], Coming(s))'
    BY <1>0, <2>1, <2>7
  <2>9. Alone(s)'
    BY <1>0, <2>1, <2>6 DEF Alone
  <2> QED BY <2>8, <2>9 DEF ServedFor
<1>8. CASE SendRestart
  <2>1. /\ rt' = rt
        /\ mon' = IF main.old[s].def # main.new[s].def /\ main.new[s].on THEN Posted(s, "Restart") ELSE mon
        /\ main.pc = "definition" \/ (main.pc = "apply" /\ main.old[s] # Absent /\ main.old[s].on = main.new[s].on)
    BY <1>8 DEF SendRestart, RestartChanged, shared
  <2>2. rt[s].on = main.new[s].on
    BY <1>1, <2>1 DEF AtIt
  <2>3. CASE main.old[s].def # main.new[s].def /\ main.new[s].on
    <3>1. Coming(s) \ {"Restart"} \subseteq Coming(s)'
      <4> HIDE DEF Coming
      <4> QED BY <1>2, <2>1
    <3>2. rt[s].on <=> "Restart" # "Stop"
      BY <2>2, <2>3
    <3>3. mon' = Posted(s, "Restart")
      BY <2>1, <2>3
    <3> QED BY <1>0, <1>1, <2>1, <3>1, <3>2, <3>3, ServedSent
  <2>4. CASE ~(main.old[s].def # main.new[s].def /\ main.new[s].on)
    <3>1. mon' = mon /\ Alone(s) /\ Served(s, rt[s], config[s].def, mon[ctl[s]], Coming(s))
      BY <1>1, <2>1, <2>4 DEF AtIt
    <3>2. "Start" \notin Coming(s) /\ "Stop" \notin Coming(s)
      BY <1>2, <2>1
    <3>3. Served(s, rt[s], config[s].def, mon[ctl[s]], Coming(s)')
      <4>1. CASE main.new[s].on
        <5>1. Coming(s) \subseteq Coming(s)'
          <6> HIDE DEF Coming
          <6> QED BY <1>2, <2>4, <3>2, <4>1
        <5> HIDE DEF Coming
        <5> QED BY <3>1, <5>1, ServedMore
      <4>2. CASE ~main.new[s].on
        <5>1. Coming(s) \ {"Restart"} \subseteq Coming(s)'
          <6> HIDE DEF Coming
          <6> QED BY <1>2, <3>2
        <5>2. mon[ctl[s]].queue \in Seq(Msgs)
          BY <1>1 DEF AtIt, TypeOK, Monitor
        <5> HIDE DEF Coming
        <5> QED BY <2>2, <3>1, <3>2, <4>2, <5>1, <5>2, ServedDisabled
      <4> QED BY <4>1, <4>2
    <3>4. Served(s, rt[s], config[s].def, mon[ctl[s]], Coming(s))'
      BY <1>0, <2>1, <3>1, <3>3
    <3>5. Alone(s)'
      BY <1>0, <3>1 DEF Alone
    <3> QED BY <3>4, <3>5 DEF ServedFor
  <2> QED BY <2>3, <2>4
<1> QED BY <1>4, <1>5, <1>6, <1>7, <1>8

\* A new monitor is alone, unless an earlier one is still there.
LEMMA ServedSpawn ==
    ASSUME TypeOK, Where, TableInv, Together, NeedsInv, FlagInv, FreshInv, NEW m \in Monitors, SpawnMonitor(m),
           NEW s \in Services, s = Svc, Calm(s)'
    PROVE  ServedFor(s)'
<1>0. MainStep /\ main.pc = "spawn" /\ main.pc \in Walk /\ rt' = rt /\ config' = config
  BY DEF MainStep, SpawnMonitor, Walk
<1>1. FlagFor(s) /\ Calm(s) /\ Active(s) = {} /\ ~Asked(s)
  BY <1>0, CalmMain DEF FlagInv
<1>2. main.new[s] # Absent /\ ~Ahead(s)
  <2> HIDE DEF Svc
  <2> QED BY <1>0, WorkPlace
<1>3. config[s] = main.new[s] /\ rt[s] # Absent /\ main.new[s].on \in BOOLEAN
  <2>1. config[s] = main.new[s]
    BY <1>0, <1>1 DEF FlagFor
  <2>2. rt[s] # Absent
    <3>1. main.at \in 1..Len(Order) /\ s = Order[main.at]
      BY <1>0 DEF Where, Svc
    <3> QED BY <1>0, <3>1 DEF Together
  <2>3. main.new[s] \in Entries
    BY <1>2, MainFields DEF Configs
  <2> QED BY <2>1, <2>2, <2>3 DEF Entries
<1>4. rt[s].on = main.new[s].on
  <2>1. ~Before(s)
    BY <1>0, <1>2 DEF Before
  <2> QED BY <1>1, <1>2, <1>3, <2>1 DEF FlagFor
<1>5. main.new[s].on => "Start" \in Coming(s)'
  <2>1. main.new[s].on => main'.pc = "start" /\ SamePlace
    BY WalkMoves
  <2>2. AtWork(s) /\ (main.new[s].on => AtWork(s)')
    BY <1>0, <2>1, SamePlaces DEF AtWork, Walk
  <2>3. main.new[s].on => Sends(s, TRUE)'
    BY <2>1, <2>2 DEF Sends
  <2> QED BY <2>3, ComingNext
<1>6. /\ mon[m] \in Monitor /\ mon[m].pc = "unborn" /\ mon[m].queue = <<>> /\ mon[m].runs = Absent
      /\ ~mon[m].tracked
  BY DEF SpawnMonitor, TypeOK, Where
<1>7. /\ mon'[m].pc = "idle" /\ mon'[m].queue = <<>> /\ mon'[m].runs = Absent /\ ~mon'[m].tracked
      /\ \A n \in Monitors : n # m => mon'[n] = mon[n]
  <2>1. mon' = [mon EXCEPT ![m].svc = Svc, ![m].pc = "idle"]
    BY DEF SpawnMonitor
  <2> QED BY <1>6, <2>1 DEF TypeOK, Monitor
<1>8. ctl'[s] = m
  BY DEF SpawnMonitor, TypeOK
<1>9. /\ \A n \in Monitors : mon[n].svc = s => mon[n].pc = "dead"
      /\ ~rt[s].on => rt[s].state = "Disabled"
  BY <1>0, <1>1 DEF FreshInv, FreshFor
<1>10. Alone(s)'
  BY <1>7, <1>8, <1>9 DEF Alone
<1>11. Served(s, rt[s], config[s].def, mon'[m], Coming(s)')
  <2> HIDE DEF Coming
  <2> QED BY <1>3, <1>4, <1>5, <1>7, <1>9 DEF Served, Off, On, Right, Shown
<1>12. Served(s, rt[s], config[s].def, mon[ctl[s]], Coming(s))'
  BY <1>0, <1>8, <1>11
<1> QED BY <1>10, <1>12 DEF ServedFor

\* Who is in the table has a runtime.
LEMMA TableRuntime ==
    ASSUME TypeOK, TableInv, Together, NEW s \in Services, ctl[s] # Nobody
    PROVE  rt[s] # Absent
<1>1. config[s] # Absent
  BY DEF TableInv
<1>2. CASE main.pc \in {"idle", "override", "clone"}
  BY <1>1, <1>2 DEF Together
<1>3. CASE main.pc \in {"remove", "quit", "drop", "replace"}
  BY <1>3 DEF Together
<1>4. CASE main.pc \in Walk
  <2>1. PICK i \in 1..Len(Order) : Order[i] = s
    BY OrderFacts
  <2> QED BY <1>4, <2>1 DEF Together
<1> QED BY <1>2, <1>3, <1>4 DEF TypeOK, MainThread, Walk

\* A step of the monitor in the table.
LEMMA ServedTurn ==
    ASSUME TypeOK, Where, TableInv, Together, NeedsInv, WaitInv, NEW s \in Services, Stays(s),
           ctl[s] # Nobody, MonitorStep(ctl[s]),
           Served(s, rt[s], config[s].def, mon[ctl[s]], Coming(s))
    PROVE  Served(s, rt'[s], config[s].def, mon'[ctl[s]], Coming(s))
<1> DEFINE m == ctl[s]
           d == config[s].def
<1>0. m \in Monitors /\ mon[m].svc = s /\ mon[m] \in Monitor /\ rt[s] # Absent
  BY TableRuntime DEF TypeOK, TableInv
<1>1. mon[m].queue \in Seq(Msgs) /\ mon[m].pc \notin {"unborn", "dead", "quit"} /\ NoQuit(mon[m].queue)
  BY <1>0 DEF TableInv, Monitor, NoQuit
<1>2. config[s] # Absent /\ d # Absent
  <2>1. config[s] # Absent /\ config[s] \in Entries
    BY DEF Stays, TypeOK, Configs
  <2> QED BY <2>1, MarkAssumption DEF Entries
<1>3. rt'[s].on <=> rt[s].on
  BY <1>0, MonitorRuntimes
<1> HIDE DEF m, d, Coming
<1>4. Served(s, rt[s], d, mon[m], Coming(s)) /\ MonitorStep(m)
  BY DEF m, d
<1>5. CASE RecvGone(m)
  BY <1>0, <1>2, <1>5 DEF RecvGone, Configured
<1>6. CASE Recv(m)
  <2>1. mon[m].pc = "idle" /\ mon[m].queue # <<>>
    BY <1>6 DEF Recv
  <2>2. Head(mon[m].queue) # "Quit"
    BY <1>1, <2>1, NoQuitFacts
  <2>3. /\ mon'[m].pc = Takes(m) /\ mon'[m].queue = Tail(mon[m].queue) /\ mon'[m].runs = mon[m].runs
        /\ mon'[m].tracked = mon[m].tracked /\ mon'[m].fell = mon[m].fell
        /\ mon'[m].def = IF Takes(m) = "idle" THEN mon[m].def ELSE d
        /\ Takes(m) # "stop" => rt' = rt
    BY <1>0, <1>6, RecvFacts DEF Turns, d
  <2>4. \/ Head(mon[m].queue) = "Stop" /\ mon'[m].pc = "stop"
        \/ /\ Head(mon[m].queue) = "Restart" /\ mon'[m].pc = "restart" /\ mon'[m].def = d
           /\ rt'[s].state = rt[s].state
        \/ /\ Head(mon[m].queue) = "Start" /\ mon'[m].pc = "start"
           /\ mon'[m].def = d /\ rt'[s].state = rt[s].state
        \/ /\ Head(mon[m].queue) = "Start" /\ mon[m].tracked /\ mon'[m].pc = "idle"
           /\ mon'[m].def = mon[m].def /\ rt'[s].state = rt[s].state
    <3>1. \/ Head(mon[m].queue) = "Stop" /\ Takes(m) = "stop"
          \/ Head(mon[m].queue) = "Restart" /\ Takes(m) = "restart"
          \/ Head(mon[m].queue) = "Start" /\ mon[m].tracked /\ Takes(m) = "idle"
          \/ Head(mon[m].queue) = "Start" /\ ~mon[m].tracked /\ Takes(m) = "start"
      BY <1>0, <2>1, <2>2, TakesFacts
    <3> QED BY <2>3, <3>1
  <2>5. Served(s, rt'[s], d, mon'[m], Coming(s))
    BY <1>1, <1>2, <1>3, <1>4, <2>1, <2>3, <2>4, ServedRecv
  <2> QED BY <2>5 DEF m, d
<1>7. CASE Stopped(m)
  <2>1. /\ mon'[m].runs = Absent /\ mon'[m].tracked = FALSE /\ mon'[m].queue = mon[m].queue
        /\ \/ /\ mon[m].pc = "stop" /\ mon'[m].pc = "idle"
              /\ rt' = InState(s, IF rt[s] # Absent /\ ~rt[s].on THEN "Disabled" ELSE "Stopped")
           \/ mon[m].pc \in {"restart", "probe"} /\ mon'[m].pc = "start" /\ mon'[m].def = mon[m].def
    BY <1>0, <1>1, <1>7, StoppedFacts DEF Turns
  <2>2. mon[m].pc = "stop" /\ ~rt[s].on => rt'[s].state = "Disabled"
    <3>1. "Disabled" \in States
      BY DEF States
    <3>2. mon[m].pc = "stop" /\ ~rt[s].on => rt' = InState(s, "Disabled")
      BY <1>0, <2>1
    <3> QED BY <1>0, <3>1, <3>2, StateFields
  <2>3. Served(s, rt'[s], d, mon'[m], Coming(s))
    BY <1>3, <1>4, <2>1, <2>2, ServedStopped
  <2> QED BY <2>3 DEF m, d
<1>8. CASE RestartScript(m) \/ \E tracked \in BOOLEAN : Start(m, tracked)
  <2>1. /\ mon[m].pc \in {"start", "restart"} /\ mon'[m].pc = "idle" /\ mon'[m].queue = mon[m].queue
        /\ mon'[m].runs = mon[m].def /\ \E q \in {"Running", "Succeeded"} : rt' = InState(s, q)
    BY <1>0, <1>8, StartFacts DEF Turns, RestartScript, Start
  <2>2. rt'[s].state \in {"Running", "Succeeded"}
    <3>1. {"Running", "Succeeded"} \subseteq States
      BY DEF States
    <3> QED BY <1>0, <2>1, <3>1, StateFields
  <2>3. Served(s, rt'[s], d, mon'[m], Coming(s))
    BY <1>3, <1>4, <2>1, <2>2, ServedStart
  <2> QED BY <2>3 DEF m, d
<1>9. CASE NoStart(m) \/ StartFails(m)
  <2>1. /\ mon[m].pc = "start" /\ mon'[m].pc = "idle" /\ mon'[m].queue = mon[m].queue
        /\ mon'[m].runs = Absent /\ mon'[m].tracked = FALSE
    BY <1>0, <1>9, StartFacts DEF Turns, NoStart, StartFails
  <2>2. {"Failed", "WaitingForDependency"} \subseteq States
    BY DEF States
  <2>3. rt[s].on => Down(s, rt'[s], mon'[m])
    <3>1. CASE StartFails(m)
      <4>0. rt' = InState(s, "Failed") /\ mon'[m].fell = TRUE /\ "Failed" \in States
        BY <1>0, <2>2, <3>1, StartFacts DEF Turns
      <4>1. rt'[s].state = "Failed" /\ mon'[m].fell
        BY <1>0, <4>0, StateFields
      <4> QED BY <4>1 DEF Down
    <3>2. CASE NoStart(m) /\ rt[s].on
      <4>0. rt' = InState(s, StartState(s)) /\ StartState(s) \in {"Failed", "WaitingForDependency"}
        BY <1>0, <3>2, StartFacts
      <4>1. rt'[s].state = StartState(s) /\ StartState(s) \in {"Failed", "WaitingForDependency"}
        BY <1>0, <2>2, <4>0, StateFields
      <4>2. ASSUME StartState(s) = "Failed" PROVE Excused(s)
        <5>1. \E e \in Deps[s] : rt[e] = Absent
          BY <1>0, <3>2, <4>2 DEF StartState
        <5> QED BY <5>1, MissingListed DEF Excused
      <4> QED BY <4>1, <4>2 DEF Down
    <3> QED BY <1>9, <3>1, <3>2
  <2>4. Served(s, rt'[s], d, mon'[m], Coming(s))
    BY <1>3, <1>4, <2>1, <2>3, ServedNoStart
  <2> QED BY <2>4 DEF m, d
<1>10. CASE Retry(m) \/ ProbeFails(m)
  <2>1. mon[m].pc = "idle" /\ rt[s].on
    BY <1>0, <1>10 DEF Retry, ProbeFails, WaitInv
  <2>2. /\ mon'[m].queue = mon[m].queue /\ mon'[m].def = d /\ mon'[m].runs = mon[m].runs
        /\ mon'[m].tracked = mon[m].tracked
        /\ (mon'[m].pc = "start" /\ rt'[s].state = rt[s].state) \/ mon'[m].pc = "probe"
    BY <1>0, <1>10, PollFacts DEF Turns, d
  <2>3. Served(s, rt'[s], d, mon'[m], Coming(s))
    BY <1>2, <1>3, <1>4, <2>1, <2>2, ServedRetry
  <2> QED BY <2>3 DEF m, d
<1>11. CASE ExitRestart(m) \/ \E q \in {"Succeeded", "Failed"} : ExitEnds(m, q)
  <2>1. mon[m].pc = "idle" /\ mon[m].queue = <<>> /\ mon[m].tracked
    BY <1>11 DEF ExitRestart, ExitEnds
  <2>2. mon'[m].queue = mon[m].queue /\ mon'[m].runs = Absent /\ mon'[m].tracked = FALSE
    BY <1>0, <1>11, PollFacts DEF Turns
  <2>3. ExitRestart(m) => mon'[m].pc = "start" /\ mon'[m].def = d /\ rt[s].on
    BY <1>0, PollFacts DEF Turns, ExitRestart, d
  <2>4. ASSUME NEW q \in {"Succeeded", "Failed"}, ExitEnds(m, q)
        PROVE  mon'[m].pc = "idle" /\ Down(s, rt'[s], mon'[m])
    <3>1. mon'[m].pc = "idle" /\ mon'[m].fell /\ rt' = InState(s, q)
      BY <1>0, <1>2, <2>1, <2>4, PollFacts DEF Turns, Configured
    <3>2. rt'[s].state = q
      <4>1. q \in States
        BY DEF States
      <4> QED BY <1>0, <3>1, <4>1, StateFields
    <3> QED BY <3>1, <3>2 DEF Down
  <2>5. Served(s, rt'[s], d, mon'[m], Coming(s))
    BY <1>2, <1>3, <1>4, <1>11, <2>1, <2>2, <2>3, <2>4, ServedExit
  <2> QED BY <2>5 DEF m, d
<1> QED BY <1>4, <1>5, <1>6, <1>7, <1>8, <1>9, <1>10, <1>11 DEF MonitorStep

\* The monitors.
LEMMA ServedMonitor ==
    ASSUME TypeOK, Where, TableInv, Together, NeedsInv, WaitInv, ServedInv, NEW m \in Monitors, MonitorStep(m)
    PROVE  ServedInv'
<1> SUFFICES ASSUME NEW s \in Services, Calm(s)', Stays(s)', ctl'[s] # Nobody PROVE ServedFor(s)'
  BY DEF ServedInv, ServedFor
<1>1. UNCHANGED <<config, ctl, main, cl, hist>> /\ mon[m].pc # "dead"
  BY MonitorFacts
<1>2. Calm(s) /\ Stays(s) /\ ServedFor(s)
  BY <1>1 DEF Calm, Stays, ServedInv
<1>3. Alone(s) /\ Served(s, rt[s], config[s].def, mon[ctl[s]], Coming(s))
  BY <1>1, <1>2 DEF ServedFor
<1>4. Coming(s) \subseteq Coming(s)'
  <2>1. Active(s)' = Active(s)
    BY <1>1 DEF Active
  <2> HIDE DEF Coming
  <2> QED BY <1>1, <2>1, ComingSame
<1>5. mon'[m].svc = mon[m].svc /\ \A n \in Monitors : n # m => mon'[n] = mon[n]
  BY MonitorFacts
<1>6. CASE s # mon[m].svc
  <2>1. rt'[s] = rt[s]
    BY <1>6, MonitorRuntimes
  <2>2. ctl[s] \in Monitors /\ ctl[s] # m
    BY <1>1, <1>6 DEF TableInv, TypeOK
  <2>3. NoneBorn(s)
    BY <1>5, <1>6 DEF NoneBorn
  <2> QED BY <1>1, <1>2, <1>4, <1>5, <2>1, <2>2, <2>3, ServedFrame
<1>7. CASE s = mon[m].svc
  <2>1. m = ctl[s]
    BY <1>1, <1>3, <1>7 DEF Alone
  <2>2. Served(s, rt'[s], config[s].def, mon'[ctl[s]], Coming(s))
    BY <1>1, <1>2, <1>3, <2>1, ServedTurn
  <2>3. Served(s, rt'[s], config[s].def, mon'[ctl[s]], Coming(s)')
    <3> HIDE DEF Coming
    <3> QED BY <1>4, <2>2, ServedMore
  <2>4. Served(s, rt[s], config[s].def, mon[ctl[s]], Coming(s))'
    BY <1>1, <2>3
  <2>5. Alone(s)'
    BY <1>1, <1>3, <1>5, <2>1 DEF Alone
  <2> QED BY <2>4, <2>5 DEF ServedFor
<1> QED BY <1>6, <1>7

\* Every step.
LEMMA ServedStep ==
    ASSUME TypeOK, Where, TableInv, Together, NeedsInv, WaitInv, FlagInv, FreshInv, ServedInv, [Next]_vars
    PROVE  ServedInv'
<1>1. CASE UNCHANGED <<config, rt, ctl, mon, main, cl, hist>>
  <2> SUFFICES ASSUME NEW s \in Services, Calm(s)', Stays(s)', ctl'[s] # Nobody PROVE ServedFor(s)'
    BY DEF ServedInv, ServedFor
  <2>1. Calm(s) /\ Stays(s) /\ ServedFor(s)
    BY <1>1 DEF Calm, Stays, ServedInv
  <2>2. Active(s)' = Active(s)
    BY <1>1 DEF Active
  <2>3. Coming(s) \subseteq Coming(s)'
    BY <1>1, <2>2, ComingSame
  <2>4. NoneBorn(s)
    BY <1>1 DEF NoneBorn
  <2> QED BY <1>1, <2>1, <2>3, <2>4, ServedFrame
<1>2. UNCHANGED vars \/ Signal \/ (\E s \in Services, e \in Entries \cup {Absent} : Edit(s, e))
         => UNCHANGED <<config, rt, ctl, mon, main, cl, hist>>
  BY DEF vars, Signal, Edit, shared
<1>3. CASE MainStep
  <2>1. CASE main.pc \in Walk
    <3> SUFFICES ASSUME NEW s \in Services, Calm(s)', Stays(s)', ctl'[s] # Nobody PROVE ServedFor(s)'
      BY DEF ServedInv, ServedFor
    <3>1. CASE s # Svc
      BY <1>3, <2>1, <3>1, ServedElsewhere
    <3>2. CASE s = Svc
      <4>1. AddRuntime \/ ApplyEnabled \/ SendToggle \/ StartAdded \/ SendRestart \/ \E m \in Monitors : SpawnMonitor(m)
        BY <1>3, <2>1 DEF MainStep, LoadFiles, LoadOverride, CloneOld, RemoveStop, RemoveQuit, RemoveDrop,
           Replace, Main, Walk
      <4> QED BY <3>2, <4>1, ServedWork, ServedSpawn
    <3> QED BY <3>1, <3>2
  <2>2. CASE main.pc \notin Walk
    <3>1. \/ LoadFiles \/ LoadOverride \/ CloneOld \/ Replace
          \/ (\E s \in Services : RemoveStop(s)) \/ RemoveQuit \/ RemoveDrop
      BY <1>3, <2>2, WalkMoves DEF MainStep, Walk
    <3> QED BY <3>1, ServedLoad, ServedReplace
  <2> QED BY <2>1, <2>2
<1> QED BY <1>1, <1>2, <1>3, ServedClient, ServedMonitor DEF Next

\* The invariants together say at rest what Applied says.
LEMMA RestApplied ==
    ASSUME TypeOK, Where, TableInv, Together, NeedsInv, FlagInv, ServedInv, AtRest
    PROVE  Applied
<1>1. /\ main.pc = "idle" /\ \A c \in Clients : cl[c].pc = "idle"
      /\ \A m \in Monitors : /\ mon[m].pc \in {"unborn", "idle", "dead"}
                             /\ mon[m].queue = <<>> /\ ~Retriable(m)
  BY DEF AtRest
<1>2. ASSUME NEW s \in Services, config[s] # Absent
      PROVE  /\ rt[s] # Absent /\ ctl[s] \in Monitors /\ ctl[s] # Nobody
             /\ mon[ctl[s]].svc = s /\ mon[ctl[s]].pc = "idle" /\ mon[ctl[s]].queue = <<>>
  <2>1. rt[s] # Absent /\ ctl[s] # Nobody /\ ctl[s] \in Monitors
    BY <1>1, <1>2 DEF Together, TypeOK
  <2> QED BY <1>1, <2>1 DEF TableInv
<1>3. ASSUME NEW s \in Services, config[s] # Absent, Calm(s)
      PROVE  /\ rt[s].on = config[s].on
             /\ Served(s, rt[s], config[s].def, mon[ctl[s]], {})
  <2>1. Active(s) = {}
    BY <1>1 DEF Active
  <2>2. ~Asked(s)
    BY <2>1 DEF Asked
  <2>3. ~AtWork(s) /\ ~Ahead(s) /\ ~Before(s)
    BY <1>1 DEF AtWork, Ahead, Before, Walk
  <2>4. rt[s].on = config[s].on
    BY <1>2, <1>3, <2>2, <2>3 DEF FlagInv, FlagFor
  <2>5. Coming(s) = {}
    <3> HIDE DEF Coming, Active
    <3> QED BY <2>1, <2>3, NothingComing
  <2>6. Stays(s)
    BY <1>1, <1>3 DEF Stays, Unplaced
  <2>7. Served(s, rt[s], config[s].def, mon[ctl[s]], Coming(s))
    BY <1>2, <1>3, <2>6 DEF ServedInv, ServedFor
  <2> QED BY <2>4, <2>5, <2>7
<1>4. ~Holds(<<>>, {"Stop"}) /\ ~Holds(<<>>, {"Stop", "Restart"})
  BY DEF Holds
<1>5. ASSUME NEW s \in Services, config[s] # Absent, Calm(s)
      PROVE  LET m == mon[ctl[s]] IN
             /\ m.tracked => m.runs # Absent
             /\ ~rt[s].on => m.runs = Absent /\ rt[s].state = "Disabled"
             /\ m.runs \in {Absent, config[s].def}
             /\ m.runs = Absent \/ rt[s].state \in {"Running", "Succeeded"}
             /\ rt[s].on /\ m.runs = Absent => Down(s, rt[s], m)
  <2>1. /\ mon[ctl[s]].pc = "idle" /\ mon[ctl[s]].queue = <<>>
        /\ Served(s, rt[s], config[s].def, mon[ctl[s]], {})
    BY <1>2, <1>3, <1>5
  <2> QED BY <1>4, <2>1 DEF Served, Off, On, Right, Shown
<1>6. ASSUME NEW s \in Services, config[s] # Absent, ~mon[ctl[s]].tracked,
             rt[s].state = "WaitingForDependency"
      PROVE  \E d \in Deps[s] : ~Up(d)
  <2>1. PICK d \in Deps[s] : ~(rt[d] # Absent /\ Up(d))
    BY <1>1, <1>2, <1>6 DEF Retriable, Configured
  <2>2. d \in Services /\ config[d] # Absent
    BY <1>6, DepsAssumption DEF NeedsInv, Valid
  <2> QED BY <1>2, <2>1, <2>2
<1>7. ASSUME NEW s \in Services, config[s] # Absent, Calm(s)
      PROVE  LET m == mon[ctl[s]] IN
             /\ rt[s].on = config[s].on
             /\ ~config[s].on => m.runs = Absent /\ ~m.tracked /\ rt[s].state = "Disabled"
             /\ config[s].on =>
                   \/ m.runs = config[s].def /\ Up(s)
                   \/ /\ m.runs = Absent /\ ~m.tracked
                      /\ \/ rt[s].state \in {"Succeeded", "Failed"} /\ m.fell
                         \/ rt[s].state = "WaitingForDependency" /\ \E d \in Deps[s] : ~Up(d)
                         \/ rt[s].state = "Failed" /\ \E d \in Deps[s] : ListedAfter(d, s)
  <2> DEFINE m == mon[ctl[s]]
  <2>1. /\ m.tracked => m.runs # Absent
        /\ ~rt[s].on => m.runs = Absent /\ rt[s].state = "Disabled"
        /\ m.runs \in {Absent, config[s].def}
        /\ m.runs = Absent \/ rt[s].state \in {"Running", "Succeeded"}
        /\ rt[s].on /\ m.runs = Absent => Down(s, rt[s], m)
    BY <1>5, <1>7
  <2>2. rt[s].on = config[s].on
    BY <1>3, <1>7
  <2>3. ~m.tracked /\ rt[s].state = "WaitingForDependency" => \E d \in Deps[s] : ~Up(d)
    BY <1>6, <1>7
  <2>4. config[s].def # Absent
    <3>1. config[s] \in Entries
      BY <1>7 DEF TypeOK, Configs
    <3> QED BY <3>1, MarkAssumption DEF Entries
  <2>5. rt[s].state \in {"Running", "Succeeded"} => Up(s)
    BY DEF Up
  <2> HIDE DEF m
  <2>6. CASE m.runs = Absent
    BY <2>1, <2>2, <2>3, <2>6 DEF m, Down, Excused
  <2>7. CASE m.runs # Absent
    BY <2>1, <2>2, <2>5, <2>7 DEF m
  <2> QED BY <2>6, <2>7
<1> QED BY <1>7 DEF Applied

\* What holds at the start.
LEMMA InitServed ==
    ASSUME Init, TypeOK, Where, TableInv, Together
    PROVE  NeedsInv /\ WaitInv /\ FlagInv /\ FreshInv /\ ServedInv
<1>1. /\ config = disk /\ Valid(disk) /\ main.pc = "idle" /\ \A c \in Clients : cl[c].pc = "idle"
  BY DEF Init
<1>2. \A s \in Services : disk[s] # Absent => disk[s].on = TRUE
  BY DEF Init
<1>3. \A s \in Services : rt[s] # Absent => rt[s].on = TRUE /\ rt[s].state = "Running"
  BY DEF Init
<1>4. NeedsInv
  BY <1>1 DEF NeedsInv, Unplaced, Walk
<1>5. WaitInv
  BY <1>3 DEF WaitInv
<1>6. \A s \in Services : Active(s) = {}
  BY <1>1 DEF Active
<1>7. \A s \in Services : ~AtWork(s) /\ ~Ahead(s) /\ ~Before(s)
  BY <1>1 DEF AtWork, Ahead, Before, Walk
<1>8. FlagInv
  <2> HIDE DEF Active
  <2> QED BY <1>1, <1>2, <1>3, <1>6, <1>7 DEF FlagInv, FlagFor, Walk
<1>9. ASSUME NEW s \in Services, ctl[s] # Nobody, config[s] # Absent PROVE ServedFor(s)
  <2>1. disk[s] # Absent
    BY <1>1, <1>9
  <2>2. ctl[s] \in 1..Len(Order) /\ Order[ctl[s]] = s /\ ctl[s] \in Monitors
    <3>1. ctl[s] = CHOOSE i \in 1..Len(Order) : Order[i] = s
      BY <2>1 DEF Init
    <3> QED BY <3>1, OrderFacts, MonitorsAssumption
  <2>3. \A m \in Monitors : mon[m].svc = s => m \in 1..Len(Order) /\ Order[m] = s
    <3>1. s # Nobody
      BY NobodyAssumption
    <3>2. \A m \in Monitors : mon[m].svc \in {Nobody, Order[m]} /\ (mon[m].svc # Nobody => m <= Len(Order))
      BY DEF Init
    <3>3. \A m \in Monitors : m \in Nat /\ m >= 1
      BY MonitorsAssumption, FS_CardinalityType
    <3> QED BY <3>1, <3>2, <3>3, OrderFacts
  <2>4. Alone(s)
    BY <2>2, <2>3, OrderFacts DEF Alone
  <2>5. /\ mon[ctl[s]].pc = "idle" /\ mon[ctl[s]].queue = <<>> /\ mon[ctl[s]].runs = config[s].def
    <3>1. ctl[s] <= Len(Order) /\ disk[Order[ctl[s]]] # Absent
      BY <2>1, <2>2, OrderFacts
    <3> QED BY <1>1, <2>2, <3>1 DEF Init
  <2>6. config[s].def # Absent
    <3>1. config[s] \in Entries
      BY <1>9 DEF TypeOK, Configs
    <3> QED BY <3>1, MarkAssumption DEF Entries
  <2>7. rt[s].on = TRUE /\ rt[s].state = "Running"
    BY <1>3, <1>9, TableRuntime
  <2>8. Served(s, rt[s], config[s].def, mon[ctl[s]], Coming(s))
    <3> HIDE DEF Coming
    <3> QED BY <2>5, <2>6, <2>7 DEF Served, Off, On, Right, Shown
  <2> QED BY <2>4, <2>8 DEF ServedFor
<1>10. ServedInv
  BY <1>9 DEF ServedInv, ServedFor, Stays
<1>11. FreshInv
  BY <1>1 DEF FreshInv
<1> QED BY <1>4, <1>5, <1>8, <1>10, <1>11

\* Reload carries the configuration out: at rest a calm service has the
\* configured flag, and runs the configured definition or nothing, for a reason.
THEOREM AppliedHolds == Spec => []Applied
<1> DEFINE Base == TypeOK /\ Where /\ TableBorn
           Table == TableInv /\ Together
           Inv == NeedsInv /\ WaitInv /\ FlagInv /\ FreshInv /\ ServedInv
<1>1. Init /\ Base /\ Table => Inv
  BY InitServed
<1>2. Base /\ Table /\ Inv /\ [Next]_vars => Inv'
  BY NeedsStep, WaitStep, FlagStep, FreshStep, ServedStep
<1>3. Base /\ Table /\ Inv => Applied
  BY RestApplied DEF Applied
<1> HIDE DEF Base, Table, Inv
<1>4. Spec => []Base
  BY TypeCorrect DEF Base
<1>5. Spec => []Table
  BY TableHolds DEF Table
<1> QED BY <1>1, <1>2, <1>3, <1>4, <1>5, PTL DEF Spec
====
