----------------------------- MODULE ExitRegistry -----------------------------
(****************************************************************************)
(* How the exit of a child reaches the thread that waits for it             *)
(* (src/reaper.rs, reap_zombies of src/signals.rs, wait_via_registry of     *)
(* src/service.rs).  Two threads reap: the reaper thread and init's main    *)
(* loop.  Each collects a batch with waitpid(-1), which frees the pids,     *)
(* and only then publishes it entry by entry in a map keyed by pid.         *)
(*                                                                          *)
(* Besides the children that some thread waits for, PID 1 inherits orphans, *)
(* whose exits are published and taken by nobody.  An exit code is modelled *)
(* by the number of the process it belongs to.                              *)
(****************************************************************************)
EXTENDS Naturals, Sequences, FiniteSets

CONSTANTS
    Pids,
    Waiters,     \* threads that spawn a child and wait for it
    Reapers,     \* threads that call reap_zombies and publish
    Cap,         \* MAX_EXIT_REGISTRY_ENTRIES
    MaxSpawns,   \* bound: processes in one behaviour
    NoPid

ASSUME BoundAssumption == Cap \in Nat \ {0} /\ MaxSpawns \in Nat
ASSUME NoPidAssumption == NoPid \notin Pids

VARIABLES
    proc,     \* the process that holds a pid, 0 if the pid is free
    zombies,  \* pids whose process ended and was not waited for
    count,    \* processes so far: each gets the next number
    exits,    \* ExitRegistry.exits: a process number, 0 if there is no entry
    batch,    \* of each reaper: what reap_zombies collected
    mode,     \* of each reaper: "reap" or "publish"
    pc,       \* of each waiter: idle, wait, kill (after the timeout), got
    pid,      \* of each waiter: the pid it waits for
    mine,     \* history: the process it spawned
    code,     \* what wait_take returned
    evicted,  \* history: an entry was dropped to make room
    over      \* history: waiters whose pid had an entry in the map at the fork

kernelVars == <<proc, zombies, count>>
reaperVars == <<batch, mode>>
waiterVars == <<pc, pid, mine, code>>
history == <<evicted, over>>
vars == <<kernelVars, exits, reaperVars, waiterVars, history>>

Procs == 1..MaxSpawns

\* Every variable has its type, and the registry respects its cap.
TypeOK ==
    /\ proc \in [Pids -> Procs \cup {0}]
    /\ zombies \in SUBSET Pids
    /\ count \in 0..MaxSpawns
    /\ exits \in [Pids -> Procs \cup {0}]
    /\ Cardinality({p \in Pids : exits[p] # 0}) <= Cap
    /\ batch \in [Reapers -> Seq(Pids \X Procs)]
    /\ mode \in [Reapers -> {"reap", "publish"}]
    /\ pc \in [Waiters -> {"idle", "wait", "kill", "got"}]
    /\ pid \in [Waiters -> Pids \cup {NoPid}]
    /\ mine \in [Waiters -> Procs \cup {0}]
    /\ code \in [Waiters -> Procs \cup {0}]
    /\ evicted \in BOOLEAN
    /\ over \in SUBSET Waiters

Init ==
    /\ proc = [p \in Pids |-> 0]
    /\ zombies = {}
    /\ count = 0
    /\ exits = [p \in Pids |-> 0]
    /\ batch = [r \in Reapers |-> <<>>]
    /\ mode = [r \in Reapers |-> "reap"]
    /\ pc = [w \in Waiters |-> "idle"]
    /\ pid = [w \in Waiters |-> NoPid]
    /\ mine = [w \in Waiters |-> 0]
    /\ code = [w \in Waiters |-> 0]
    /\ evicted = FALSE
    /\ over = {}

----------------------------------------------------------------------------
(* The kernel.                                                              *)

InBatch(p) == \E r \in Reapers : \E i \in 1..Len(batch[r]) : batch[r][i][1] = p

Holds(w, p) == pc[w] \in {"wait", "kill"} /\ pid[w] = p

\* The kernel hands pids out in a cycle: a number comes back only after a whole
\* round, so not while a reaper carries its exit or a thread waits for it, both
\* of which are short.  An entry that nobody takes stays in the map for ever,
\* and the number may come back while it is there.
Fork(p) ==
    /\ count < MaxSpawns
    /\ proc[p] = 0
    /\ ~InBatch(p)
    /\ \A w \in Waiters : ~Holds(w, p)
    /\ proc' = [proc EXCEPT ![p] = count + 1]
    /\ count' = count + 1
    /\ UNCHANGED zombies

ForkOrphan(p) ==
    /\ Fork(p)
    /\ UNCHANGED <<exits, reaperVars, waiterVars, history>>

Exit(p) ==
    /\ proc[p] # 0
    /\ zombies' = zombies \cup {p}
    /\ p \notin zombies
    /\ UNCHANGED <<proc, count, exits, reaperVars, waiterVars, history>>

----------------------------------------------------------------------------
(* The two reaping threads: reap_zombies, then publish one by one.          *)

\* Mutant: one status for the whole round, that of the last waitpid.
Reap_LastStatus(r, p) ==
    /\ mode[r] = "reap"
    /\ p \in zombies
    /\ batch' = [batch EXCEPT ![r] =
                    [i \in 1..(Len(@) + 1) |-> <<IF i <= Len(@) THEN @[i][1] ELSE p, proc[p]>>]]
    /\ proc' = [proc EXCEPT ![p] = 0]
    /\ zombies' = zombies \ {p}
    /\ UNCHANGED <<count, exits, mode, waiterVars, history>>

\* Mutant: a round keeps one exit only.
Reap_OnePerRound(r, p) ==
    /\ mode[r] = "reap"
    /\ p \in zombies
    /\ batch' = [batch EXCEPT ![r] = IF @ = <<>> THEN <<<<p, proc[p]>>>> ELSE @]
    /\ proc' = [proc EXCEPT ![p] = 0]
    /\ zombies' = zombies \ {p}
    /\ UNCHANGED <<count, exits, mode, waiterVars, history>>

\* One waitpid(-1, WNOHANG): any zombie; its pid is free from here on.
Reap(r, p) ==
    /\ mode[r] = "reap"
    /\ p \in zombies
    /\ batch' = [batch EXCEPT ![r] = Append(@, <<p, proc[p]>>)]
    /\ proc' = [proc EXCEPT ![p] = 0]
    /\ zombies' = zombies \ {p}
    /\ UNCHANGED <<count, exits, mode, waiterVars, history>>

ReapEnd(r) ==
    /\ mode[r] = "reap"
    /\ zombies = {}
    /\ batch[r] # <<>>
    /\ mode' = [mode EXCEPT ![r] = "publish"]
    /\ UNCHANGED <<kernelVars, exits, batch, waiterVars, history>>

Full(p) == Cardinality({q \in Pids : exits[q] # 0}) >= Cap /\ exits[p] = 0

\* ExitRegistry::publish of the next entry, dropping some other one if full.
Publish(r) ==
    /\ mode[r] = "publish"
    /\ LET p == Head(batch[r])[1]
           c == Head(batch[r])[2]
       IN  \/ /\ ~Full(p)
              /\ exits' = [exits EXCEPT ![p] = c]
              /\ UNCHANGED evicted
           \/ /\ Full(p)
              /\ \E v \in Pids : exits[v] # 0 /\ exits' = [exits EXCEPT ![v] = 0, ![p] = c]
              /\ evicted' = TRUE
    /\ batch' = [batch EXCEPT ![r] = Tail(@)]
    /\ mode' = [mode EXCEPT ![r] = IF Len(batch[r]) = 1 THEN "reap" ELSE "publish"]
    /\ UNCHANGED <<kernelVars, waiterVars, over>>

----------------------------------------------------------------------------
(* wait_via_registry: wait_take, with or without a timeout.                 *)

ForkChild(w, p) ==
    /\ pc[w] = "idle"
    /\ Fork(p)
    /\ pc' = [pc EXCEPT ![w] = "wait"]
    /\ pid' = [pid EXCEPT ![w] = p]
    /\ mine' = [mine EXCEPT ![w] = count + 1]
    /\ code' = [code EXCEPT ![w] = 0]
    /\ over' = IF exits[p] # 0 THEN over \cup {w} ELSE over \ {w}
    /\ UNCHANGED <<exits, reaperVars, evicted>>

Removed(p) == [exits EXCEPT ![p] = 0]

Take(w) ==
    /\ pc[w] = "wait"
    /\ exits[pid[w]] # 0
    /\ code' = [code EXCEPT ![w] = exits[pid[w]]]
    /\ exits' = Removed(pid[w])
    /\ pc' = [pc EXCEPT ![w] = "got"]
    /\ UNCHANGED <<kernelVars, reaperVars, pid, mine, history>>

\* The timeout is over: SIGKILL to whatever process has the pid now.
Timeout(w) ==
    /\ pc[w] = "wait"
    /\ exits[pid[w]] = 0
    /\ pc' = [pc EXCEPT ![w] = "kill"]
    /\ zombies' = IF proc[pid[w]] # 0 THEN zombies \cup {pid[w]} ELSE zombies
    /\ UNCHANGED <<proc, count, exits, reaperVars, pid, mine, code, history>>

\* The thread is done with the process and may spawn another one.
Release(w) ==
    /\ pc' = [pc EXCEPT ![w] = "idle"]
    /\ pid' = [pid EXCEPT ![w] = NoPid]
    /\ mine' = [mine EXCEPT ![w] = 0]
    /\ code' = [code EXCEPT ![w] = 0]
    /\ over' = over \ {w}
    /\ UNCHANGED <<kernelVars, reaperVars, evicted>>

\* wait_take(REAP_AFTER_KILL): its result is dropped ...
TakeKilled(w) ==
    /\ pc[w] = "kill"
    /\ exits[pid[w]] # 0
    /\ exits' = Removed(pid[w])
    /\ Release(w)

\* ... and so is an exit that comes after it: the entry stays in the registry.
GiveUp(w) ==
    /\ pc[w] = "kill"
    /\ exits[pid[w]] = 0
    /\ Release(w)
    /\ UNCHANGED exits

\* The caller acts on the code.
Handled(w) ==
    /\ pc[w] = "got"
    /\ Release(w)
    /\ UNCHANGED exits

----------------------------------------------------------------------------
ReaperStep(r) == (\E p \in Pids : Reap(r, p)) \/ ReapEnd(r) \/ Publish(r)

Next ==
    \/ \E p \in Pids : ForkOrphan(p) \/ Exit(p)
    \/ \E r \in Reapers : ReaperStep(r)
    \/ \E w \in Waiters :
          \/ \E p \in Pids : ForkChild(w, p)
          \/ Take(w) \/ Timeout(w) \/ TakeKilled(w) \/ GiveUp(w) \/ Handled(w)

Spec == Init /\ [][Next]_vars

\* The reaping threads and the waiting threads run; nothing is assumed of
\* timeouts or of the processes.
Fairness ==
    /\ \A r \in Reapers : WF_vars(ReaperStep(r))
    /\ \A w \in Waiters : WF_vars(Take(w))

FairSpec == Spec /\ Fairness

----------------------------------------------------------------------------
(* Properties.                                                              *)

\* The exit a thread takes is that of the process it spawned, whichever reaper
\* published it, whatever was evicted, abandoned or inherited meanwhile.  The one
\* exception is a pid that already had an entry when the process was spawned (an
\* orphan's, or an abandoned child's: publish keeps them until an overflow): then
\* wait_take returns at once, and what it returns may be the exit of the older
\* process, never that of a younger one.  And the pid a thread may signal is that
\* of its own process or of none.
OwnProcess ==
    \A w \in Waiters :
        /\ pc[w] = "got" => code[w] <= mine[w] /\ (w \notin over => code[w] = mine[w])
        /\ pc[w] \in {"wait", "kill"} => proc[pid[w]] \in {0, mine[w]}

\* A thread whose child ended gets its exit, unless its entry was pushed out.
ExitDelivered ==
    \A w \in Waiters :
        pc[w] = "wait" /\ (proc[pid[w]] # mine[w] \/ pid[w] \in zombies)
            ~> (pc[w] # "wait" \/ evicted)
===============================================================================
