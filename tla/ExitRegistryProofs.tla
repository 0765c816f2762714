-------------------------- MODULE ExitRegistryProofs --------------------------
(****************************************************************************)
(* OwnProcess holds for every number of pids, waiting threads, reaping      *)
(* threads and processes and every cap.  The numbers of the processes grow, *)
(* so what is in the map when a process is spawned is older than it; and    *)
(* nothing but that process's own exit can come to its pid while a thread   *)
(* waits for it.                                                            *)
(****************************************************************************)
EXTENDS ExitRegistry, TLAPS

Entry == Pids \X (Nat \ {0})

Waits(w) == pc[w] \in {"wait", "kill"}

\* What the argument needs of the types; a batch that is being published has
\* an entry left, and a zombie is a process.
Shape ==
    /\ proc \in [Pids -> Nat]
    /\ zombies \in SUBSET Pids
    /\ \A p \in zombies : proc[p] # 0
    /\ count \in Nat
    /\ exits \in [Pids -> Nat]
    /\ batch \in [Reapers -> Seq(Entry)]
    /\ mode \in [Reapers -> {"reap", "publish"}]
    /\ \A r \in Reapers : mode[r] = "publish" => batch[r] # <<>>
    /\ pc \in [Waiters -> {"idle", "wait", "kill", "got"}]
    /\ pid \in [Waiters -> Pids \cup {NoPid}]
    /\ \A w \in Waiters : Waits(w) => pid[w] \in Pids
    /\ mine \in [Waiters -> Nat]
    /\ code \in [Waiters -> Nat]

\* No process has a number that was not given out yet.
Numbered ==
    /\ \A p \in Pids : proc[p] <= count /\ exits[p] <= count
    /\ \A r \in Reapers : \A i \in 1..Len(batch[r]) : batch[r][i][2] <= count

\* Under the pid of a thread that waits there is its own process, its exit on
\* the way, its exit in the map, or in the map an older entry that was there
\* when the process was spawned.
Owned(w) ==
    /\ proc[pid[w]] \in {0, mine[w]}
    /\ \A r \in Reapers : \A i \in 1..Len(batch[r]) :
          batch[r][i][1] = pid[w] => batch[r][i][2] = mine[w]
    /\ exits[pid[w]] <= mine[w]
    /\ w \notin over => exits[pid[w]] \in {0, mine[w]}

Taken(w) == code[w] <= mine[w] /\ (w \notin over => code[w] = mine[w])

Accounted ==
    \A w \in Waiters : (Waits(w) => Owned(w)) /\ (pc[w] = "got" => Taken(w))

RegistryInv == Shape /\ Numbered /\ Accounted

----------------------------------------------------------------------------
(* Batches.                                                                 *)

\* One waitpid adds its entry at the end of a batch.
LEMMA AppendFacts ==
    ASSUME NEW S, NEW s \in Seq(S), NEW e \in S
    PROVE  /\ Append(s, e) \in Seq(S)
           /\ Len(Append(s, e)) = Len(s) + 1
           /\ Len(s) \in Nat
           /\ \A i \in 1..Len(s) : Append(s, e)[i] = s[i]
           /\ Append(s, e)[Len(s) + 1] = e
OBVIOUS

\* One publish takes the first entry away.
LEMMA TailFacts ==
    ASSUME NEW S, NEW s \in Seq(S), s # <<>>
    PROVE  /\ Head(s) = s[1] /\ s[1] \in S
           /\ Tail(s) \in Seq(S)
           /\ Len(s) \in Nat \ {0} /\ Len(Tail(s)) = Len(s) - 1
           /\ \A i \in 1..Len(Tail(s)) : Tail(s)[i] = s[i + 1]
OBVIOUS

\* What a batch holds is an entry.
LEMMA BatchEntry ==
    ASSUME Shape, NEW r \in Reapers, NEW i \in 1..Len(batch[r])
    PROVE  /\ batch[r][i] = <<batch[r][i][1], batch[r][i][2]>>
           /\ batch[r][i][1] \in Pids /\ batch[r][i][2] \in Nat \ {0}
<1>1. batch[r] \in Seq(Entry)
  BY DEF Shape
<1>2. batch[r][i] \in Entry
  BY <1>1
<1> QED BY <1>2 DEF Entry

----------------------------------------------------------------------------
(* Every step preserves the invariant.                                      *)

\* A fork gives the next number to a pid nobody waits for.
LEMMA ForkStep ==
    ASSUME RegistryInv, NEW p \in Pids, Fork(p), UNCHANGED <<exits, reaperVars>>
    PROVE  /\ proc' \in [Pids -> Nat] /\ count' = count + 1 /\ \A q \in zombies' : proc'[q] # 0
           /\ Numbered'
           /\ proc'[p] = count + 1
           /\ \A q \in Pids : q # p => proc'[q] = proc[q]
           /\ \A w \in Waiters : Waits(w) => pid[w] # p
           /\ zombies' = zombies
<1> USE DEF RegistryInv, Fork, reaperVars
<1>1. proc' \in [Pids -> Nat] /\ \A q \in zombies' : proc'[q] # 0
  BY DEF Shape
<1>2. proc'[p] = count + 1 /\ \A q \in Pids : q # p => proc'[q] = proc[q]
  BY DEF Shape
<1>3. \A q \in Pids : proc'[q] <= count' /\ exits'[q] <= count'
  BY <1>1, <1>2 DEF Numbered, Shape
<1>4. ASSUME NEW r \in Reapers, NEW i \in 1..Len(batch'[r]) PROVE batch'[r][i][2] <= count'
  <2>1. batch[r][i][2] <= count /\ batch[r][i][2] \in Nat /\ count \in Nat
    BY <1>4, BatchEntry DEF Numbered, Shape
  <2> QED BY <2>1
<1>5. \A w \in Waiters : Waits(w) => pid[w] # p
  BY DEF Holds, Waits
<1> QED BY <1>1, <1>2, <1>3, <1>4, <1>5 DEF Numbered

\* A process nobody waits for.
LEMMA OrphanStep ==
    ASSUME RegistryInv, NEW p \in Pids, ForkOrphan(p)
    PROVE  RegistryInv'
<1> USE DEF ForkOrphan, reaperVars, waiterVars, history
<1>1. Shape' /\ Numbered'
  BY ForkStep DEF RegistryInv, Shape, Waits
<1>2. ASSUME NEW w \in Waiters, Waits(w) PROVE Owned(w)'
  <2>1. pid[w] # p /\ pid[w] \in Pids /\ Owned(w)
    BY <1>2, ForkStep DEF RegistryInv, Shape, Accounted
  <2>2. proc'[pid[w]] = proc[pid[w]]
    BY <2>1, ForkStep
  <2> QED BY <2>1, <2>2 DEF Owned
<1> QED BY <1>1, <1>2 DEF RegistryInv, Accounted, Waits, Taken

\* A thread spawns its child: the number is new, the pid may have an old entry.
LEMMA ChildStep ==
    ASSUME RegistryInv, NEW w \in Waiters, NEW p \in Pids, ForkChild(w, p)
    PROVE  RegistryInv'
<1> USE DEF ForkChild, reaperVars
<1>1. /\ pc'[w] = "wait" /\ pid'[w] = p /\ mine'[w] = count + 1
      /\ \A x \in Waiters : x # w => /\ pc'[x] = pc[x] /\ pid'[x] = pid[x] /\ mine'[x] = mine[x]
                                     /\ code'[x] = code[x] /\ (x \in over' <=> x \in over)
      /\ w \notin over' => exits[p] = 0
  BY DEF RegistryInv, Shape
<1>2. Shape' /\ Numbered'
  <2>1. \A x \in Waiters : Waits(x)' => pid'[x] \in Pids
    BY <1>1 DEF RegistryInv, Shape, Waits
  <2>2. pc' \in [Waiters -> {"idle", "wait", "kill", "got"}] /\ pid' \in [Waiters -> Pids \cup {NoPid}]
    BY DEF RegistryInv, Shape
  <2>3. mine' \in [Waiters -> Nat] /\ code' \in [Waiters -> Nat] /\ count' \in Nat
    BY ForkStep DEF RegistryInv, Shape
  <2> QED BY <2>1, <2>2, <2>3, ForkStep DEF RegistryInv, Shape
<1>3. ASSUME NEW x \in Waiters, Waits(x)' PROVE Owned(x)'
  <2>1. CASE x = w
    <3>1. proc'[p] = count + 1 /\ exits[p] <= count /\ exits[p] \in Nat /\ count \in Nat
      BY ForkStep DEF RegistryInv, Numbered, Shape
    <3>2. \A r \in Reapers : \A i \in 1..Len(batch[r]) : batch[r][i][1] # p
      BY DEF Fork, InBatch
    <3>3. exits[p] <= count + 1
      BY <3>1
    <3> QED BY <1>1, <2>1, <3>1, <3>2, <3>3 DEF Owned
  <2>2. CASE x # w
    <3>1. Waits(x) /\ Owned(x) /\ pid[x] \in Pids /\ pid[x] # p
      BY <1>1, <1>3, <2>2, ForkStep DEF RegistryInv, Shape, Accounted, Waits
    <3>2. proc'[pid[x]] = proc[pid[x]]
      BY <3>1, ForkStep
    <3> QED BY <1>1, <2>2, <3>1, <3>2 DEF Owned
  <2> QED BY <2>1, <2>2
<1>4. ASSUME NEW x \in Waiters, pc'[x] = "got" PROVE Taken(x)'
  BY <1>1, <1>4 DEF RegistryInv, Accounted, Taken
<1> QED BY <1>2, <1>3, <1>4 DEF RegistryInv, Accounted

\* A process ends, on its own or by the SIGKILL after the timeout.
LEMMA EndStep ==
    ASSUME RegistryInv, (\E p \in Pids : Exit(p)) \/ (\E w \in Waiters : Timeout(w))
    PROVE  RegistryInv'
<1> USE DEF RegistryInv, Exit, Timeout, reaperVars, waiterVars, history
<1>1. Shape'
  BY DEF Shape, Waits
<1>2. Numbered'
  BY DEF Numbered
<1>3. \A w \in Waiters : Waits(w)' = Waits(w) /\ (pc'[w] = "got") = (pc[w] = "got")
  BY DEF Waits, Shape
<1>4. \A w \in Waiters : Owned(w)' = Owned(w) /\ Taken(w)' = Taken(w)
  BY DEF Owned, Taken
<1> QED BY <1>1, <1>2, <1>3, <1>4 DEF Accounted

\* waitpid moves the process of a pid into a batch.
LEMMA ReapStep ==
    ASSUME RegistryInv, NEW r \in Reapers, NEW p \in Pids, Reap(r, p)
    PROVE  RegistryInv'
<1> DEFINE e == <<p, proc[p]>>
<1>1. e \in Entry /\ proc[p] # 0
  BY DEF RegistryInv, Shape, Reap, Entry
<1>2. /\ batch'[r] = Append(batch[r], e)
      /\ \A s \in Reapers : s # r => batch'[s] = batch[s]
      /\ proc'[p] = 0 /\ \A q \in Pids : q # p => proc'[q] = proc[q]
  BY DEF RegistryInv, Shape, Reap
<1>3. batch[r] \in Seq(Entry)
  BY DEF RegistryInv, Shape
<1>4. /\ batch'[r] \in Seq(Entry)
      /\ Len(batch[r]) \in Nat /\ Len(batch'[r]) = Len(batch[r]) + 1
      /\ \A i \in 1..Len(batch[r]) : batch'[r][i] = batch[r][i]
      /\ batch'[r][Len(batch[r]) + 1] = e
  BY <1>1, <1>2, <1>3, AppendFacts
<1>5. e[1] = p /\ e[2] = proc[p]
  OBVIOUS
<1> HIDE DEF e
<1>6. UNCHANGED <<count, exits, mode, pc, pid, mine, code, over>>
  BY DEF Reap, waiterVars, history
<1>7. Shape'
  <2>1. batch' \in [Reapers -> Seq(Entry)]
    BY <1>2, <1>4 DEF RegistryInv, Shape, Reap
  <2>2. \A s \in Reapers : mode'[s] = "publish" => batch'[s] # <<>>
    BY <1>2, <1>4 DEF RegistryInv, Shape, Reap
  <2> QED BY <1>6, <2>1, <2>2 DEF RegistryInv, Shape, Reap, Waits
<1>8. \A s \in Reapers : \A i \in 1..Len(batch'[s]) :
         \/ i \in 1..Len(batch[s]) /\ batch'[s][i] = batch[s][i]
         \/ batch'[s][i] = e
  BY <1>2, <1>4
<1>9. Numbered'
  <2>1. ASSUME NEW q \in Pids PROVE proc'[q] <= count /\ exits[q] <= count
    <3>1. proc[q] <= count /\ exits[q] <= count /\ count \in Nat
      BY DEF RegistryInv, Numbered, Shape
    <3>2. proc'[q] = 0 \/ proc'[q] = proc[q]
      BY <1>2
    <3> QED BY <3>1, <3>2
  <2>2. e[2] <= count
    BY <1>5 DEF RegistryInv, Numbered
  <2> QED BY <1>6, <1>8, <2>1, <2>2 DEF RegistryInv, Numbered
<1>10. ASSUME NEW w \in Waiters, Waits(w) PROVE Owned(w)'
  <2>1. Owned(w) /\ pid[w] \in Pids
    BY <1>10 DEF RegistryInv, Accounted, Shape
  <2>2. e[1] = pid[w] => e[2] = mine[w]
    BY <1>1, <1>5, <2>1 DEF Owned
  <2>3. proc'[pid[w]] \in {0, mine[w]}
    BY <1>2, <2>1 DEF Owned
  <2> QED BY <1>6, <1>8, <2>1, <2>2, <2>3 DEF Owned
<1> QED BY <1>6, <1>7, <1>9, <1>10 DEF RegistryInv, Accounted, Waits, Taken

\* The end of a round of waitpid.
LEMMA ReapEndStep ==
    ASSUME RegistryInv, NEW r \in Reapers, ReapEnd(r)
    PROVE  RegistryInv'
<1> USE DEF RegistryInv, ReapEnd, kernelVars, waiterVars, history
<1>1. Shape'
  BY DEF Shape, Waits
<1>2. Numbered'
  BY DEF Numbered
<1>3. Accounted'
  BY DEF Accounted, Waits, Owned, Taken
<1> QED BY <1>1, <1>2, <1>3

\* publish moves the first entry of a batch into the registry; an overflow may
\* take another one out.
LEMMA PublishStep ==
    ASSUME RegistryInv, NEW r \in Reapers, Publish(r)
    PROVE  RegistryInv'
<1> DEFINE p == Head(batch[r])[1]
           c == Head(batch[r])[2]
<1>1. batch[r] \in Seq(Entry) /\ batch[r] # <<>>
  BY DEF RegistryInv, Shape, Publish
<1>2. /\ batch[r][1] = <<p, c>> /\ p \in Pids /\ c \in Nat \ {0}
      /\ Tail(batch[r]) \in Seq(Entry)
      /\ Len(batch[r]) \in Nat \ {0} /\ Len(Tail(batch[r])) = Len(batch[r]) - 1
      /\ \A i \in 1..Len(Tail(batch[r])) : Tail(batch[r])[i] = batch[r][i + 1]
  BY <1>1, TailFacts DEF Entry
<1>3. /\ batch'[r] = Tail(batch[r])
      /\ \A s \in Reapers : s # r => batch'[s] = batch[s]
  BY DEF RegistryInv, Shape, Publish
<1>4. /\ batch'[r] \in Seq(Entry)
      /\ Len(batch'[r]) = Len(batch[r]) - 1
      /\ \A i \in 1..Len(batch'[r]) : i + 1 \in 1..Len(batch[r]) /\ batch'[r][i] = batch[r][i + 1]
  BY <1>2, <1>3
<1>5. exits' \in [Pids -> Nat] /\ exits'[p] = c /\ \A q \in Pids : q # p => exits'[q] \in {0, exits[q]}
  <2>1. \/ exits' = [exits EXCEPT ![p] = c]
        \/ \E v \in Pids : exits' = [exits EXCEPT ![v] = 0, ![p] = c]
    BY DEF Publish
  <2>2. exits \in [Pids -> Nat]
    BY DEF RegistryInv, Shape
  <2> HIDE DEF p, c
  <2>3. CASE exits' = [exits EXCEPT ![p] = c]
    BY <1>2, <2>2, <2>3
  <2>4. ASSUME NEW v \in Pids, exits' = [exits EXCEPT ![v] = 0, ![p] = c]
        PROVE  exits' \in [Pids -> Nat] /\ exits'[p] = c /\ \A q \in Pids : q # p => exits'[q] \in {0, exits[q]}
    BY <1>2, <2>2, <2>4
  <2> QED BY <2>1, <2>3, <2>4
<1> HIDE DEF p, c
<1>6. UNCHANGED <<proc, zombies, count, pc, pid, mine, code, over>>
  BY DEF Publish, kernelVars, waiterVars
<1>7. Shape'
  <2>1. batch' \in [Reapers -> Seq(Entry)]
    BY <1>3, <1>4 DEF RegistryInv, Shape, Publish
  <2>2. \A s \in Reapers : mode'[s] = "publish" => batch'[s] # <<>>
    <3>1. mode'[r] = "publish" => Len(batch[r]) # 1
      BY DEF RegistryInv, Shape, Publish
    <3>2. Len(<<>>) = 0
      OBVIOUS
    <3>3. mode'[r] = "publish" => Len(batch'[r]) # 0
      BY <1>2, <1>4, <3>1
    <3>4. mode'[r] = "publish" => batch'[r] # <<>>
      BY <3>2, <3>3
    <3> QED BY <1>3, <3>4 DEF RegistryInv, Shape, Publish
  <2>3. mode' \in [Reapers -> {"reap", "publish"}]
    BY DEF RegistryInv, Shape, Publish
  <2> QED BY <1>5, <1>6, <2>1, <2>2, <2>3 DEF RegistryInv, Shape, Waits
<1>8. \A s \in Reapers : \A i \in 1..Len(batch'[s]) :
         \E k \in 1..Len(batch[s]) : batch'[s][i] = batch[s][k]
  BY <1>3, <1>4
<1>9. batch[r][1][1] = p /\ batch[r][1][2] = c /\ 1 \in 1..Len(batch[r])
  BY <1>2
<1>10. Numbered'
  <2>1. c <= count
    BY <1>9 DEF RegistryInv, Numbered
  <2>2. ASSUME NEW q \in Pids PROVE exits'[q] <= count
    <3>1. exits[q] <= count /\ count \in Nat
      BY DEF RegistryInv, Numbered, Shape
    <3>2. exits'[q] = c \/ exits'[q] = 0 \/ exits'[q] = exits[q]
      BY <1>5
    <3> QED BY <2>1, <3>1, <3>2
  <2> QED BY <1>6, <1>8, <2>2 DEF RegistryInv, Numbered
<1>11. ASSUME NEW w \in Waiters, Waits(w) PROVE Owned(w)'
  <2>1. Owned(w) /\ pid[w] \in Pids /\ mine[w] \in Nat
    BY <1>11 DEF RegistryInv, Accounted, Shape
  <2>0. \A s \in Reapers : \A i \in 1..Len(batch'[s]) :
           batch'[s][i][1] = pid[w] => batch'[s][i][2] = mine[w]
    <3>1. \A s \in Reapers : \A k \in 1..Len(batch[s]) :
             batch[s][k][1] = pid[w] => batch[s][k][2] = mine[w]
      BY <2>1 DEF Owned
    <3> SUFFICES ASSUME NEW s \in Reapers, NEW i \in 1..Len(batch'[s])
                 PROVE  batch'[s][i][1] = pid[w] => batch'[s][i][2] = mine[w]
      OBVIOUS
    <3>2. PICK k \in 1..Len(batch[s]) : batch'[s][i] = batch[s][k]
      BY <1>8
    <3> QED BY <3>1, <3>2
  <2>2. CASE pid[w] = p
    <3>1. c = mine[w]
      BY <1>9, <2>1, <2>2 DEF Owned
    <3>2. exits'[pid[w]] = mine[w]
      BY <1>5, <2>2, <3>1
    <3>3. exits'[pid[w]] <= mine[w]
      BY <2>1, <3>2
    <3> QED BY <1>6, <2>0, <2>1, <3>2, <3>3 DEF Owned
  <2>3. CASE pid[w] # p
    <3>1. exits'[pid[w]] \in {0, exits[pid[w]]}
      BY <1>5, <2>1, <2>3
    <3>2. exits'[pid[w]] <= mine[w] /\ (w \notin over => exits'[pid[w]] \in {0, mine[w]})
      BY <2>1, <3>1 DEF Owned
    <3> QED BY <1>6, <2>0, <2>1, <3>2 DEF Owned
  <2> QED BY <2>2, <2>3
<1> QED BY <1>6, <1>7, <1>10, <1>11 DEF RegistryInv, Accounted, Waits, Taken

\* A waiting thread takes its entry, or drops what its killed child left.
LEMMA TakeStep ==
    ASSUME RegistryInv, NEW w \in Waiters, Take(w) \/ TakeKilled(w)
    PROVE  RegistryInv'
<1>1. /\ pid[w] \in Pids /\ Waits(w) /\ exits[pid[w]] # 0
      /\ exits' = [exits EXCEPT ![pid[w]] = 0]
      /\ UNCHANGED <<proc, zombies, count, batch, mode>>
  BY DEF RegistryInv, Shape, Waits, Take, TakeKilled, Removed, Release, kernelVars, reaperVars
<1>2. \A x \in Waiters : x # w => /\ pc'[x] = pc[x] /\ pid'[x] = pid[x] /\ mine'[x] = mine[x]
                                  /\ code'[x] = code[x] /\ (x \in over' <=> x \in over)
  BY DEF RegistryInv, Shape, Take, TakeKilled, Release, history
<1>3. pc'[w] \in {"idle", "got"}
      /\ (pc'[w] = "got" => code'[w] = exits[pid[w]] /\ mine'[w] = mine[w] /\ over' = over)
  BY DEF RegistryInv, Shape, Take, TakeKilled, Release, history
<1>4. Shape'
  <2>1. /\ pc' \in [Waiters -> {"idle", "wait", "kill", "got"}] /\ pid' \in [Waiters -> Pids \cup {NoPid}]
        /\ mine' \in [Waiters -> Nat] /\ code' \in [Waiters -> Nat] /\ exits' \in [Pids -> Nat]
    <3>1. CASE Take(w)
      BY <1>1, <3>1 DEF RegistryInv, Shape, Take
    <3>2. CASE TakeKilled(w)
      BY <1>1, <3>2 DEF RegistryInv, Shape, TakeKilled, Release
    <3> QED BY <3>1, <3>2
  <2>2. \A x \in Waiters : Waits(x)' => pid'[x] \in Pids
    BY <1>2, <1>3 DEF RegistryInv, Shape, Waits
  <2> QED BY <1>1, <2>1, <2>2 DEF RegistryInv, Shape
<1>5. \A q \in Pids : exits'[q] \in {0, exits[q]}
  BY <1>1 DEF RegistryInv, Shape
<1>6. Numbered'
  BY <1>1, <1>5 DEF RegistryInv, Numbered, Shape
<1>7. ASSUME NEW x \in Waiters, Waits(x)' PROVE Owned(x)'
  <2>1. x # w /\ Waits(x)
    BY <1>2, <1>3, <1>7 DEF Waits
  <2>2. Owned(x) /\ pid[x] \in Pids /\ mine[x] \in Nat
    BY <2>1 DEF RegistryInv, Accounted, Shape
  <2>3. exits'[pid[x]] <= mine[x] /\ (x \notin over => exits'[pid[x]] \in {0, mine[x]})
    BY <1>5, <2>2 DEF Owned
  <2> QED BY <1>1, <1>2, <2>1, <2>2, <2>3 DEF Owned
<1>8. ASSUME NEW x \in Waiters, pc'[x] = "got" PROVE Taken(x)'
  <2>1. CASE x = w
    BY <1>1, <1>3, <1>8, <2>1 DEF RegistryInv, Accounted, Owned, Taken
  <2>2. CASE x # w
    BY <1>2, <1>8, <2>2 DEF RegistryInv, Accounted, Taken
  <2> QED BY <2>1, <2>2
<1> QED BY <1>4, <1>6, <1>7, <1>8 DEF RegistryInv, Accounted

\* A thread stops waiting and leaves everything where it is.
LEMMA LeaveStep ==
    ASSUME RegistryInv, NEW w \in Waiters, GiveUp(w) \/ Handled(w)
    PROVE  RegistryInv'
<1>1. UNCHANGED <<proc, zombies, count, exits, batch, mode>>
  BY DEF GiveUp, Handled, Release, kernelVars, reaperVars
<1>2. \A x \in Waiters : x # w => /\ pc'[x] = pc[x] /\ pid'[x] = pid[x] /\ mine'[x] = mine[x]
                                  /\ code'[x] = code[x] /\ (x \in over' <=> x \in over)
  BY DEF RegistryInv, Shape, GiveUp, Handled, Release
<1>3. pc'[w] = "idle"
  BY DEF RegistryInv, Shape, GiveUp, Handled, Release
<1>4. Shape'
  <2>1. /\ pc' \in [Waiters -> {"idle", "wait", "kill", "got"}] /\ pid' \in [Waiters -> Pids \cup {NoPid}]
        /\ mine' \in [Waiters -> Nat] /\ code' \in [Waiters -> Nat]
    <3>1. Release(w)
      BY DEF GiveUp, Handled
    <3> QED BY <3>1 DEF RegistryInv, Shape, Release
  <2>2. \A x \in Waiters : Waits(x)' => pid'[x] \in Pids
    BY <1>2, <1>3 DEF RegistryInv, Shape, Waits
  <2> QED BY <1>1, <2>1, <2>2 DEF RegistryInv, Shape
<1>5. Numbered'
  BY <1>1 DEF RegistryInv, Numbered
<1>6. ASSUME NEW x \in Waiters PROVE (Waits(x)' => Owned(x)') /\ (pc'[x] = "got" => Taken(x)')
  <2>1. CASE x = w
    BY <1>3, <2>1 DEF Waits
  <2>2. CASE x # w
    BY <1>1, <1>2, <2>2 DEF RegistryInv, Accounted, Waits, Owned, Taken
  <2> QED BY <2>1, <2>2
<1> QED BY <1>4, <1>5, <1>6 DEF RegistryInv, Accounted

----------------------------------------------------------------------------
\* RegistryInv is an invariant.
THEOREM RegistryInvHolds == Spec => []RegistryInv
<1>1. Init => RegistryInv
  <2> SUFFICES ASSUME Init PROVE RegistryInv
    OBVIOUS
  <2>1. Shape
    BY DEF Init, Shape, Waits
  <2>2. Numbered
    BY DEF Init, Numbered
  <2>3. Accounted
    BY DEF Init, Accounted, Waits
  <2> QED BY <2>1, <2>2, <2>3 DEF RegistryInv
<1>2. RegistryInv /\ [Next]_vars => RegistryInv'
  <2> SUFFICES ASSUME RegistryInv, [Next]_vars PROVE RegistryInv'
    OBVIOUS
  <2>1. CASE UNCHANGED vars
    <3> USE <2>1 DEF vars, kernelVars, reaperVars, waiterVars, history, RegistryInv
    <3>1. Shape'
      BY DEF Shape, Waits
    <3>2. Numbered'
      BY DEF Numbered
    <3>3. Accounted'
      BY DEF Accounted, Waits, Owned, Taken
    <3> QED BY <3>1, <3>2, <3>3
  <2>2. CASE Next
    BY <2>2, OrphanStep, ChildStep, EndStep, ReapStep, ReapEndStep, PublishStep, TakeStep, LeaveStep
    DEF Next, ReaperStep
  <2> QED BY <2>1, <2>2
<1> QED BY <1>1, <1>2, PTL DEF Spec

\* A thread takes the exit of its own process, or of an older one whose entry
\* was in the map under that pid before it spawned, and signals no process but
\* its own: for any number of threads, pids, orphans and reapers and any cap.
THEOREM OwnProcessHolds == Spec => []OwnProcess
<1>1. RegistryInv => OwnProcess
  BY DEF RegistryInv, Accounted, OwnProcess, Waits, Owned, Taken
<1> QED BY <1>1, RegistryInvHolds, PTL
===============================================================================
