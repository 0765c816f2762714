------------------------------- MODULE WatchHub -------------------------------
(****************************************************************************)
(* `microinit watch`: the coalescing fan-out of src/watch.rs, the           *)
(* notify_watchers path of src/supervisor.rs that feeds it, and the Watch   *)
(* handler of src/init.rs that drains it.                                   *)
(*                                                                          *)
(* A writer changes the runtimes (set_state), then looks at the follower    *)
(* count, takes the list, looks at the count again and publishes: four      *)
(* locks or atomics, so other threads run between any two.  A watch client  *)
(* registers a slot, publishes the list once itself, and then forwards      *)
(* every new generation of its slot.  The Vec of followers is kept as the   *)
(* set of clients that are registered; its length is the atomic count,      *)
(* which is stored under the same lock.                                     *)
(****************************************************************************)
EXTENDS Naturals, FiniteSets

CONSTANTS
    Writers,       \* threads that change a service's state
    Watchers,      \* IPC threads that serve a watch request
    Services,
    States,        \* service states
    Keys,          \* [Watchers -> SUBSET Services]: rows its label keys select
    MaxFollowers,  \* MAX_WATCH_FOLLOWERS
    MaxWrites,     \* bound: state changes in one behaviour
    None           \* no snapshot

Start == CHOOSE q \in States : TRUE
Lists == [Services -> States]
Views(w) == [Keys[w] -> States]
Threads == Writers \cup Watchers

ASSUME KeysAssumption == \A w \in Watchers : Keys[w] \in SUBSET Services
ASSUME BoundAssumption == MaxFollowers \in Nat /\ MaxWrites \in Nat
ASSUME StatesAssumption == States # {}
ASSUME ThreadsAssumption == Writers \cap Watchers = {}
ASSUME NoneAssumption ==
    None \notin Lists /\ \A w \in Watchers : None \notin Views(w)

VARIABLES
    world,      \* the runtimes, as list() would report them
    version,    \* history: number of changes to world, bounded by MaxWrites
    pc,         \* thread: idle, count, list, recheck, publish, and for a
                \* watcher also wait (in its delivery loop) and busy (refused)
    snap,       \* thread: the list it is going to publish
    snapAt,     \* history: the version of that list
    followers,  \* registered watchers
    gen,        \* Slot.gen
    view,       \* Slot.snapshot
    seen,       \* the handler's `seen`
    shown,      \* the last list written to the client
    newest      \* history: newest version offered to the slot

slotVars == <<gen, view, newest>>
clientVars == <<seen, shown>>
threadVars == <<pc, snap, snapAt>>
vars == <<world, version, threadVars, followers, slotVars, clientVars>>

\* Every variable has its type.
TypeOK ==
    /\ world \in Lists
    /\ version \in 0..MaxWrites
    /\ pc \in [Threads -> {"idle", "count", "list", "recheck", "publish",
                           "wait", "busy"}]
    /\ snap \in [Threads -> Lists \cup {None}]
    /\ snapAt \in [Threads -> 0..MaxWrites]
    /\ followers \in SUBSET Watchers
    /\ gen \in [Watchers -> Nat]
    /\ \A w \in Watchers : view[w] \in Views(w) \cup {None}
    /\ seen \in [Watchers -> Nat]
    /\ \A w \in Watchers : shown[w] \in Views(w) \cup {None}
    /\ newest \in [Watchers -> 0..MaxWrites]

Init ==
    /\ world = [s \in Services |-> Start]
    /\ version = 0
    /\ pc = [t \in Threads |-> "idle"]
    /\ snap = [t \in Threads |-> None]
    /\ snapAt = [t \in Threads |-> 0]
    /\ followers = {}
    /\ gen = [w \in Watchers |-> 0]
    /\ view = [w \in Watchers |-> None]
    /\ seen = [w \in Watchers |-> 0]
    /\ shown = [w \in Watchers |-> None]
    /\ newest = [w \in Watchers |-> 0]

Goto(t, l) == pc' = [pc EXCEPT ![t] = l]

\* Where a thread goes when notify_watchers returns.
After(t) == IF t \in Writers THEN "idle" ELSE "wait"

----------------------------------------------------------------------------
(* apply_state, and watch_subscribe's call of the same notify_watchers.     *)

SetState(t, s, q) ==
    /\ t \in Writers
    /\ pc[t] = "idle"
    /\ version < MaxWrites
    /\ world' = [world EXCEPT ![s] = q]
    /\ version' = version + 1
    /\ Goto(t, "count")
    /\ UNCHANGED <<snap, snapAt, followers, slotVars, clientVars>>

Count(t) ==
    /\ pc[t] = "count"
    /\ Goto(t, IF followers = {} THEN After(t) ELSE "list")
    /\ UNCHANGED <<world, version, snap, snapAt, followers, slotVars, clientVars>>

List(t) ==
    /\ pc[t] = "list"
    /\ snap' = [snap EXCEPT ![t] = world]
    /\ snapAt' = [snapAt EXCEPT ![t] = version]
    /\ Goto(t, "recheck")
    /\ UNCHANGED <<world, version, followers, slotVars, clientVars>>

Recheck(t) ==
    /\ pc[t] = "recheck"
    /\ Goto(t, IF followers = {} THEN After(t) ELSE "publish")
    /\ UNCHANGED <<world, version, snap, snapAt, followers, slotVars, clientVars>>

\* filter_snapshot: the rows that carry the follower's label keys.
FilterSnapshot(w, list) == [s \in Keys[w] |-> list[s]]

\* Mutant: only the first snapshot of a slot opens a generation.
NextGen_First(w, new) == IF view[w] = None THEN gen[w] + 1 ELSE gen[w]

\* views_eq: a view equal to the one in the slot opens no generation.
NextGen(w, new) == IF view[w] = new THEN gen[w] ELSE gen[w] + 1

Publish(t) ==
    /\ pc[t] = "publish"
    /\ LET new(w) == FilterSnapshot(w, snap[t]) IN
       /\ gen' = [w \in Watchers |->
                    IF w \in followers THEN NextGen(w, new(w)) ELSE gen[w]]
       /\ view' = [w \in Watchers |->
                    IF w \in followers THEN new(w) ELSE view[w]]
       /\ newest' = [w \in Watchers |->
                    IF w \in followers /\ snapAt[t] > newest[w]
                      THEN snapAt[t] ELSE newest[w]]
    /\ snap' = [snap EXCEPT ![t] = None]
    /\ snapAt' = [snapAt EXCEPT ![t] = 0]
    /\ Goto(t, After(t))
    /\ UNCHANGED <<world, version, followers, clientVars>>

----------------------------------------------------------------------------
(* The watch request.                                                       *)

\* Mutant: the slot is registered without publishing the list to it.
Subscribe_NoSeed(w) ==
    /\ pc[w] = "idle"
    /\ Cardinality(followers) < MaxFollowers
    /\ followers' = followers \cup {w}
    /\ Goto(w, "wait")
    /\ UNCHANGED <<world, version, snap, snapAt, slotVars, clientVars>>

\* try_subscribe registers an empty slot; notify_watchers comes next.
Subscribe(w) ==
    /\ pc[w] = "idle"
    /\ Cardinality(followers) < MaxFollowers
    /\ followers' = followers \cup {w}
    /\ Goto(w, "count")
    /\ UNCHANGED <<world, version, snap, snapAt, slotVars, clientVars>>

Refuse(w) ==
    /\ pc[w] = "idle"
    /\ Cardinality(followers) >= MaxFollowers
    /\ Goto(w, "busy")
    /\ UNCHANGED <<world, version, snap, snapAt, followers, slotVars, clientVars>>

\* wait_timeout returns a snapshot, and the handler writes it to the client.
Deliver(w) ==
    /\ pc[w] = "wait"
    /\ gen[w] # seen[w]
    /\ view[w] # None
    /\ seen' = [seen EXCEPT ![w] = gen[w]]
    /\ shown' = [shown EXCEPT ![w] = view[w]]
    /\ UNCHANGED <<world, version, threadVars, followers, slotVars>>

\* A write (of a list or of a heartbeat) fails: the handler returns and the
\* dropped WatchSub unregisters; the client may come back with a new slot.
Hangup(w) ==
    /\ pc[w] = "wait"
    /\ followers' = followers \ {w}
    /\ gen' = [gen EXCEPT ![w] = 0]
    /\ view' = [view EXCEPT ![w] = None]
    /\ seen' = [seen EXCEPT ![w] = 0]
    /\ shown' = [shown EXCEPT ![w] = None]
    /\ newest' = [newest EXCEPT ![w] = 0]
    /\ Goto(w, "idle")
    /\ UNCHANGED <<world, version, snap, snapAt>>

\* The error reply ends the request.
Refused(w) ==
    /\ pc[w] = "busy"
    /\ Goto(w, "idle")
    /\ UNCHANGED <<world, version, snap, snapAt, followers, slotVars, clientVars>>

----------------------------------------------------------------------------
Notify(t) == Count(t) \/ List(t) \/ Recheck(t) \/ Publish(t)

Next ==
    \/ \E t \in Writers, s \in Services, q \in States : SetState(t, s, q)
    \/ \E t \in Threads : Notify(t)
    \/ \E w \in Watchers : Subscribe(w) \/ Refuse(w) \/ Refused(w)
                           \/ Deliver(w) \/ Hangup(w)

Spec == Init /\ [][Next]_vars

\* Threads are scheduled.  Clients come and go as they like.
Fairness ==
    /\ \A t \in Threads : WF_vars(Notify(t))
    /\ \A w \in Watchers : WF_vars(Deliver(w))

FairSpec == Spec /\ Fairness

----------------------------------------------------------------------------
(* Properties.                                                              *)

\* No list is on its way to the slots.
AtRest == \A t \in Threads : pc[t] \in {"idle", "wait", "busy"}

\* Every change is offered to every client, whenever it subscribed: once no list
\* is on its way, the current list was offered to its slot.  The count that lets
\* writers skip the list, and the seeding of a new slot, leave no gap.  It need
\* not be the last list offered: a writer that took an older one may publish it
\* later, and the slot then shows the older one until the next change.
NoWriteMissed ==
    AtRest => \A w \in Watchers : pc[w] = "wait" => newest[w] = version

\* No wakeup is lost: a client that has not been shown what its slot holds
\* sees a new generation, so its wait returns.
WakeNotLost ==
    \A w \in Watchers :
        pc[w] = "wait" /\ view[w] # shown[w] => gen[w] # seen[w]

\* A client that subscribes and stays is shown a first list without waiting for
\* a change: the seeding reaches the slot although it may lose every race.
FirstFrame ==
    \A w \in Watchers : w \in followers ~> (w \notin followers \/ shown[w] # None)
===============================================================================
