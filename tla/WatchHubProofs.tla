---------------------------- MODULE WatchHubProofs ----------------------------
(****************************************************************************)
(* WakeNotLost and NoWriteMissed hold for every number of writers and       *)
(* watchers, every selection of rows, every cap on followers and any number *)
(* of state changes.                                                        *)
(****************************************************************************)
EXTENDS WatchHub, TLAPS

\* What the arguments need of the types.
Shape ==
    /\ version \in Nat
    /\ pc \in [Threads -> {"idle", "count", "list", "recheck", "publish", "wait", "busy"}]
    /\ snapAt \in [Threads -> Nat]
    /\ gen \in [Watchers -> Nat]
    /\ seen \in [Watchers -> Nat]
    /\ newest \in [Watchers -> Nat]
    /\ view = [w \in Watchers |-> view[w]]
    /\ shown = [w \in Watchers |-> shown[w]]

\* A handler lags behind its slot only in generations: at the same generation
\* the client has been shown what the slot holds.
Caught ==
    \A w \in Watchers : seen[w] <= gen[w] /\ (seen[w] = gen[w] => view[w] = shown[w])

\* A watcher past try_subscribe has its slot in the hub.
Registered ==
    \A w \in Watchers : pc[w] \notin {"idle", "busy"} => w \in followers

\* No list is from the future.
Past ==
    /\ \A t \in Threads : snapAt[t] <= version
    /\ \A w \in Watchers : newest[w] <= version

\* A thread that has not taken its list yet, or holds the current one.
Carries(t) ==
    \/ pc[t] \in {"count", "list"}
    \/ pc[t] \in {"recheck", "publish"} /\ snapAt[t] = version

\* A registered slot was offered the current list or somebody is bringing it.
Coming ==
    \A w \in followers \cap Watchers : newest[w] = version \/ \E t \in Threads : Carries(t)

HubInv == Shape /\ Caught /\ Registered /\ Past /\ Coming

----------------------------------------------------------------------------
(* Every step preserves the invariant.                                      *)

\* A change starts the way of the new list: the writer itself carries it.
LEMMA WriteStep ==
    ASSUME HubInv, NEW t \in Writers, NEW s \in Services, NEW q \in States, SetState(t, s, q)
    PROVE  HubInv'
<1> USE DEF HubInv, SetState, Goto, slotVars, clientVars
<1>0. t \in Threads
  BY DEF Threads
<1>1. Shape'
  BY <1>0 DEF Shape
<1>2. Caught'
  BY DEF Caught
<1>3. Registered'
  BY ThreadsAssumption DEF Registered, Shape, Threads
<1>4. Past'
  BY DEF Past, Shape
<1>5. Carries(t)'
  BY <1>0 DEF Carries, Shape
<1>6. Coming'
  BY <1>0, <1>5 DEF Coming
<1> QED BY <1>1, <1>2, <1>3, <1>4, <1>6

\* The two looks at the count stop a thread only while nobody is registered.
LEMMA CountStep ==
    ASSUME HubInv, NEW t \in Threads, Count(t) \/ Recheck(t)
    PROVE  HubInv'
<1> USE DEF HubInv, Count, Recheck, Goto, After, slotVars, clientVars
<1>1. Shape'
  BY DEF Shape
<1>2. Caught'
  BY DEF Caught
<1>3. Registered'
  BY DEF Registered, Shape, Threads
<1>4. Past'
  BY DEF Past
<1>5. Coming'
  <2>1. ASSUME followers # {}, NEW u \in Threads, Carries(u) PROVE Carries(u)'
    BY <2>1 DEF Carries, Shape
  <2> QED BY <2>1 DEF Coming
<1> QED BY <1>1, <1>2, <1>3, <1>4, <1>5

\* The list that is taken is the current one.
LEMMA ListStep ==
    ASSUME HubInv, NEW t \in Threads, List(t)
    PROVE  HubInv'
<1> USE DEF HubInv, List, Goto, slotVars, clientVars
<1>1. Shape'
  BY DEF Shape
<1>2. Caught'
  BY DEF Caught
<1>3. Registered'
  BY DEF Registered, Shape, Threads
<1>4. Past'
  BY DEF Past, Shape
<1>5. Carries(t)'
  BY DEF Carries, Shape
<1>6. Coming'
  BY <1>5 DEF Coming
<1> QED BY <1>1, <1>2, <1>3, <1>4, <1>6

\* Publishing opens a generation for every view that changes, and a thread
\* that carried the current list has offered it to every slot.
LEMMA PublishStep ==
    ASSUME HubInv, NEW t \in Threads, Publish(t)
    PROVE  HubInv'
<1> USE DEF HubInv, Publish, Goto, After, clientVars
<1>1. Shape'
  <2>1. \A w \in Watchers : gen'[w] \in Nat
    BY DEF Shape, NextGen
  <2>2. \A w \in Watchers : newest'[w] \in Nat
    BY DEF Shape
  <2> QED BY <2>1, <2>2 DEF Shape
<1>2. Caught'
  BY DEF Caught, Shape, NextGen
<1>3. Registered'
  BY DEF Registered, Shape, Threads
<1>4. Past'
  BY DEF Past, Shape
<1>5. Coming'
  <2> SUFFICES ASSUME NEW w \in followers \cap Watchers
               PROVE  newest'[w] = version' \/ \E u \in Threads : Carries(u)'
    BY DEF Coming
  <2>1. CASE newest[w] = version
    BY <2>1 DEF Past, Shape
  <2>2. ASSUME NEW u \in Threads, Carries(u), u # t PROVE Carries(u)'
    BY <2>2 DEF Carries, Shape
  <2>3. CASE Carries(t)
    BY <2>3 DEF Carries, Past, Shape
  <2> QED BY <2>1, <2>2, <2>3 DEF Coming
<1> QED BY <1>1, <1>2, <1>3, <1>4, <1>5

\* A new slot is empty, and its own handler is the one that brings the list.
LEMMA SubscribeStep ==
    ASSUME HubInv, NEW w \in Watchers, Subscribe(w)
    PROVE  HubInv'
<1> USE DEF HubInv, Subscribe, Goto, slotVars, clientVars
<1>0. w \in Threads
  BY DEF Threads
<1>1. Shape'
  BY <1>0 DEF Shape
<1>2. Caught'
  BY DEF Caught
<1>3. Registered'
  BY DEF Registered, Shape, Threads
<1>4. Past'
  BY DEF Past
<1>5. Carries(w)'
  BY <1>0 DEF Carries, Shape
<1>6. Coming'
  BY <1>0, <1>5 DEF Coming
<1> QED BY <1>1, <1>2, <1>3, <1>4, <1>6

\* The other steps of a client touch no thread that carries a list.
LEMMA ClientStep ==
    ASSUME HubInv, NEW w \in Watchers, Refuse(w) \/ Refused(w) \/ Deliver(w) \/ Hangup(w)
    PROVE  HubInv'
<1> USE DEF HubInv, Refuse, Refused, Deliver, Hangup, Goto, slotVars, clientVars, threadVars
<1>0. w \in Threads
  BY DEF Threads
<1>1. Shape'
  BY <1>0 DEF Shape
<1>2. Caught'
  BY DEF Caught, Shape
<1>3. Registered'
  BY DEF Registered, Shape, Threads
<1>4. Past'
  BY DEF Past, Shape
<1>5. ASSUME NEW u \in Threads, Carries(u) PROVE Carries(u)'
  BY <1>0, <1>5 DEF Carries, Shape
<1>6. Coming'
  BY <1>5 DEF Coming, Shape
<1> QED BY <1>1, <1>2, <1>3, <1>4, <1>6

----------------------------------------------------------------------------
\* HubInv holds in every state of the hub, its writers and its clients.
THEOREM HubInvHolds == Spec => []HubInv
<1>1. Init => HubInv
  BY BoundAssumption
  DEF Init, HubInv, Shape, Caught, Registered, Past, Coming, Threads
<1>2. HubInv /\ [Next]_vars => HubInv'
  <2> SUFFICES ASSUME HubInv, [Next]_vars PROVE HubInv'
    OBVIOUS
  <2>1. CASE UNCHANGED vars
    BY <2>1
    DEF vars, threadVars, slotVars, clientVars, HubInv, Shape, Caught, Registered, Past, Coming, Carries
  <2>2. CASE Next
    BY <2>2, WriteStep, CountStep, ListStep, PublishStep, SubscribeStep, ClientStep DEF Next, Notify
  <2> QED BY <2>1, <2>2
<1> QED BY <1>1, <1>2, PTL DEF Spec

\* No wakeup of the delivery loop is lost, however publishes and deliveries mix.
THEOREM WakeNotLostHolds == Spec => []WakeNotLost
<1>1. HubInv => WakeNotLost
  BY DEF HubInv, Caught, WakeNotLost
<1> QED BY <1>1, HubInvHolds, PTL

\* Every state change is offered to every subscribed client: the shortcut over the
\* follower count and the seeding of a new slot leave no gap.
THEOREM NoWriteMissedHolds == Spec => []NoWriteMissed
<1>1. HubInv => NoWriteMissed
  <2> SUFFICES ASSUME HubInv, AtRest, NEW w \in Watchers, pc[w] = "wait"
               PROVE  newest[w] = version
    BY DEF NoWriteMissed
  <2>1. w \in followers \cap Watchers
    BY DEF HubInv, Registered
  <2>2. \A t \in Threads : ~ Carries(t)
    BY DEF AtRest, Carries
  <2> QED BY <2>1, <2>2 DEF HubInv, Coming
<1> QED BY <1>1, HubInvHolds, PTL
===============================================================================
