----------------------------- MODULE ServiceGraph -----------------------------
(****************************************************************************)
(* Start and stop order of src/graph.rs: the topological sort that builds   *)
(* an indegree table and repeatedly pops the ready service with the least   *)
(* (orderPriority, name), the split into foreground and background lists    *)
(* that boot starts, and the order stop_all_ordered stops.                  *)
(*                                                                          *)
(* A service name is its rank in alphabetical order; config.services lists  *)
(* the names in the order Config.  dependsOn lists may repeat a name, name  *)
(* the service itself, or name a service that does not exist.               *)
(****************************************************************************)
EXTENDS Naturals, Sequences, FiniteSets

CONSTANTS
    Config,    \* the names, in the order of config.services
    Ghost,     \* a name that no service has
    DepLists,  \* dependsOn lists a service may have
    Prios,     \* orderPriority values
    Kinds      \* {"off", "fg", "bg"}: disabled, foreground, background

Names == {Config[i] : i \in 1..Len(Config)}

ASSUME ConfigAssumption ==
    /\ Config \in Seq(Nat)
    /\ \A i, j \in 1..Len(Config) : Config[i] = Config[j] => i = j  \* validate
ASSUME GhostAssumption == Ghost \notin Names
ASSUME DepListsAssumption == DepLists \subseteq Seq(Names \cup {Ghost})
ASSUME PriosAssumption == Prios \subseteq Nat
ASSUME KindsAssumption == Kinds \subseteq {"off", "fg", "bg"}

VARIABLES
    deps,      \* input: dependsOn of each service
    prio,      \* input: orderPriority
    kind,      \* input: enabled and background
    phase,     \* build, sort; ok, cycle or unknown; started or refused
    indegree,
    ready,     \* the BTreeSet of (priority, name), by name
    order,
    involved,  \* the service Error::Cycle names, Ghost if none
    boot,      \* names in the order boot() sends Start
    stop       \* names in the order stop_all_ordered() sends Stop

inputs == <<deps, prio, kind>>
vars == <<inputs, phase, indegree, ready, order, involved, boot, stop>>

Placed == {order[i] : i \in 1..Len(order)}

\* The edges from d to c: positions of c's list that hold d.
Edges(d, c) == {i \in 1..Len(deps[c]) : deps[c][i] = d}

\* The order of the BTreeSet.
Before(m, n) == prio[m] < prio[n] \/ (prio[m] = prio[n] /\ m < n)

\* Every variable has its type.
TypeOK ==
    /\ deps \in [Names -> DepLists]
    /\ prio \in [Names -> Prios]
    /\ kind \in [Names -> Kinds]
    /\ phase \in {"build", "sort", "ok", "cycle", "unknown", "started",
                 "refused"}
    /\ indegree \in [Names -> Nat]
    /\ ready \in SUBSET Names
    /\ order \in Seq(Names)
    /\ involved \in Names \cup {Ghost}
    /\ boot \in Seq(Names)
    /\ stop \in Seq(Names)

Init ==
    /\ deps \in [Names -> DepLists]
    /\ prio \in [Names -> Prios]
    /\ kind \in [Names -> Kinds]
    /\ phase = "build"
    /\ indegree = [n \in Names |-> 0]
    /\ ready = {}
    /\ order = <<>>
    /\ involved = Ghost
    /\ boot = <<>>
    /\ stop = <<>>

----------------------------------------------------------------------------
(* topological_sort.                                                        *)

UnknownDep ==
    /\ phase = "build"
    /\ \E n \in Names : Edges(Ghost, n) # {}
    /\ phase' = "unknown"
    /\ UNCHANGED <<inputs, indegree, ready, order, involved, boot, stop>>

BuildTable ==
    /\ phase = "build"
    /\ \A n \in Names : Edges(Ghost, n) = {}
    /\ phase' = "sort"
    /\ indegree' = [n \in Names |-> Len(deps[n])]
    /\ ready' = {n \in Names : Len(deps[n]) = 0}
    /\ UNCHANGED <<inputs, order, involved, boot, stop>>

First(n) == n \in ready /\ \A m \in ready \ {n} : Before(n, m)

\* Mutant: a child is ready after its first edge.
Released_FirstEdge(n) == {c \in Names : Edges(n, c) # {}}

Released(n) ==
    {c \in Names : Edges(n, c) # {} /\ indegree[c] = Cardinality(Edges(n, c))}

\* Mutant: a repeated edge counts once.
Degrees_Once(n) ==
    [c \in Names |-> IF Edges(n, c) # {} THEN indegree[c] - 1 ELSE indegree[c]]

Degrees(n) == [c \in Names |-> indegree[c] - Cardinality(Edges(n, c))]

Pop(n) ==
    /\ phase = "sort"
    /\ First(n)
    /\ order' = Append(order, n)
    /\ indegree' = Degrees(n)
    /\ ready' = (ready \ {n}) \cup Released(n)
    /\ UNCHANGED <<inputs, phase, involved, boot, stop>>

Sorted ==
    /\ phase = "sort"
    /\ ready = {}
    /\ Len(order) = Len(Config)
    /\ phase' = "ok"
    /\ UNCHANGED <<inputs, indegree, ready, order, involved, boot, stop>>

\* Error::Cycle names the first leftover of a HashMap: any of them.
CycleFound ==
    /\ phase = "sort"
    /\ ready = {}
    /\ Len(order) # Len(Config)
    /\ phase' = "cycle"
    /\ \E n \in Names : indegree[n] > 0 /\ involved' = n
    /\ UNCHANGED <<inputs, indegree, ready, order, boot, stop>>

----------------------------------------------------------------------------
(* partition_boot, shutdown_order and their callers.                        *)

Backward(q) == [i \in 1..Len(q) |-> q[Len(q) + 1 - i]]

\* The services of kind k, in the order of q.
Picked(q, k) ==
    LET pick[i \in 0..Len(q)] ==
            IF i = 0 THEN <<>>
            ELSE IF kind[q[i]] = k THEN Append(pick[i - 1], q[i]) ELSE pick[i - 1]
    IN  pick[Len(q)]

\* Mutant: the foreground list, for which boot waits, goes first.
BootOf_ForegroundFirst(q) == Picked(q, "fg") \o Picked(q, "bg")

\* boot() sends Start to the background list, then to the foreground list.
BootOf(q) == Picked(q, "bg") \o Picked(q, "fg")

\* Mutant: the services are stopped in start order.
StopOf_Forward(q) == q

StopOf(q) == Backward(q)

Started ==
    /\ phase = "ok"
    /\ phase' = "started"
    /\ boot' = BootOf(order)
    /\ stop' = StopOf(order)
    /\ UNCHANGED <<inputs, indegree, ready, order, involved>>

\* Without an order boot fails.  A reload does accept a cycle (Config::validate
\* looks for unknown names only), and then stop_all_ordered falls back on the
\* reverse of the configuration.
NotStarted ==
    /\ phase \in {"cycle", "unknown"}
    /\ phase' = "refused"
    /\ stop' = Backward(Config)
    /\ UNCHANGED <<inputs, indegree, ready, order, involved, boot>>

Done == phase \in {"started", "refused"} /\ UNCHANGED vars

Next ==
    \/ UnknownDep \/ BuildTable
    \/ \E n \in Names : Pop(n)
    \/ Sorted \/ CycleFound
    \/ Started \/ NotStarted
    \/ Done

Spec == Init /\ [][Next]_vars

----------------------------------------------------------------------------
(* Properties.                                                              *)

Needs(n) == {deps[n][i] : i \in 1..Len(deps[n])}

\* The table stays exact under repeated edges and self-edges: the indegree of a
\* service is the number of its list positions not placed yet, so the usize
\* never goes below zero, and the ready set is exactly the services that wait
\* for nothing.
TableExact ==
    phase = "sort" =>
        /\ \A c \in Names :
              indegree[c] = Cardinality({i \in 1..Len(deps[c]) : deps[c][i] \notin Placed})
        /\ ready = {c \in Names \ Placed : Needs(c) \subseteq Placed}

\* Every service is placed once, after everything it depends on.
Topological ==
    \A i \in 1..Len(order) :
        /\ \A d \in Needs(order[i]) : \E j \in 1..(i - 1) : order[j] = d
        /\ \A j \in 1..Len(order) : order[i] = order[j] => i = j

\* A service is overtaken by one of a lower (orderPriority, name) only if that
\* one still waited for a dependency at the time.
Greedy ==
    \A i, j \in 1..Len(order) :
        i < j /\ Before(order[j], order[i]) =>
            \E k \in i..(j - 1) : order[k] \in Needs(order[j])

\* A set of services each of which needs another of the set: nothing in it can
\* ever start.
Stuck(S) == S # {} /\ \A n \in S : Needs(n) \cap S # {}

\* The verdict is right: an order is returned exactly when no set of services
\* waits for itself, and an error exactly when one does; the service the error
\* names is one of those that cannot start.
VerdictRight ==
    /\ phase = "ok" => ~ \E S \in SUBSET Names : Stuck(S)
    /\ phase = "cycle" => \E S \in SUBSET Names : Stuck(S) /\ involved \in S

\* Shutdown reaches every service exactly once whatever the graph looks like,
\* and when boot had an order each service is stopped before what it needs.
StopsAll ==
    phase \in {"started", "refused"} =>
        /\ Len(stop) = Len(Config)
        /\ {stop[i] : i \in 1..Len(stop)} = Names
        /\ phase = "started" =>
              \A i, j \in 1..Len(stop) : stop[j] \in Needs(stop[i]) => i < j

\* boot() sends its Starts in an order in which no service overtakes what it
\* needs: everything enabled that a foreground service depends on was sent its
\* Start before it; a background service follows every background service it
\* depends on; and each enabled service is sent one Start.
BootFeeds ==
    phase = "started" =>
        /\ \A n \in Names : Cardinality({i \in 1..Len(boot) : boot[i] = n})
                              = (IF kind[n] = "off" THEN 0 ELSE 1)
        /\ \A j \in 1..Len(boot) : \A d \in Needs(boot[j]) :
              kind[d] \in {"bg", kind[boot[j]]} => \E i \in 1..(j - 1) : boot[i] = d
===============================================================================
