-------------------------- MODULE ServiceGraphProofs --------------------------
(****************************************************************************)
(* Proofs about topological_sort, partition_boot and shutdown_order for every *)
(* configuration: any number of services, any dependsOn lists (repeated,    *)
(* self and unknown names included) and any priorities.                     *)
(****************************************************************************)
EXTENDS ServiceGraph, FiniteSetTheorems, WellFoundedInduction, TLAPS

----------------------------------------------------------------------------
(* The inductive invariant.                                                 *)

SortType ==
    /\ deps \in [Names -> DepLists]
    /\ prio \in [Names -> Prios]
    /\ phase \in {"build", "sort", "ok", "cycle", "unknown", "started", "refused"}
    /\ indegree \in [Names -> Nat]
    /\ ready \in SUBSET Names
    /\ order \in Seq(Names)

\* Nothing is placed before the table is built, and the table is only built
\* when every name is known.
Progress ==
    /\ phase = "build" => order = <<>>
    /\ phase \in {"sort", "ok", "cycle", "started"} =>
          \A n \in Names : Edges(Ghost, n) = {}
    /\ phase \in {"ok", "started"} => Len(order) = Len(Config)

\* When order[i] was popped, a service of lower (orderPriority, name) that was
\* not placed yet still waited for something.
Overtaken ==
    \A i \in 1..Len(order) : \A c \in Names :
        (\A k \in 1..i : order[k] # c) /\ Before(c, order[i]) =>
            \E d \in Needs(c) : \A k \in 1..(i - 1) : order[k] # d

\* No service that waits for itself is ever placed.
Avoids == \A S \in SUBSET Names : Stuck(S) => S \cap Placed = {}

SortInv == SortType /\ Progress /\ TableExact /\ Topological /\ Overtaken /\ Avoids

----------------------------------------------------------------------------
(* Positions of a dependsOn list.                                           *)

Unplaced(c) == {i \in 1..Len(deps[c]) : deps[c][i] \notin Placed}

\* A name is its rank.
LEMMA NamesAreNat == Names \subseteq Nat
BY ConfigAssumption DEF Names

\* A dependsOn list is a sequence of names.
LEMMA DepsType ==
    ASSUME SortType, NEW c \in Names
    PROVE  deps[c] \in Seq(Names \cup {Ghost})
BY DepListsAssumption DEF SortType

\* A set of list positions is finite.
LEMMA PositionsFinite ==
    ASSUME SortType, NEW c \in Names, NEW T \in SUBSET (1..Len(deps[c]))
    PROVE  IsFiniteSet(T) /\ Cardinality(T) \in Nat
<1>1. Len(deps[c]) \in Nat
  BY DepsType
<1>2. IsFiniteSet(1..Len(deps[c]))
  BY <1>1, FS_Interval
<1>3. IsFiniteSet(T)
  BY <1>2, FS_Subset
<1> QED
  BY <1>3, FS_CardinalityType

\* What a list needs and what its positions hold.
LEMMA NeedsEdges ==
    ASSUME NEW c \in Names, NEW d
    PROVE  d \in Needs(c) <=> Edges(d, c) # {}
BY DEF Needs, Edges

\* Everything a placed service needs is placed.
LEMMA PlacedClosed ==
    ASSUME SortType, Topological, NEW c \in Placed
    PROVE  Needs(c) \subseteq Placed
<1>1. Len(order) \in Nat
  BY DEF SortType
<1>2. PICK i \in 1..Len(order) : order[i] = c
  BY DEF Placed
<1> QED
  BY <1>1, <1>2 DEF Topological, Placed

\* What is placed are names.
LEMMA PlacedType ==
    ASSUME SortType
    PROVE  Placed \subseteq Names
BY DEF SortType, Placed

\* Popping a service adds it to the end of the order.
LEMMA PopOrder ==
    ASSUME SortType, NEW n \in Names, order' = Append(order, n)
    PROVE  /\ order' \in Seq(Names)
           /\ Len(order') = Len(order) + 1
           /\ Len(order) \in Nat
           /\ order'[Len(order) + 1] = n
           /\ \A i \in 1..Len(order) : order'[i] = order[i]
           /\ Placed' = Placed \cup {n}
<1>1. /\ order \in Seq(Names)
      /\ Len(order) \in Nat
  BY DEF SortType
<1>2. /\ order' \in Seq(Names)
      /\ Len(order') = Len(order) + 1
      /\ order'[Len(order) + 1] = n
      /\ \A i \in 1..Len(order) : order'[i] = order[i]
  BY <1>1
<1>3. Placed' = {order'[i] : i \in 1..Len(order')}
  BY DEF Placed
<1>4. 1..Len(order') = (1..Len(order)) \cup {Len(order) + 1}
  BY <1>1, <1>2
<1>5. Placed' = {order[i] : i \in 1..Len(order)} \cup {n}
  <2>1. ASSUME NEW x \in Placed'
        PROVE  x \in {order[i] : i \in 1..Len(order)} \cup {n}
    BY <2>1, <1>2, <1>3, <1>4
  <2>2. ASSUME NEW i \in 1..Len(order)
        PROVE  order[i] \in Placed'
    BY <2>2, <1>2, <1>3, <1>4
  <2>3. n \in Placed'
    <3>1. Len(order) + 1 \in 1..Len(order')
      BY <1>4
    <3> QED
      BY <3>1, <1>2, <1>3
  <2> QED
    BY <2>1, <2>2, <2>3
<1> QED
  BY <1>1, <1>2, <1>5 DEF Placed

----------------------------------------------------------------------------
(* One iteration of the sort.                                               *)

\* The table while the sort runs, position by position.
LEMMA TableFacts ==
    ASSUME SortInv, phase = "sort", NEW c \in Names
    PROVE  /\ indegree[c] = Cardinality(Unplaced(c))
           /\ Unplaced(c) \subseteq 1..Len(deps[c])
           /\ c \in ready <=> c \notin Placed /\ Needs(c) \subseteq Placed
           /\ Needs(c) \subseteq Placed <=> Unplaced(c) = {}
<1>1. indegree[c] = Cardinality(Unplaced(c))
  BY DEF SortInv, TableExact, Unplaced
<1>2. c \in ready <=> c \notin Placed /\ Needs(c) \subseteq Placed
  BY DEF SortInv, TableExact
<1>3. Needs(c) \subseteq Placed <=> Unplaced(c) = {}
  BY DEF Needs, Unplaced
<1> QED
  BY <1>1, <1>2, <1>3 DEF Unplaced

\* A decrement per edge leaves the number of positions that are still open.
LEMMA PopTable ==
    ASSUME SortInv, NEW n \in Names, Pop(n), NEW c \in Names
    PROVE  /\ Unplaced(c)' = Unplaced(c) \ Edges(n, c)
           /\ Edges(n, c) \subseteq Unplaced(c)
           /\ indegree'[c] = Cardinality(Unplaced(c)')
           /\ indegree'[c] \in Nat
<1> USE DEF SortInv
<1>1. phase = "sort" /\ n \in ready /\ deps' = deps /\ order' = Append(order, n)
  BY DEF Pop, First, inputs
<1>2. n \notin Placed
  BY <1>1, TableFacts
<1>3. Placed' = Placed \cup {n}
  BY <1>1, PopOrder
<1>4. Edges(n, c) \subseteq Unplaced(c)
  BY <1>2 DEF Edges, Unplaced
<1>5. Unplaced(c)' = Unplaced(c) \ Edges(n, c)
  BY <1>1, <1>3 DEF Edges, Unplaced
<1>6. IsFiniteSet(Unplaced(c)) /\ Cardinality(Unplaced(c)) \in Nat
  BY PositionsFinite DEF Unplaced
<1>7. Cardinality(Unplaced(c) \ Edges(n, c))
        = Cardinality(Unplaced(c)) - Cardinality(Edges(n, c))
  <2>1. Unplaced(c) \cap Edges(n, c) = Edges(n, c)
    BY <1>4
  <2> QED
    BY <1>6, <2>1, FS_Difference
<1>8. indegree'[c] = indegree[c] - Cardinality(Edges(n, c))
  BY DEF Pop, Degrees
<1>9. indegree[c] = Cardinality(Unplaced(c))
  BY <1>1, TableFacts
<1>10. indegree'[c] = Cardinality(Unplaced(c)')
  BY <1>5, <1>7, <1>8, <1>9
<1>11. Cardinality(Unplaced(c)') \in Nat
  <2>1. Unplaced(c) \ Edges(n, c) \in SUBSET (1..Len(deps[c]))
    BY DEF Unplaced
  <2> QED
    BY <1>5, <2>1, PositionsFinite
<1> QED
  BY <1>4, <1>5, <1>10, <1>11

\* The ready set after a pop is again exactly the services that wait for
\* nothing, so the last edge releases a service, and no earlier one.
LEMMA PopReady ==
    ASSUME SortInv, NEW n \in Names, Pop(n), NEW c \in Names
    PROVE  c \in ready' <=> c \notin Placed' /\ Needs(c)' \subseteq Placed'
<1> USE DEF SortInv
<1>1. phase = "sort" /\ n \in ready /\ deps' = deps /\ order' = Append(order, n)
  BY DEF Pop, First, inputs
<1>2. n \notin Placed /\ Needs(n) \subseteq Placed
  BY <1>1, TableFacts
<1>3. Placed' = Placed \cup {n}
  BY <1>1, PopOrder
<1>4. Needs(c)' = Needs(c)
  BY <1>1 DEF Needs
<1>5. c \in ready' <=> (c \in ready /\ c # n) \/ c \in Released(n)
  BY DEF Pop
<1>6. c \in Released(n) <=>
        Edges(n, c) # {} /\ Cardinality(Unplaced(c)) = Cardinality(Edges(n, c))
  BY <1>1, TableFacts DEF Released
<1>7. Edges(n, c) \subseteq Unplaced(c) /\ IsFiniteSet(Unplaced(c))
  BY PopTable, PositionsFinite DEF Unplaced
<1>8. Cardinality(Unplaced(c)) = Cardinality(Edges(n, c)) <=> Unplaced(c) = Edges(n, c)
  BY <1>7, FS_Subset
<1>9. Unplaced(c) = Edges(n, c) <=> Needs(c) \subseteq Placed \cup {n}
  BY <1>2, <1>7 DEF Unplaced, Edges, Needs
<1>10. Edges(n, c) # {} <=> n \in Needs(c)
  BY NeedsEdges
<1>11. n \in Needs(c) => c \notin Placed /\ c # n
  BY <1>2, PlacedClosed
<1>12. c \in ready <=> c \notin Placed /\ Needs(c) \subseteq Placed
  BY <1>1, TableFacts
<1>13. c \in Released(n) <=> n \in Needs(c) /\ Needs(c) \subseteq Placed \cup {n}
  BY <1>6, <1>8, <1>9, <1>10
<1> QED
  BY <1>2, <1>3, <1>4, <1>5, <1>11, <1>12, <1>13

\* Pop keeps the types and the exact table.
LEMMA PopKeepsTable ==
    ASSUME SortInv, NEW n \in Names, Pop(n)
    PROVE  SortType' /\ Progress' /\ TableExact'
<1> USE DEF SortInv
<1>1. /\ phase = "sort" /\ phase' = phase
      /\ deps' = deps /\ prio' = prio /\ order' = Append(order, n)
  BY DEF Pop, inputs
<1>2. order' \in Seq(Names)
  BY <1>1, PopOrder
<1>3. indegree' \in [Names -> Nat]
  <2>1. indegree' = Degrees(n)
    BY DEF Pop
  <2>2. \A c \in Names : indegree'[c] \in Nat
    BY PopTable
  <2> QED
    BY <2>1, <2>2 DEF Degrees
<1>4. ready' \in SUBSET Names
  BY DEF Pop, Released, SortType
<1>5. SortType'
  BY <1>1, <1>2, <1>3, <1>4 DEF SortType
<1>6. Progress'
  BY <1>1 DEF Progress, Edges
<1>7. \A c \in Names : indegree'[c] = Cardinality(Unplaced(c)')
  BY PopTable
<1>8. ready' = {c \in Names \ Placed' : Needs(c)' \subseteq Placed'}
  BY <1>4, PopReady
<1>9. TableExact'
  BY <1>7, <1>8 DEF TableExact, Unplaced
<1> QED
  BY <1>5, <1>6, <1>9

\* Pop appends a service that was not placed and whose needs all are.
LEMMA PopKeepsOrder ==
    ASSUME SortInv, NEW n \in Names, Pop(n)
    PROVE  Topological'
<1> USE DEF SortInv
<1>1. phase = "sort" /\ n \in ready /\ deps' = deps /\ order' = Append(order, n)
  BY DEF Pop, First, inputs
<1>2. /\ Len(order') = Len(order) + 1
      /\ Len(order) \in Nat
      /\ order'[Len(order) + 1] = n
      /\ \A i \in 1..Len(order) : order'[i] = order[i]
  BY <1>1, PopOrder
<1>3. n \notin Placed /\ Needs(n) \subseteq Placed
  BY <1>1, TableFacts
<1>5. ASSUME NEW i \in 1..Len(order')
      PROVE  \A d \in Needs(order'[i]) : \E j \in 1..(i - 1) : order'[j] = d
  <2>1. CASE i \in 1..Len(order)
    <3>1. \A d \in Needs(order[i]) : \E j \in 1..(i - 1) : order[j] = d
      BY <2>1 DEF Topological
    <3>2. \A j \in 1..(i - 1) : order'[j] = order[j]
      BY <2>1, <1>2
    <3> QED
      BY <3>1, <3>2, <2>1, <1>2
  <2>2. CASE i = Len(order) + 1
    <3>1. order'[i] = n /\ i - 1 = Len(order)
      BY <2>2, <1>2
    <3>2. ASSUME NEW d \in Needs(n)
          PROVE  \E j \in 1..Len(order) : order'[j] = d
      BY <3>2, <1>2, <1>3 DEF Placed
    <3> QED
      BY <3>1, <3>2
  <2> QED
    BY <2>1, <2>2, <1>2
<1>6. ASSUME NEW i \in 1..Len(order'), NEW j \in 1..Len(order'), order'[i] = order'[j]
      PROVE  i = j
  <2>1. CASE i \in 1..Len(order) /\ j \in 1..Len(order)
    BY <2>1, <1>2, <1>6 DEF Topological
  <2>2. CASE i = Len(order) + 1 /\ j \in 1..Len(order)
    BY <2>2, <1>2, <1>3, <1>6 DEF Placed
  <2>3. CASE i \in 1..Len(order) /\ j = Len(order) + 1
    BY <2>3, <1>2, <1>3, <1>6 DEF Placed
  <2>4. CASE i = Len(order) + 1 /\ j = Len(order) + 1
    BY <2>4
  <2> QED
    BY <2>1, <2>2, <2>3, <2>4, <1>2
<1>7. ASSUME NEW i \in 1..Len(order')
      PROVE  (\A d \in Needs(order[i]) : \E j \in 1..(i - 1) : order[j] = d)'
  <2>1. Needs(order[i])' = Needs(order'[i])
    BY <1>1 DEF Needs
  <2> QED
    BY <2>1, <1>5
<1> QED
  BY <1>6, <1>7 DEF Topological

\* Pop takes the least ready service: one that comes before it is not ready.
LEMMA PopKeepsOvertaken ==
    ASSUME SortInv, NEW n \in Names, Pop(n)
    PROVE  Overtaken'
<1> USE DEF SortInv
<1>1. /\ phase = "sort" /\ n \in ready /\ First(n)
      /\ deps' = deps /\ prio' = prio /\ order' = Append(order, n)
  BY DEF Pop, First, inputs
<1>2. /\ Len(order') = Len(order) + 1
      /\ Len(order) \in Nat
      /\ order'[Len(order) + 1] = n
      /\ \A i \in 1..Len(order) : order'[i] = order[i]
  BY <1>1, PopOrder
<1>5. ASSUME NEW i \in 1..Len(order'), NEW c \in Names,
             \A k \in 1..i : order'[k] # c, Before(c, order'[i])
      PROVE  \E d \in Needs(c) : \A k \in 1..(i - 1) : order'[k] # d
  <2>1. CASE i \in 1..Len(order)
    <3>1. \A k \in 1..i : order'[k] = order[k]
      BY <2>1, <1>2
    <3>2. \A k \in 1..(i - 1) : order'[k] = order[k]
      BY <2>1, <1>2
    <3>3. i \in 1..i
      BY <2>1, <1>2
    <3>4. (\A k \in 1..i : order[k] # c) /\ Before(c, order[i])
      BY <3>1, <3>3, <1>5
    <3>5. \E d \in Needs(c) : \A k \in 1..(i - 1) : order[k] # d
      BY <3>4, <2>1 DEF Overtaken
    <3> QED
      BY <3>2, <3>5
  <2>2. CASE i = Len(order) + 1
    <3>1. order'[i] = n /\ i - 1 = Len(order) /\ i \in 1..i
      BY <2>2, <1>2
    <3>2. c # n /\ Before(c, n)
      BY <3>1, <1>5
    <3>3. c \notin Placed
      <4>1. \A k \in 1..Len(order) : order[k] # c
        BY <1>2, <1>5, <2>2
      <4> QED
        BY <4>1 DEF Placed
    <3>4. c \notin ready
      <4>1. ~Before(n, c)
        <5>1. prio[c] \in Nat /\ prio[n] \in Nat
          BY PriosAssumption DEF SortType
        <5>2. c \in Nat /\ n \in Nat
          BY NamesAreNat
        <5> QED
          BY <5>1, <5>2, <3>2 DEF Before
      <4> QED
        BY <4>1, <3>2, <1>1 DEF First
    <3>5. ~(Needs(c) \subseteq Placed)
      BY <3>3, <3>4, <1>1, TableFacts
    <3>6. PICK d \in Needs(c) : d \notin Placed
      BY <3>5
    <3>7. \A k \in 1..Len(order) : order'[k] # d
      BY <3>6, <1>2 DEF Placed
    <3> QED
      BY <3>1, <3>6, <3>7
  <2> QED
    BY <2>1, <2>2, <1>2
<1>6. ASSUME NEW i \in 1..Len(order'), NEW c \in Names,
             \A k \in 1..i : order'[k] # c, Before(c, order[i])'
      PROVE  (\E d \in Needs(c) : \A k \in 1..(i - 1) : order[k] # d)'
  <2>1. Before(c, order'[i])
    BY <1>1, <1>6 DEF Before
  <2>2. Needs(c)' = Needs(c)
    BY <1>1 DEF Needs
  <2> QED
    BY <2>1, <2>2, <1>5, <1>6
<1> QED
  BY <1>6 DEF Overtaken

\* Pop places no service of a set that waits for itself: one of what it needs
\* would have been placed before.
LEMMA PopAvoids ==
    ASSUME SortInv, NEW n \in Names, Pop(n)
    PROVE  Avoids'
<1> USE DEF SortInv
<1>1. phase = "sort" /\ n \in ready /\ deps' = deps /\ order' = Append(order, n)
  BY DEF Pop, First, inputs
<1>2. Placed' = Placed \cup {n}
  BY <1>1, PopOrder
<1>3. Needs(n) \subseteq Placed
  BY <1>1, TableFacts
<1>4. \A x : Needs(x)' = Needs(x)
  BY <1>1 DEF Needs
<1>5. \A S : Stuck(S)' <=> Stuck(S)
  BY <1>4 DEF Stuck
<1>6. ASSUME NEW S \in SUBSET Names, Stuck(S)
      PROVE  S \cap (Placed \cup {n}) = {}
  <2>1. S \cap Placed = {}
    BY <1>6 DEF Avoids
  <2>2. n \notin S
    BY <1>3, <1>6, <2>1 DEF Stuck
  <2> QED
    BY <2>1, <2>2
<1> QED
  BY <1>2, <1>5, <1>6 DEF Avoids

----------------------------------------------------------------------------
(* The other actions.                                                       *)

\* The initial states satisfy the invariant.
LEMMA SortInit ==
    ASSUME Init PROVE SortInv
<1>1. /\ phase = "build" /\ order = <<>> /\ Len(order) = 0
      /\ deps \in [Names -> DepLists] /\ prio \in [Names -> Prios]
      /\ indegree = [n \in Names |-> 0] /\ ready = {}
  BY DEF Init
<1>2. Placed = {}
  BY <1>1 DEF Placed
<1>3. SortType
  BY <1>1 DEF SortType
<1>4. Progress /\ TableExact
  BY <1>1 DEF Progress, TableExact
<1>5. Topological /\ Overtaken
  BY <1>1 DEF Topological, Overtaken
<1>6. Avoids
  BY <1>2 DEF Avoids
<1> QED
  BY <1>3, <1>4, <1>5, <1>6 DEF SortInv

\* The table is exact when it has been built: nothing is placed yet.
LEMMA BuildKeeps ==
    ASSUME SortInv, BuildTable PROVE SortInv'
<1> USE DEF SortInv
<1>1. /\ phase = "build" /\ phase' = "sort" /\ order = <<>> /\ order' = order
      /\ deps' = deps /\ prio' = prio
      /\ indegree' = [n \in Names |-> Len(deps[n])]
      /\ ready' = {n \in Names : Len(deps[n]) = 0}
      /\ \A n \in Names : Edges(Ghost, n) = {}
  BY DEF BuildTable, inputs, Progress
<1>2. Placed = {} /\ Placed' = {} /\ Len(order') = 0
  BY <1>1 DEF Placed
<1>3. \A n \in Names : Len(deps[n]) \in Nat
  BY DepsType
<1>4. SortType'
  BY <1>1, <1>3 DEF SortType
<1>5. Progress'
  BY <1>1 DEF Progress, Edges
<1>6. ASSUME NEW c \in Names
      PROVE  indegree'[c] = Cardinality({i \in 1..Len(deps[c]) : deps[c][i] \notin {}})
  <2>1. {i \in 1..Len(deps[c]) : deps[c][i] \notin {}} = 1..Len(deps[c])
    OBVIOUS
  <2>2. Cardinality(1..Len(deps[c])) = Len(deps[c])
    BY <1>3, FS_Interval
  <2> QED
    BY <1>1, <2>1, <2>2
<1>7. ASSUME NEW c \in Names
      PROVE  Len(deps[c]) = 0 <=> Needs(c) \subseteq {}
  <2>1. Len(deps[c]) # 0 => deps[c][1] \in Needs(c)
    <3>1. Len(deps[c]) # 0 => 1 \in 1..Len(deps[c])
      BY <1>3
    <3> QED
      BY <3>1 DEF Needs
  <2>2. Len(deps[c]) = 0 => 1..Len(deps[c]) = {}
    OBVIOUS
  <2>3. Len(deps[c]) = 0 => Needs(c) = {}
    BY <2>2 DEF Needs
  <2> QED
    BY <2>1, <2>3
<1>8. \A c \in Names : Needs(c)' = Needs(c)
  BY <1>1 DEF Needs
<1>9. ready' = {c \in Names \ {} : Needs(c)' \subseteq {}}
  BY <1>1, <1>7, <1>8
<1>10. TableExact'
  BY <1>1, <1>2, <1>6, <1>9 DEF TableExact
<1>11. Topological' /\ Overtaken'
  BY <1>2 DEF Topological, Overtaken
<1>12. Avoids'
  BY <1>2 DEF Avoids
<1> QED
  BY <1>4, <1>5, <1>10, <1>11, <1>12

\* A step that leaves the inputs and the order alone keeps what depends on them
\* only.
LEMMA OrderStays ==
    ASSUME SortInv, deps' = deps, prio' = prio, order' = order
    PROVE  Topological' /\ Overtaken' /\ Avoids'
<1> USE DEF SortInv
<1>1. Placed' = Placed
  BY DEF Placed
<1>2. Topological'
  <2>1. \A i : Needs(order[i])' = Needs(order[i])
    BY DEF Needs
  <2> QED
    BY <2>1 DEF Topological
<1>3. Overtaken'
  <2>1. \A c : Needs(c)' = Needs(c)
    BY DEF Needs
  <2>2. ASSUME NEW i \in 1..Len(order), NEW c \in Names,
               \A k \in 1..i : order[k] # c, Before(c, order[i])'
        PROVE  \E d \in Needs(c) : \A k \in 1..(i - 1) : order[k] # d
    <3>1. Before(c, order[i])
      BY <2>2 DEF Before
    <3> QED
      BY <3>1, <2>2 DEF Overtaken
  <2> QED
    BY <2>1, <2>2 DEF Overtaken
<1>4. Avoids'
  <2>1. \A c : Needs(c)' = Needs(c)
    BY DEF Needs
  <2>2. \A S : Stuck(S)' <=> Stuck(S)
    BY <2>1 DEF Stuck
  <2> QED
    BY <1>1, <2>2 DEF Avoids
<1> QED
  BY <1>2, <1>3, <1>4

\* The end of the sort, boot and its refusal move the phase on.
LEMMA PhaseKeeps ==
    ASSUME SortInv,
           UnknownDep \/ Sorted \/ CycleFound \/ Started \/ NotStarted
    PROVE  SortInv'
<1> USE DEF SortInv
<1>1. /\ deps' = deps /\ prio' = prio /\ order' = order
      /\ indegree' = indegree /\ ready' = ready
  BY DEF UnknownDep, Sorted, CycleFound, Started, NotStarted, inputs
<1>2. /\ phase' \in {"unknown", "ok", "cycle", "started", "refused"}
      /\ phase' \in {"ok", "cycle"} => phase = "sort"
      /\ phase' = "ok" => Len(order) = Len(Config)
      /\ phase' = "started" => phase = "ok"
  BY DEF UnknownDep, Sorted, CycleFound, Started, NotStarted
<1>3. SortType'
  BY <1>1, <1>2 DEF SortType
<1>4. Progress'
  BY <1>1, <1>2 DEF Progress, Edges
<1>5. TableExact'
  BY <1>2 DEF TableExact
<1> QED
  BY <1>1, <1>3, <1>4, <1>5, OrderStays

\* Every step keeps the invariant.
LEMMA SortStep ==
    ASSUME SortInv, [Next]_vars PROVE SortInv'
<1>1. CASE UnknownDep \/ Sorted \/ CycleFound \/ Started \/ NotStarted
  BY <1>1, PhaseKeeps
<1>2. CASE BuildTable
  BY <1>2, BuildKeeps
<1>3. ASSUME NEW n \in Names, Pop(n) PROVE SortInv'
  BY <1>3, PopKeepsTable, PopKeepsOrder, PopKeepsOvertaken, PopAvoids DEF SortInv
<1>4. CASE UNCHANGED vars
  <2>1. /\ deps' = deps /\ prio' = prio /\ order' = order /\ phase' = phase
        /\ indegree' = indegree /\ ready' = ready
    BY <1>4 DEF vars, inputs
  <2>2. SortType' /\ Progress'
    BY <2>1 DEF SortInv, SortType, Progress, Edges
  <2>3. Placed' = Placed /\ \A c : Needs(c)' = Needs(c)
    BY <2>1 DEF Placed, Needs
  <2>4. TableExact'
    BY <2>1, <2>3 DEF SortInv, TableExact
  <2> QED
    BY <2>1, <2>2, <2>4, OrderStays DEF SortInv
<1> QED
  BY <1>1, <1>2, <1>3, <1>4 DEF Next, Done

\* The inductive invariant of the sort: the table is exact, the order is
\* topological and greedy so far, and nothing that waits for itself is placed.
THEOREM SortInvHolds == Spec => []SortInv
<1>1. Init => SortInv
  BY SortInit
<1>2. SortInv /\ [Next]_vars => SortInv'
  BY SortStep
<1> QED
  BY <1>1, <1>2, PTL DEF Spec

----------------------------------------------------------------------------
(* The properties.                                                          *)

\* The indegree table of topological_sort is exact in every iteration: it
\* counts the open list positions, never below zero, and the ready set holds
\* exactly the services that wait for nothing.
THEOREM TableExactHolds == Spec => []TableExact
<1>1. SortInv => TableExact
  BY DEF SortInv
<1> QED
  BY <1>1, SortInvHolds, PTL

\* The order that topological_sort builds has every service at most once and
\* after everything it depends on.
THEOREM TopologicalHolds == Spec => []Topological
<1>1. SortInv => Topological
  BY DEF SortInv
<1> QED
  BY <1>1, SortInvHolds, PTL

\* A service is overtaken by one of a higher (orderPriority, name) only while it
\* waits for a dependency.
THEOREM GreedyHolds == Spec => []Greedy
<1>1. ASSUME SortInv PROVE Greedy
  <2> USE <1>1 DEF SortInv
  <2>1. Len(order) \in Nat /\ order \in Seq(Names)
    BY DEF SortType
  <2>2. ASSUME NEW i \in 1..Len(order), NEW j \in 1..Len(order), i < j,
               Before(order[j], order[i])
        PROVE  \E k \in i..(j - 1) : order[k] \in Needs(order[j])
    <3>1. \A k \in 1..i : order[k] # order[j]
      <4>1. ASSUME NEW k \in 1..i, order[k] = order[j] PROVE FALSE
        <5>1. k \in 1..Len(order) /\ k # j
          BY <2>1, <2>2
        <5> QED
          BY <4>1, <5>1 DEF Topological
      <4> QED
        BY <4>1
    <3>2. order[j] \in Names
      BY <2>1
    <3>3. PICK d \in Needs(order[j]) : \A k \in 1..(i - 1) : order[k] # d
      BY <3>1, <3>2, <2>2 DEF Overtaken
    <3>4. PICK k \in 1..(j - 1) : order[k] = d
      BY <3>3 DEF Topological
    <3>5. k \in i..(j - 1)
      BY <2>1, <3>3, <3>4
    <3> QED
      BY <3>3, <3>4, <3>5
  <2> QED
    BY <2>2 DEF Greedy
<1> QED
  BY <1>1, SortInvHolds, PTL

\* An order as long as the configuration has every service.
LEMMA FullOrder ==
    ASSUME SortInv, Len(order) = Len(Config)
    PROVE  Placed = Names
<1> USE DEF SortInv
<1>1. Len(order) \in Nat /\ order \in Seq(Names)
  BY DEF SortType
<1>2. Config \in Seq(Nat) /\ Len(Config) \in Nat
  BY ConfigAssumption
<1>3. IsFiniteSet(1..Len(order)) /\ IsFiniteSet(1..Len(Config))
  BY <1>1, <1>2, FS_Interval
<1>4. Cardinality(1..Len(order)) = Len(order)
  <2>1. ASSUME NEW k \in Nat PROVE Cardinality(1..k) = k
    <3>1. Cardinality(1..k) = IF 1 > k THEN 0 ELSE k - 1 + 1
      BY FS_Interval
    <3> QED
      BY <3>1
  <2> QED
    BY <1>1, <2>1
<1>5. ExistsBijection(1..Len(order), Placed)
  <2>1. order \in [1..Len(order) -> Placed]
    BY <1>1 DEF Placed
  <2>2. order \in Surjection(1..Len(order), Placed)
    BY <2>1 DEF Surjection, Placed
  <2>3. order \in Injection(1..Len(order), Placed)
    BY <2>1 DEF Injection, IsInjective, Topological
  <2> QED
    BY <2>2, <2>3 DEF ExistsBijection, Bijection
<1>6. ExistsBijection(1..Len(Config), Names)
  <2>1. Config \in [1..Len(Config) -> Names]
    BY <1>2 DEF Names
  <2>2. Config \in Surjection(1..Len(Config), Names)
    BY <2>1 DEF Surjection, Names
  <2>3. Config \in Injection(1..Len(Config), Names)
    BY <2>1, ConfigAssumption DEF Injection, IsInjective
  <2> QED
    BY <2>2, <2>3 DEF ExistsBijection, Bijection
<1>7. Cardinality(Placed) = Len(order)
  BY <1>3, <1>4, <1>5, FS_Bijection
<1>8. IsFiniteSet(Names) /\ Cardinality(Names) = Len(order)
  BY <1>3, <1>4, <1>6, FS_Bijection
<1>9. Placed \in SUBSET Names
  BY PlacedType
<1> QED
  BY <1>7, <1>8, <1>9, FS_Subset

\* The leftovers of a sort that stopped short wait for each other.
LEMMA LeftoversStuck ==
    ASSUME SortInv, phase = "sort", ready = {},
           NEW n \in Names, indegree[n] > 0
    PROVE  Stuck(Names \ Placed) /\ n \in Names \ Placed
<1> USE DEF SortInv
<1>1. n \notin Placed
  <2>1. SUFFICES ASSUME n \in Placed PROVE FALSE
    OBVIOUS
  <2>2. Unplaced(n) = {}
    BY <2>1, PlacedClosed, TableFacts
  <2>3. indegree[n] = 0
    BY <2>2, TableFacts, FS_EmptySet
  <2> QED
    BY <2>3
<1>2. ASSUME NEW c \in Names \ Placed
      PROVE  Needs(c) \cap (Names \ Placed) # {}
  <2>1. ~(Needs(c) \subseteq Placed)
    BY <1>2, TableFacts
  <2>2. PICK d \in Needs(c) : d \notin Placed
    BY <2>1
  <2>3. d \in Names \cup {Ghost}
    <3>1. deps[c] \in Seq(Names \cup {Ghost})
      BY <1>2, DepsType
    <3> QED
      BY <2>2, <3>1 DEF Needs
  <2>4. d # Ghost
    BY <1>2, <2>2, NeedsEdges DEF Progress
  <2> QED
    BY <2>2, <2>3, <2>4
<1> QED
  BY <1>1, <1>2 DEF Stuck

\* The service that Error::Cycle names is in a set that waits for itself.
CycleVerdict == phase = "cycle" => \E S \in SUBSET Names : Stuck(S) /\ involved \in S

\* Only CycleFound reports a cycle, and nothing changes what it reported.
LEMMA CycleStep ==
    ASSUME SortInv, CycleVerdict, [Next]_vars PROVE CycleVerdict'
<1>1. SUFFICES ASSUME phase' = "cycle"
               PROVE  \E S \in SUBSET Names : Stuck(S)' /\ involved' \in S
  BY DEF CycleVerdict
<1>2. CycleFound \/ UNCHANGED vars
  BY <1>1 DEF Next, UnknownDep, BuildTable, Pop, Sorted, Started, NotStarted, Done,
              SortInv, SortType
<1>3. deps' = deps
  BY <1>2 DEF CycleFound, vars, inputs
<1>4. \A c : Needs(c)' = Needs(c)
  BY <1>3 DEF Needs
<1>5. \A S : Stuck(S)' <=> Stuck(S)
  BY <1>4 DEF Stuck
<1>6. CASE CycleFound
  <2>1. PICK n \in Names : indegree[n] > 0 /\ involved' = n
    BY <1>6 DEF CycleFound
  <2>2. phase = "sort" /\ ready = {}
    BY <1>6 DEF CycleFound
  <2>3. Stuck(Names \ Placed) /\ n \in Names \ Placed
    BY <2>1, <2>2, LeftoversStuck
  <2> QED
    BY <1>5, <2>1, <2>3
<1>7. CASE UNCHANGED vars
  <2>1. phase' = phase /\ involved' = involved
    BY <1>7 DEF vars
  <2> QED
    BY <1>1, <1>5, <2>1 DEF CycleVerdict
<1> QED
  BY <1>2, <1>6, <1>7

\* topological_sort returns an order exactly when no set of services waits for
\* itself, and its error names a service of such a set.
THEOREM VerdictRightHolds == Spec => []VerdictRight
<1>1. Init => SortInv /\ CycleVerdict
  BY SortInit DEF Init, CycleVerdict
<1>2. SortInv /\ CycleVerdict /\ [Next]_vars => (SortInv /\ CycleVerdict)'
  BY SortStep, CycleStep
<1>3. ASSUME SortInv, CycleVerdict PROVE VerdictRight
  <2>1. ASSUME phase = "ok", NEW S \in SUBSET Names, Stuck(S) PROVE FALSE
    <3>1. Len(order) = Len(Config)
      BY <1>3, <2>1 DEF SortInv, Progress
    <3>2. Placed = Names
      BY <1>3, <3>1, FullOrder
    <3>3. S \cap Placed = {}
      BY <1>3, <2>1 DEF SortInv, Avoids
    <3> QED
      BY <2>1, <3>2, <3>3 DEF Stuck
  <2> QED
    BY <1>3, <2>1 DEF VerdictRight, CycleVerdict
<1> QED
  BY <1>1, <1>2, <1>3, PTL DEF Spec

----------------------------------------------------------------------------
(* The stop order.                                                          *)

\* Backward has the elements of a sequence at mirrored positions.
LEMMA BackwardFacts ==
    ASSUME NEW A, NEW q \in Seq(A)
    PROVE  /\ Len(Backward(q)) = Len(q)
           /\ \A i \in 1..Len(q) : Backward(q)[i] = q[Len(q) + 1 - i]
           /\ {Backward(q)[i] : i \in 1..Len(Backward(q))} = {q[i] : i \in 1..Len(q)}
<1>1. Len(q) \in Nat
  OBVIOUS
<1>2. Len(Backward(q)) = Len(q)
  BY <1>1 DEF Backward
<1>3. \A i \in 1..Len(q) : Backward(q)[i] = q[Len(q) + 1 - i]
  BY <1>1 DEF Backward
<1>4. \A i \in 1..Len(q) :
         /\ Len(q) + 1 - i \in 1..Len(q)
         /\ Len(q) + 1 - (Len(q) + 1 - i) = i
  BY <1>1
<1>5. ASSUME NEW i \in 1..Len(q)
      PROVE  q[i] \in {Backward(q)[k] : k \in 1..Len(q)}
  BY <1>3, <1>4, <1>5
<1>6. ASSUME NEW i \in 1..Len(q)
      PROVE  Backward(q)[i] \in {q[k] : k \in 1..Len(q)}
  BY <1>3, <1>4, <1>6
<1> QED
  BY <1>2, <1>3, <1>5, <1>6

\* stop_all_ordered reaches every service once, each before what it needs, and
\* every service also when there is no order.
THEOREM StopsAllHolds == Spec => []StopsAll
<1>1. Init => StopsAll
  BY DEF Init, StopsAll
<1>2. ASSUME SortInv, StopsAll, [Next]_vars PROVE StopsAll'
  <2> USE <1>2 DEF SortInv
  <2>1. CASE Started
    <3>1. phase = "ok" /\ phase' = "started" /\ stop' = Backward(order) /\ deps' = deps
      BY <2>1 DEF Started, StopOf, inputs
    <3>2. Len(order) = Len(Config) /\ Len(order) \in Nat /\ order \in Seq(Names)
      BY <3>1 DEF Progress, SortType
    <3>3. Placed = Names
      BY <3>2, FullOrder
    <3>4. /\ Len(stop') = Len(Config)
          /\ {stop'[i] : i \in 1..Len(stop')} = Names
          /\ \A i \in 1..Len(order) : stop'[i] = order[Len(order) + 1 - i]
      <4>1. /\ Len(Backward(order)) = Len(order)
            /\ \A i \in 1..Len(order) : Backward(order)[i] = order[Len(order) + 1 - i]
            /\ {Backward(order)[i] : i \in 1..Len(Backward(order))} = Placed
        BY <3>2, BackwardFacts, Zenon DEF Placed
      <4> QED
        BY <4>1, <3>1, <3>2, <3>3, Zenon
    <3>5. ASSUME NEW i \in 1..Len(stop'), NEW j \in 1..Len(stop'),
                 stop'[j] \in Needs(stop'[i])
          PROVE  i < j
      <4> DEFINE a == Len(order) + 1 - i
                 b == Len(order) + 1 - j
      <4>1. a \in 1..Len(order) /\ b \in 1..Len(order)
        <5>1. i \in 1..Len(order) /\ j \in 1..Len(order)
          BY <3>2, <3>4, Zenon
        <5> QED
          BY <3>2, <5>1
      <4>2. stop'[i] = order[a] /\ stop'[j] = order[b]
        BY <3>2, <3>4
      <4>3. PICK k \in 1..(a - 1) : order[k] = order[b]
        BY <3>5, <4>1, <4>2 DEF Topological
      <4>4. k \in 1..Len(order)
        BY <3>2, <4>1
      <4>5. k = b
        BY <4>1, <4>3, <4>4 DEF Topological
      <4> QED
        BY <3>2, <3>4, <4>3, <4>5
    <3>6. ASSUME NEW i \in 1..Len(stop'), NEW j \in 1..Len(stop'),
                 (stop[j] \in Needs(stop[i]))'
          PROVE  i < j
      <4>1. Needs(stop[i])' = Needs(stop'[i])
        BY <3>1 DEF Needs
      <4> QED
        BY <3>5, <3>6, <4>1
    <3> QED
      BY <3>1, <3>4, <3>6 DEF StopsAll
  <2>2. CASE NotStarted
    <3>1. phase' = "refused" /\ stop' = Backward(Config)
      BY <2>2 DEF NotStarted
    <3>2. Len(stop') = Len(Config) /\ {stop'[i] : i \in 1..Len(stop')} = Names
      <4>1. Config \in Seq(Nat)
        BY ConfigAssumption
      <4>2. /\ Len(Backward(Config)) = Len(Config)
            /\ {Backward(Config)[i] : i \in 1..Len(Backward(Config))} = Names
        BY <4>1, BackwardFacts, Zenon DEF Names
      <4> QED
        BY <3>1, <4>2, Zenon
    <3> QED
      BY <3>1, <3>2 DEF StopsAll
  <2>3. CASE UNCHANGED vars
    <3>1. phase' = phase /\ stop' = stop /\ deps' = deps
      BY <2>3 DEF vars, inputs
    <3>2. \A i : Needs(stop[i])' = Needs(stop[i])
      BY <3>1 DEF Needs
    <3> QED
      BY <3>1, <3>2 DEF StopsAll
  <2>4. CASE UnknownDep \/ BuildTable \/ Sorted \/ CycleFound \/ \E n \in Names : Pop(n)
    <3>1. phase' \notin {"started", "refused"}
      BY <2>4 DEF UnknownDep, BuildTable, Sorted, CycleFound, Pop
    <3> QED
      BY <3>1 DEF StopsAll
  <2> QED
    BY <2>1, <2>2, <2>3, <2>4 DEF Next, Done
<1> QED
  BY <1>1, <1>2, SortInvHolds, PTL DEF Spec

----------------------------------------------------------------------------
(* The boot order.                                                          *)

\* A set of natural numbers has a least one.
LEMMA LeastNumber ==
    ASSUME NEW T, T \subseteq Nat, T # {}
    PROVE  \E x \in T : \A y \in T : x <= y
<1> DEFINE R == OpToRel(<, Nat)
<1>1. IsWellFoundedOn(R, Nat)
  BY NatLessThanWellFounded
<1>2. \A x, y \in Nat : y < x => <<y, x>> \in R
  BY DEF OpToRel
<1>3. \E x \in T : \A y \in T : ~(<<y, x>> \in R)
  <2> HIDE DEF R
  <2> QED BY <1>1, WFMin
<1>4. PICK x \in T : \A y \in T : ~(<<y, x>> \in R)
  BY <1>3
<1>5. \A y \in T : ~(y < x)
  BY <1>2, <1>4, Zenon
<1> QED BY <1>5

\* Some function into V on 0..n begins with base and goes on by step.
Recursive(V, n, base, step) ==
    \E f \in [0..n -> V] : f[0] = base /\ \A i \in 1..n : f[i] = step[i][f[i - 1]]

\* There is one, the step being given as a function.
LEMMA FiniteRecursion ==
    ASSUME NEW V, NEW n \in Nat, NEW base \in V, NEW step \in [1..n -> [V -> V]]
    PROVE  Recursive(V, n, base, step)
<1> DEFINE Works(k, f) == f[0] = base /\ \A i \in 1..k : f[i] = step[i][f[i - 1]]
           T == {k \in 0..n : ~\E f \in [0..k -> V] : Works(k, f)}
<1>1. SUFFICES ASSUME T # {} PROVE FALSE
  <2>1. n \in 0..n
    OBVIOUS
  <2> QED BY <2>1 DEF Recursive
<1>2. PICK k \in T : \A j \in T : k <= j
  <2>1. T \subseteq Nat
    OBVIOUS
  <2> HIDE DEF T
  <2> QED BY <1>1, <2>1, LeastNumber
<1>3. k \in 0..n /\ ~\E f \in [0..k -> V] : Works(k, f)
  BY <1>2
<1>4. CASE k = 0
  <2> DEFINE f == [i \in 0..k |-> base]
  <2>1. f \in [0..k -> V] /\ Works(k, f)
    BY <1>4
  <2> QED BY <1>3, <2>1
<1>5. CASE k # 0
  <2>1. k - 1 \in 0..n /\ k \in 1..n /\ ~(k <= k - 1)
    BY <1>3, <1>5
  <2>2. k - 1 \notin T
    BY <1>2, <2>1
  <2>3. PICK g \in [0..(k - 1) -> V] : Works(k - 1, g)
    BY <2>1, <2>2
  <2> DEFINE f == [i \in 0..k |-> IF i = k THEN step[k][g[k - 1]] ELSE g[i]]
  <2>4. f \in [0..k -> V]
    <3>1. g[k - 1] \in V /\ step[k] \in [V -> V]
      BY <2>1, <2>3
    <3>2. \A i \in 0..k : i # k => g[i] \in V
      BY <2>1, <2>3
    <3> QED BY <3>1, <3>2
  <2>5. f[0] = base
    BY <2>1, <2>3
  <2>6. ASSUME NEW i \in 1..k PROVE f[i] = step[i][f[i - 1]]
    <3>1. i - 1 \in 0..k /\ i \in 0..k /\ i - 1 # k
      BY <2>1
    <3>2. CASE i = k
      BY <3>1, <3>2
    <3>3. CASE i # k
      <4>1. i \in 1..(k - 1)
        BY <2>1, <3>3
      <4> QED BY <2>3, <3>1, <3>3, <4>1
    <3> QED BY <3>2, <3>3
  <2> QED BY <1>3, <2>4, <2>5, <2>6
<1> QED BY <1>4, <1>5

\* What partition_boot has of kind k after the first m services of q: those
\* services, each once and in their order.
Taken(q, m, k, t) ==
    /\ t \in Seq(Names)
    /\ \A x \in 1..Len(t) : kind[t[x]] = k /\ \E p \in 1..m : q[p] = t[x]
    /\ \A p \in 1..m : kind[q[p]] = k => \E x \in 1..Len(t) : t[x] = q[p]
    /\ \A x, y \in 1..Len(t) : t[x] = t[y] => x = y
    /\ \A x, y \in 1..Len(t) : \A p, r \in 1..m :
          t[x] = q[p] /\ t[y] = q[r] /\ p < r => x < y

\* One more service is looked at.
LEMMA TakeOne ==
    ASSUME NEW q \in Seq(Names), NEW k, NEW m \in 1..Len(q), NEW u,
           \A i, j \in 1..Len(q) : q[i] = q[j] => i = j,
           Taken(q, m - 1, k, u)
    PROVE  Taken(q, m, k, IF kind[q[m]] = k THEN Append(u, q[m]) ELSE u)
<1>1. /\ m \in Nat /\ m - 1 \in Nat /\ q[m] \in Names /\ u \in Seq(Names) /\ Len(u) \in Nat
      /\ \A p \in 1..m : p \in 1..Len(q) /\ (p = m \/ p \in 1..(m - 1))
      /\ \A p \in 1..(m - 1) : p \in 1..m /\ p \in 1..Len(q) /\ p # m
  BY DEF Taken
<1>2. /\ \A x \in 1..Len(u) : kind[u[x]] = k /\ \E p \in 1..(m - 1) : q[p] = u[x]
      /\ \A p \in 1..(m - 1) : kind[q[p]] = k => \E x \in 1..Len(u) : u[x] = q[p]
      /\ \A x, y \in 1..Len(u) : u[x] = u[y] => x = y
      /\ \A x, y \in 1..Len(u) : \A p, r \in 1..(m - 1) :
            u[x] = q[p] /\ u[y] = q[r] /\ p < r => x < y
  BY DEF Taken
<1>3. \A x \in 1..Len(u) : u[x] # q[m]
  BY <1>1, <1>2
<1>4. \A x, y \in 1..Len(u) : \A p, r \in 1..m :
         u[x] = q[p] /\ u[y] = q[r] /\ p < r => x < y
  <2> TAKE x, y \in 1..Len(u)
  <2> TAKE p, r \in 1..m
  <2>1. CASE p = m \/ r = m
    BY <1>3, <2>1
  <2>2. CASE p \in 1..(m - 1) /\ r \in 1..(m - 1)
    BY <1>2, <2>2
  <2> QED BY <1>1, <2>1, <2>2
<1>5. CASE kind[q[m]] # k
  <2>1. \A x \in 1..Len(u) : kind[u[x]] = k /\ \E p \in 1..m : q[p] = u[x]
    BY <1>1, <1>2
  <2>2. \A p \in 1..m : kind[q[p]] = k => \E x \in 1..Len(u) : u[x] = q[p]
    BY <1>1, <1>2, <1>5
  <2>3. Taken(q, m, k, u)
    BY <1>1, <1>2, <1>4, <2>1, <2>2, Zenon DEF Taken
  <2> QED BY <1>5, <2>3
<1>6. CASE kind[q[m]] = k
  <2> DEFINE t == Append(u, q[m])
  <2>1. /\ t \in Seq(Names) /\ Len(t) = Len(u) + 1 /\ t[Len(t)] = q[m]
        /\ \A x \in 1..Len(u) : t[x] = u[x] /\ x \in 1..Len(t)
        /\ \A x \in 1..Len(t) : x = Len(t) \/ x \in 1..Len(u)
        /\ Len(t) \in 1..Len(t)
    BY <1>1
  <2> HIDE DEF t
  <2>2. \A x \in 1..Len(t) : kind[t[x]] = k /\ \E p \in 1..m : q[p] = t[x]
    <3> TAKE x \in 1..Len(t)
    <3>1. CASE x = Len(t)
      <4>1. m \in 1..m
        BY <1>1
      <4> QED BY <1>6, <2>1, <3>1, <4>1
    <3>2. CASE x \in 1..Len(u)
      <4>1. kind[u[x]] = k /\ t[x] = u[x]
        BY <1>2, <2>1, <3>2
      <4>2. PICK p \in 1..(m - 1) : q[p] = u[x]
        BY <1>2, <3>2
      <4>3. p \in 1..m
        BY <1>1
      <4> QED BY <4>1, <4>2, <4>3
    <3> QED BY <2>1, <3>1, <3>2
  <2>3. \A p \in 1..m : kind[q[p]] = k => \E x \in 1..Len(t) : t[x] = q[p]
    <3> TAKE p \in 1..m
    <3>1. CASE p = m
      BY <2>1, <3>1
    <3>2. CASE p \in 1..(m - 1)
      BY <1>2, <2>1, <3>2
    <3> QED BY <1>1, <3>1, <3>2
  <2>4. \A x, y \in 1..Len(t) : t[x] = t[y] => x = y
    <3> TAKE x, y \in 1..Len(t)
    <3>1. CASE x = Len(t) \/ y = Len(t)
      BY <1>3, <2>1, <3>1
    <3>2. CASE x \in 1..Len(u) /\ y \in 1..Len(u)
      BY <1>2, <2>1, <3>2
    <3> QED BY <2>1, <3>1, <3>2
  <2>5. \A x, y \in 1..Len(t) : \A p, r \in 1..m :
           t[x] = q[p] /\ t[y] = q[r] /\ p < r => x < y
    <3> SUFFICES ASSUME NEW x \in 1..Len(t), NEW y \in 1..Len(t),
                        NEW p \in 1..m, NEW r \in 1..m,
                        t[x] = q[p], t[y] = q[r], p < r
                 PROVE  x < y
      OBVIOUS
    <3>1. CASE x = Len(t)
      <4>1. q[p] = q[m]
        BY <2>1, <3>1
      <4>2. m \in 1..Len(q) /\ p \in 1..Len(q)
        BY <1>1
      <4>3. p = m
        BY <4>1, <4>2
      <4> QED BY <1>1, <4>3
    <3>2. CASE x \in 1..Len(u) /\ y = Len(t)
      BY <1>1, <2>1, <3>2
    <3>3. CASE x \in 1..Len(u) /\ y \in 1..Len(u)
      BY <1>4, <2>1, <3>3
    <3> QED BY <2>1, <3>1, <3>2, <3>3
  <2>6. Taken(q, m, k, t)
    BY <2>1, <2>2, <2>3, <2>4, <2>5, Zenon DEF Taken
  <2> QED BY <1>6, <2>6 DEF t
<1> QED BY <1>5, <1>6

\* partition_boot looks at all of them.
LEMMA PickedFacts ==
    ASSUME NEW q \in Seq(Names), NEW k,
           \A i, j \in 1..Len(q) : q[i] = q[j] => i = j
    PROVE  Taken(q, Len(q), k, Picked(q, k))
<1> DEFINE V == Seq(Names)
           n == Len(q)
           pick == CHOOSE f : f = [i \in 0..n |-> IF i = 0 THEN <<>>
                       ELSE IF kind[q[i]] = k THEN Append(f[i - 1], q[i]) ELSE f[i - 1]]
           step == [i \in 1..n |-> [v \in V |-> IF kind[q[i]] = k THEN Append(v, q[i]) ELSE v]]
<1>1. n \in Nat /\ \A i \in 1..n : q[i] \in Names
  OBVIOUS
<1>2. step \in [1..n -> [V -> V]]
  BY <1>1
<1>3. PICK g \in [0..n -> V] : g[0] = <<>> /\ \A i \in 1..n : g[i] = step[i][g[i - 1]]
  <2>1. <<>> \in V
    OBVIOUS
  <2>2. n \in Nat
    OBVIOUS
  <2> HIDE DEF V, n, step
  <2>3. Recursive(V, n, <<>>, step)
    BY <1>2, <2>1, <2>2, FiniteRecursion
  <2> QED BY <2>3 DEF Recursive
<1>4. \A i \in 1..n : g[i] = IF kind[q[i]] = k THEN Append(g[i - 1], q[i]) ELSE g[i - 1]
  <2> TAKE i \in 1..n
  <2>1. i - 1 \in 0..n
    BY <1>1
  <2> QED BY <1>3, <2>1
<1>5. g = [i \in 0..n |-> IF i = 0 THEN <<>>
                ELSE IF kind[q[i]] = k THEN Append(g[i - 1], q[i]) ELSE g[i - 1]]
  <2>1. \A i \in 0..n : i # 0 => i \in 1..n
    BY <1>1
  <2> QED BY <1>3, <1>4, <2>1
<1>6. pick = [i \in 0..n |-> IF i = 0 THEN <<>>
                ELSE IF kind[q[i]] = k THEN Append(pick[i - 1], q[i]) ELSE pick[i - 1]]
  BY <1>5, Zenon
<1>7. Picked(q, k) = pick[n]
  BY DEF Picked
<1> HIDE DEF pick, V, step
<1>8. /\ pick[0] = <<>>
      /\ \A i \in 0..n : i # 0 =>
            pick[i] = IF kind[q[i]] = k THEN Append(pick[i - 1], q[i]) ELSE pick[i - 1]
  <2>1. 0 \in 0..n
    BY <1>1
  <2> QED BY <1>6, <2>1, Zenon
<1>9. \A m \in 0..n : Taken(q, m, k, pick[m])
  <2> DEFINE T == {m \in 0..n : ~Taken(q, m, k, pick[m])}
  <2> SUFFICES ASSUME T # {} PROVE FALSE
    OBVIOUS
  <2>1. PICK m \in T : \A j \in T : m <= j
    <3>1. T \subseteq Nat
      BY <1>1
    <3> HIDE DEF T
    <3> QED BY <3>1, LeastNumber
  <2>2. m # 0
    <3>1. Taken(q, 0, k, pick[0])
      BY <1>8 DEF Taken
    <3> QED BY <2>1, <3>1
  <2>3. m \in 1..n /\ m \in 0..n /\ m - 1 \in 0..n /\ ~(m <= m - 1)
    BY <1>1, <2>1, <2>2
  <2>4. Taken(q, m - 1, k, pick[m - 1])
    BY <2>1, <2>3
  <2>5. Taken(q, m, k, IF kind[q[m]] = k THEN Append(pick[m - 1], q[m]) ELSE pick[m - 1])
    BY <2>3, <2>4, TakeOne
  <2>6. pick[m] = IF kind[q[m]] = k THEN Append(pick[m - 1], q[m]) ELSE pick[m - 1]
    BY <1>8, <2>2, <2>3, Zenon
  <2> QED BY <2>1, <2>5, <2>6
<1>10. n \in 0..n
  BY <1>1
<1> QED BY <1>7, <1>9, <1>10

\* What BootFeeds says of the services sent a Start.
Feeds(b) ==
    /\ \A n \in Names : Cardinality({i \in 1..Len(b) : b[i] = n})
                          = (IF kind[n] = "off" THEN 0 ELSE 1)
    /\ \A j \in 1..Len(b) : \A d \in Needs(b[j]) :
          kind[d] \in {"bg", kind[b[j]]} => \E i \in 1..(j - 1) : b[i] = d

\* In one list, a service comes after what it needs of the same kind.
LEMMA ListFeeds ==
    ASSUME SortInv, NEW k, NEW t, Taken(order, Len(order), k, t),
           NEW j \in 1..Len(t), NEW d \in Needs(t[j]), kind[d] = k
    PROVE  \E i \in 1..(j - 1) : t[i] = d
<1>1. Len(order) \in Nat /\ order \in Seq(Names) /\ Len(t) \in Nat
  BY DEF SortInv, SortType, Taken
<1>2. PICK r \in 1..Len(order) : order[r] = t[j]
  BY DEF Taken
<1>3. PICK p \in 1..(r - 1) : order[p] = d
  BY <1>2 DEF SortInv, Topological
<1>4. p \in 1..Len(order) /\ p < r
  BY <1>1, <1>2, <1>3
<1>5. PICK i \in 1..Len(t) : t[i] = d
  BY <1>3, <1>4 DEF Taken
<1>6. i < j
  BY <1>2, <1>3, <1>4, <1>5 DEF Taken
<1>7. i \in 1..(j - 1)
  BY <1>1, <1>5, <1>6
<1> QED BY <1>5, <1>7

\* The order that boot() follows feeds every service.
LEMMA BootOfFeeds ==
    ASSUME SortInv, kind \in [Names -> Kinds], Len(order) = Len(Config),
           \A n \in Names : Edges(Ghost, n) = {}
    PROVE  BootOf(order) \in Seq(Names) /\ Feeds(BootOf(order))
<1> DEFINE B == Picked(order, "bg")
           F == Picked(order, "fg")
           b == B \o F
<1>1. order \in Seq(Names) /\ Len(order) \in Nat /\ Placed = Names
  BY FullOrder DEF SortInv, SortType
<1>2. Taken(order, Len(order), "bg", B) /\ Taken(order, Len(order), "fg", F)
  <2>1. \A i, j \in 1..Len(order) : order[i] = order[j] => i = j
    BY DEF SortInv, Topological
  <2> QED BY <1>1, <2>1, PickedFacts
<1> HIDE DEF B, F
<1>3. /\ B \in Seq(Names) /\ F \in Seq(Names) /\ Len(B) \in Nat /\ Len(F) \in Nat
      /\ \A x \in 1..Len(B) : kind[B[x]] = "bg"
      /\ \A x \in 1..Len(F) : kind[F[x]] = "fg"
      /\ \A x, y \in 1..Len(B) : B[x] = B[y] => x = y
      /\ \A x, y \in 1..Len(F) : F[x] = F[y] => x = y
  BY <1>2 DEF Taken
<1>4. /\ b \in Seq(Names) /\ Len(b) = Len(B) + Len(F)
      /\ \A x \in 1..Len(B) : b[x] = B[x]
      /\ \A x \in 1..Len(F) : b[Len(B) + x] = F[x]
  BY <1>3
<1> HIDE DEF b
<1>5. \A j \in 1..Len(b) : j \in 1..Len(B) \/ \E x \in 1..Len(F) : j = Len(B) + x
  <2> SUFFICES ASSUME NEW j \in 1..Len(b), j \notin 1..Len(B)
               PROVE  \E x \in 1..Len(F) : j = Len(B) + x
    OBVIOUS
  <2>1. j - Len(B) \in 1..Len(F) /\ j = Len(B) + (j - Len(B))
    BY <1>3, <1>4
  <2> QED BY <2>1
<1>6. \A n \in Names : /\ kind[n] = "bg" => \E x \in 1..Len(B) : B[x] = n
                       /\ kind[n] = "fg" => \E x \in 1..Len(F) : F[x] = n
  <2> TAKE n \in Names
  <2>1. PICK p \in 1..Len(order) : order[p] = n
    BY <1>1 DEF Placed
  <2> QED BY <1>2, <2>1 DEF Taken
<1>7. ASSUME NEW n \in Names
      PROVE  Cardinality({i \in 1..Len(b) : b[i] = n}) = IF kind[n] = "off" THEN 0 ELSE 1
  <2> DEFINE S == {i \in 1..Len(b) : b[i] = n}
  <2>1. CASE kind[n] = "off"
    <3>1. S = {}
      <4> SUFFICES ASSUME NEW i \in 1..Len(b), b[i] = n PROVE FALSE
        OBVIOUS
      <4>1. CASE i \in 1..Len(B)
        BY <1>3, <1>4, <2>1, <4>1
      <4>2. CASE \E x \in 1..Len(F) : i = Len(B) + x
        <5>1. PICK x \in 1..Len(F) : i = Len(B) + x
          BY <4>2
        <5> QED BY <1>3, <1>4, <2>1, <5>1
      <4> QED BY <1>5, <4>1, <4>2
    <3> QED BY <2>1, <3>1, FS_EmptySet
  <2>2. CASE kind[n] # "off"
    <3>1. \E z \in 1..Len(b) : b[z] = n
      <4>1. kind[n] = "bg" \/ kind[n] = "fg"
        BY <2>2, KindsAssumption
      <4>2. CASE kind[n] = "bg"
        <5>1. PICK x \in 1..Len(B) : B[x] = n
          BY <1>6, <4>2
        <5>2. x \in 1..Len(b)
          BY <1>3, <1>4
        <5> QED BY <1>4, <5>1, <5>2
      <4>3. CASE kind[n] = "fg"
        <5>1. PICK x \in 1..Len(F) : F[x] = n
          BY <1>6, <4>3
        <5>2. Len(B) + x \in 1..Len(b)
          BY <1>3, <1>4
        <5> QED BY <1>4, <5>1, <5>2
      <4> QED BY <4>1, <4>2, <4>3
    <3>2. ASSUME NEW i \in 1..Len(b), NEW j \in 1..Len(b), b[i] = n, b[j] = n
          PROVE  i = j
      <4>1. CASE i \in 1..Len(B) /\ j \in 1..Len(B)
        BY <1>3, <1>4, <3>2, <4>1
      <4>2. CASE i \in 1..Len(B) /\ \E x \in 1..Len(F) : j = Len(B) + x
        <5>1. PICK x \in 1..Len(F) : j = Len(B) + x
          BY <4>2
        <5>2. b[i] = B[i] /\ kind[B[i]] = "bg"
          BY <1>3, <1>4, <4>2
        <5>3. b[j] = F[x] /\ kind[F[x]] = "fg"
          BY <1>3, <1>4, <5>1
        <5> QED BY <3>2, <5>2, <5>3
      <4>3. CASE j \in 1..Len(B) /\ \E x \in 1..Len(F) : i = Len(B) + x
        <5>1. PICK x \in 1..Len(F) : i = Len(B) + x
          BY <4>3
        <5>2. b[j] = B[j] /\ kind[B[j]] = "bg"
          BY <1>3, <1>4, <4>3
        <5>3. b[i] = F[x] /\ kind[F[x]] = "fg"
          BY <1>3, <1>4, <5>1
        <5> QED BY <3>2, <5>2, <5>3
      <4>4. CASE /\ \E x \in 1..Len(F) : i = Len(B) + x
                 /\ \E x \in 1..Len(F) : j = Len(B) + x
        <5>1. PICK x \in 1..Len(F) : i = Len(B) + x
          BY <4>4
        <5>2. PICK y \in 1..Len(F) : j = Len(B) + y
          BY <4>4
        <5>3. F[x] = n /\ F[y] = n
          BY <1>4, <3>2, <5>1, <5>2
        <5>4. x = y
          BY <1>3, <5>3
        <5> QED BY <5>1, <5>2, <5>4
      <4> QED BY <1>5, <4>1, <4>2, <4>3, <4>4
    <3>3. PICK z \in 1..Len(b) : b[z] = n
      BY <3>1
    <3>4. S = {z}
      BY <3>2, <3>3
    <3> QED BY <2>2, <3>4, FS_Singleton
  <2> QED BY <2>1, <2>2
<1>8. ASSUME NEW j \in 1..Len(b), NEW d \in Needs(b[j]), kind[d] \in {"bg", kind[b[j]]}
      PROVE  \E i \in 1..(j - 1) : b[i] = d
  <2>1. CASE j \in 1..Len(B)
    <3>1. b[j] = B[j] /\ kind[d] = "bg"
      BY <1>3, <1>4, <1>8, <2>1
    <3>2. PICK i \in 1..(j - 1) : B[i] = d
      BY <1>2, <1>8, <2>1, <3>1, ListFeeds
    <3>3. i \in 1..Len(B)
      BY <1>3, <2>1, <3>2
    <3> QED BY <1>4, <3>2, <3>3
  <2>2. CASE \E x \in 1..Len(F) : j = Len(B) + x
    <3>1. PICK x \in 1..Len(F) : j = Len(B) + x
      BY <2>2
    <3>2. b[j] = F[x] /\ kind[F[x]] = "fg" /\ F[x] \in Names
      BY <1>3, <1>4, <3>1
    <3>3. CASE kind[d] = "fg"
      <4>1. d \in Needs(F[x])
        BY <1>8, <3>2
      <4>2. PICK i \in 1..(x - 1) : F[i] = d
        BY <1>2, <3>3, <4>1, ListFeeds
      <4>3. i \in 1..Len(F) /\ Len(B) + i \in 1..(j - 1)
        BY <1>3, <3>1, <4>2
      <4> QED BY <1>4, <4>2, <4>3
    <3>4. CASE kind[d] = "bg"
      <4>1. d \in Names
        <5>1. PICK r \in 1..Len(order) : order[r] = F[x]
          BY <1>2 DEF Taken
        <5>2. PICK p \in 1..(r - 1) : order[p] = d
          <6>1. d \in Needs(order[r])
            BY <1>8, <3>2, <5>1
          <6> QED BY <5>1, <6>1 DEF SortInv, Topological
        <5>3. p \in 1..Len(order)
          BY <1>1, <5>1, <5>2
        <5> QED BY <1>1, <5>2, <5>3
      <4>2. PICK i \in 1..Len(B) : B[i] = d
        BY <1>6, <3>4, <4>1
      <4>3. i \in 1..(j - 1)
        BY <1>3, <3>1, <4>2
      <4> QED BY <1>4, <4>2, <4>3
    <3> QED BY <1>8, <3>2, <3>3, <3>4
  <2> QED BY <1>5, <2>1, <2>2
<1>9. Feeds(b)
  BY <1>7, <1>8, Zenon DEF Feeds
<1>10. BootOf(order) = b
  BY DEF BootOf, b, B, F
<1> QED BY <1>4, <1>9, <1>10

\* Every variable of the sort and of its callers keeps its type.
THEOREM TypeCorrect == Spec => []TypeOK
<1>1. Init => TypeOK
  BY DEF Init, TypeOK
<1>2. ASSUME SortInv, SortInv', TypeOK, [Next]_vars PROVE TypeOK'
  <2>1. kind' \in [Names -> Kinds]
    BY <1>2 DEF TypeOK, Next, vars, inputs, UnknownDep, BuildTable, Pop, Sorted, CycleFound,
                Started, NotStarted, Done
  <2>2. involved' \in Names \cup {Ghost}
    BY <1>2 DEF TypeOK, Next, vars, inputs, UnknownDep, BuildTable, Pop, Sorted, CycleFound,
                Started, NotStarted, Done
  <2>3. boot' \in Seq(Names)
    <3>1. CASE Started
      <4>1. /\ phase = "ok" /\ boot' = BootOf(order) /\ Len(order) = Len(Config)
            /\ \A n \in Names : Edges(Ghost, n) = {}
        BY <1>2, <3>1 DEF Started, SortInv, Progress
      <4> QED BY <1>2, <4>1, BootOfFeeds DEF TypeOK
    <3>2. CASE ~Started
      BY <1>2, <3>2 DEF TypeOK, Next, vars, UnknownDep, BuildTable, Pop, Sorted, CycleFound,
                        NotStarted, Done
    <3> QED BY <3>1, <3>2
  <2>4. stop' \in Seq(Names)
    <3>1. \A q \in Seq(Names) : Backward(q) \in Seq(Names)
      <4> TAKE q \in Seq(Names)
      <4>1. \A i \in 1..Len(q) : q[Len(q) + 1 - i] \in Names
        OBVIOUS
      <4> QED BY <4>1 DEF Backward
    <3>2. Config \in Seq(Names)
      <4>1. Config \in [1..Len(Config) -> Names] /\ Len(Config) \in Nat
        BY ConfigAssumption DEF Names
      <4> QED BY <4>1
    <3> QED BY <1>2, <3>1, <3>2 DEF TypeOK, Next, vars, UnknownDep, BuildTable, Pop, Sorted,
                                    CycleFound, Started, StopOf, NotStarted, Done
  <2> QED BY <1>2, <2>1, <2>2, <2>3, <2>4 DEF SortInv, SortType, TypeOK
<1> QED BY <1>1, <1>2, SortInvHolds, PTL DEF Spec

\* boot() sends one Start to every enabled service, to a foreground service only
\* after everything enabled that it needs, and to a background service after
\* the background services it needs.
THEOREM BootFeedsHolds == Spec => []BootFeeds
<1>1. Init => BootFeeds
  BY DEF Init, BootFeeds
<1>2. ASSUME SortInv, TypeOK, BootFeeds, [Next]_vars PROVE BootFeeds'
  <2>1. CASE Started
    <3>1. /\ phase = "ok" /\ boot' = BootOf(order) /\ kind' = kind /\ deps' = deps
          /\ Len(order) = Len(Config) /\ \A n \in Names : Edges(Ghost, n) = {}
      BY <1>2, <2>1 DEF Started, inputs, SortInv, Progress
    <3>2. Feeds(BootOf(order))
      BY <1>2, <3>1, BootOfFeeds DEF TypeOK
    <3>3. Feeds(boot')
      BY <3>1, <3>2
    <3>4. Feeds(boot)'
      BY <3>1, <3>3 DEF Feeds, Needs
    <3> QED BY <3>4 DEF BootFeeds, Feeds
  <2>2. CASE UNCHANGED vars
    BY <1>2, <2>2 DEF vars, inputs, BootFeeds, Needs
  <2>3. CASE ~Started /\ ~UNCHANGED vars
    <3>1. phase' # "started"
      BY <1>2, <2>3 DEF Next, UnknownDep, BuildTable, Pop, Sorted, CycleFound, NotStarted, Done
    <3> QED BY <3>1 DEF BootFeeds
  <2> QED BY <2>1, <2>2, <2>3
<1> QED BY <1>1, <1>2, SortInvHolds, TypeCorrect, PTL DEF Spec
===============================================================================
