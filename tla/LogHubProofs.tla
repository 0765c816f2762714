----------------------------- MODULE LogHubProofs -----------------------------
(****************************************************************************)
(* Proofs about the log hub for any writers, services and requests, any     *)
(* ring capacity, snapshot length and follower cap, and any number of       *)
(* lines.                                                                   *)
(****************************************************************************)
EXTENDS LogHub, WellFoundedInduction, TLAPS

----------------------------------------------------------------------------
(* The inductive invariants.                                                *)

\* A writer that is publishing has begun a line.
Begun == \A w \in Writers : wpc[w] # "idle" => count[w] >= 1

\* A request that has not subscribed is in no list and has nothing in its
\* channel; one that has not been answered has seen nothing.
Fresh ==
    \A r \in Requests :
        /\ rpc[r] \in {"idle", "shown"} => r \notin Range(followers) /\ chan[r] = <<>>
        /\ rpc[r] = "idle" => shown[r] = <<>>

\* Behind a follower in the list there are at most as many others as have
\* subscribed after it; one that was dropped has seen the cap reached.
DropInv ==
    \A r \in Requests : Live(r) =>
        /\ \A p \in 1..Len(followers) :
              followers[p] = r => Len(followers) - p <= newer[r]
        /\ r \notin Range(followers) => newer[r] >= MaxFollowers

\* t is the end of s, n elements at most, d of s being left out.
EndOf(t, s, n, d) ==
    /\ d + Len(t) = Len(s) /\ Len(t) <= n
    /\ d > 0 => Len(t) = n
    /\ \A i \in 1..Len(t) : i + d \in 1..Len(s) /\ t[i] = s[i + d]

\* A ring is the end of what was pushed to it, and every line a writer has begun
\* was pushed to the ring of its service and, once that is past, to the mixed one.
PastInv ==
    /\ \A s \in Services : \E d \in Nat : EndOf(ring[s], past[s], Size, d)
    /\ \E d \in Nat : EndOf(mixed, pastMixed, Size, d)
    /\ \A w \in Writers : \A n \in 1..count[w] :
          /\ <<w, n>> \in Range(past[ServiceOf[w]])
          /\ n < count[w] \/ wpc[w] # "mixed" => <<w, n>> \in Range(pastMixed)

\* What was pushed before a snapshot is in it or is too old for it.
BeforeInv ==
    \A r \in Requests : rpc[r] \in {"shown", "follow"} => before[r] \subseteq Range(shown[r]) \cup old[r]

\* LostOnlyInSeam, from the snapshot on.
SeamInv ==
    \A r \in Requests : rpc[r] = "shown" \/ (Live(r) /\ r \in Range(followers)) =>
        \A l \in Wanted(r) : Sent(l) =>
            l \in Range(shown[r]) \cup Range(chan[r]) \cup seam[r] \cup old[r]

\* The lines of each writer come in the order it wrote them, each once.
Strict(s) ==
    \A i, j \in 1..Len(s) : i < j /\ s[i][1] = s[j][1] => s[i][2] < s[j][2]

\* A ring is strict; a line is in the mixed ring only once that is past.
RingInv ==
    /\ \A s \in Services :
          /\ Strict(ring[s])
          /\ \A i \in 1..Len(ring[s]) : ring[s][i][2] <= count[ring[s][i][1]]
    /\ Strict(mixed)
    /\ \A i \in 1..Len(mixed) :
          /\ mixed[i][2] <= count[mixed[i][1]]
          /\ wpc[mixed[i][1]] = "mixed" => mixed[i][2] < count[mixed[i][1]]

\* What a channel holds is strict, and behind what its writer is at.
ChanInv ==
    \A r \in Requests :
        /\ Strict(chan[r])
        /\ \A i \in 1..Len(chan[r]) :
              /\ chan[r][i][2] <= count[chan[r][i][1]]
              /\ wpc[chan[r][i][1]] # "idle" => chan[r][i][2] < count[chan[r][i][1]]

\* No line after position i of s is by the writer of the one at i.
LastAt(s, i) == \A k \in 1..Len(s) : i < k => s[k][1] # s[i][1]

\* What ClientOrder says of one sequence.
InOrder(s) ==
    \A i, j \in 1..Len(s) :
        i < j /\ s[i][1] = s[j][1] =>
            \/ s[i][2] < s[j][2]
            \/ s[i] = s[j] /\ \A k \in (i + 1)..(j - 1) : s[k][1] # s[i][1]

\* A line that is being published has been shown once at most.
ShownInv ==
    \A r \in Requests :
        /\ InOrder(shown[r])
        /\ \A i \in 1..Len(shown[r]) : shown[r][i][2] <= count[shown[r][i][1]]
        /\ \A i \in 1..Len(shown[r]) :
              shown[r][i] = Line(shown[r][i][1]) /\ wpc[shown[r][i][1]] # "idle" => LastAt(shown[r], i)

\* What is in the channel goes on where what was shown ends; only the last line
\* shown of a writer can be there again.
MeetInv ==
    \A r \in Requests : \A i \in 1..Len(shown[r]), j \in 1..Len(chan[r]) :
        shown[r][i][1] = chan[r][j][1] =>
            \/ shown[r][i][2] < chan[r][j][2]
            \/ shown[r][i][2] = chan[r][j][2] /\ LastAt(shown[r], i)

----------------------------------------------------------------------------
(* Numbers, lines and sequences.                                            *)

\* A set of natural numbers has a least one.
LEMMA LeastNumber ==
    ASSUME NEW T, T \subseteq Nat, T # {}
    PROVE  \E x \in T : \A y \in T : x <= y
<1> DEFINE R == OpToRel(<, Nat)
<1>1. IsWellFoundedOn(R, Nat)
  BY NatLessThanWellFounded
<1>2. \A x, y \in Nat : y < x => <<y, x>> \in R
  BY DEF OpToRel
<1>3. \E x \in T : \A y \in T : ~(<<y, x>> \in R)
  <2> HIDE DEF R
  <2> QED BY <1>1, WFMin
<1>4. PICK x \in T : \A y \in T : ~(<<y, x>> \in R)
  BY <1>3
<1>5. \A y \in T : ~(y < x)
  BY <1>2, <1>4, Zenon
<1> QED BY <1>5

\* A line is a writer and a number.
LEMMA LineFacts ==
    /\ \A l \in AllLines : l[1] \in Writers /\ l[2] \in Nat /\ l = <<l[1], l[2]>>
    /\ \A w \in Writers : \A n \in 1..MaxLines[w] : <<w, n>> \in AllLines
<1>1. ASSUME NEW l \in AllLines PROVE l[1] \in Writers /\ l[2] \in Nat /\ l = <<l[1], l[2]>>
  <2>1. PICK w \in Writers : l \in {w} \X (1..MaxLines[w])
    BY DEF AllLines
  <2>2. MaxLines[w] \in Nat
    BY BoundAssumption
  <2> QED BY <2>1, <2>2
<1>2. ASSUME NEW w \in Writers, NEW n \in 1..MaxLines[w] PROVE <<w, n>> \in AllLines
  <2>1. <<w, n>> \in {w} \X (1..MaxLines[w])
    OBVIOUS
  <2> QED BY <2>1 DEF AllLines
<1> QED BY <1>1, <1>2

\* Lines are numbered from 1.
LEMMA LinePositive == \A l \in AllLines : l[2] >= 1
BY BoundAssumption DEF AllLines

\* t is the end of s with x after it, n elements at most, d of s being left out.
Shifted(t, s, x, n, d) ==
    /\ d + Len(t) = Len(s) + 1 /\ Len(t) >= 1 /\ Len(t) <= n
    /\ d > 0 => Len(t) = n
    /\ t[Len(t)] = x
    /\ \A i \in 1..Len(t) : i < Len(t) => i + d \in 1..Len(s) /\ t[i] = s[i + d]

\* What both the rings and the list of followers do to make room.
Grown(t, s, x, n) == \E d \in Nat : Shifted(t, s, x, n, d)

\* The end of a sequence, by how far it is shifted.
LEMMA LastNFacts ==
    ASSUME NEW S, NEW s \in Seq(S), NEW n \in Nat
    PROVE  LastN(s, n) \in Seq(S) /\ \E d \in Nat : EndOf(LastN(s, n), s, n, d)
<1>1. Len(s) \in Nat
  OBVIOUS
<1>2. CASE Len(s) <= n
  <2>1. LastN(s, n) = s
    BY <1>2 DEF LastN
  <2>2. EndOf(s, s, n, 0)
    BY <1>1, <1>2 DEF EndOf
  <2> QED BY <2>1, <2>2
<1>3. CASE Len(s) > n
  <2> DEFINE d == Len(s) - n
  <2>1. d \in Nat /\ d + 1 \in 1..(Len(s) + 1) /\ d + n = Len(s)
    BY <1>1, <1>3
  <2>2. LastN(s, n) = SubSeq(s, d + 1, Len(s))
    BY <1>1, <1>3 DEF LastN
  <2> HIDE DEF d
  <2>3. Len(LastN(s, n)) = n
    BY <1>1, <2>1, <2>2
  <2>4. LastN(s, n) \in Seq(S)
    BY <1>1, <2>1, <2>2
  <2>5. \A i \in 1..n : i + d \in 1..Len(s) /\ LastN(s, n)[i] = s[i + d]
    BY <1>1, <2>1, <2>2
  <2>6. EndOf(LastN(s, n), s, n, d)
    BY <1>1, <2>1, <2>3, <2>5 DEF EndOf
  <2> QED BY <2>1, <2>4, <2>6
<1> QED BY <1>1, <1>2, <1>3

\* Room is made and x is appended.
LEMMA GrownFacts ==
    ASSUME NEW S, NEW s \in Seq(S), NEW x \in S, NEW n \in Nat \ {0}
    PROVE  /\ Append(LastN(s, n - 1), x) \in Seq(S)
           /\ Grown(Append(LastN(s, n - 1), x), s, x, n)
<1> DEFINE t == LastN(s, n - 1)
           u == Append(t, x)
<1>1. n - 1 \in Nat
  OBVIOUS
<1>2. t \in Seq(S) /\ \E d \in Nat : EndOf(t, s, n - 1, d)
  BY <1>1, LastNFacts
<1> HIDE DEF t
<1>3. PICK d \in Nat : EndOf(t, s, n - 1, d)
  BY <1>2
<1>4. /\ Len(t) \in Nat /\ Len(s) \in Nat /\ u \in Seq(S) /\ Len(u) = Len(t) + 1
      /\ u[Len(t) + 1] = x /\ \A i \in 1..Len(t) : u[i] = t[i]
  BY <1>2
<1> HIDE DEF u
<1>5. \A i \in 1..Len(u) : i < Len(u) => i + d \in 1..Len(s) /\ u[i] = s[i + d]
  <2> TAKE i \in 1..Len(u)
  <2> HAVE i < Len(u)
  <2>1. i \in 1..Len(t)
    BY <1>4
  <2> QED BY <1>3, <1>4, <2>1 DEF EndOf
<1>6. Shifted(u, s, x, n, d)
  BY <1>3, <1>4, <1>5 DEF Shifted, EndOf
<1> QED BY <1>4, <1>6 DEF Grown, t, u

\* What is in a sequence that grows at its end or shrinks at its front.
LEMMA RangeFacts ==
    ASSUME NEW S, NEW s \in Seq(S)
    PROVE  /\ \A x : x \in Range(s) <=> \E i \in 1..Len(s) : s[i] = x
           /\ \A x \in S : Range(Append(s, x)) = Range(s) \cup {x}
           /\ s # <<>> => /\ Head(s) \in S /\ Tail(s) \in Seq(S)
                          /\ Len(Tail(s)) = Len(s) - 1 /\ Head(s) = s[1] /\ Len(s) >= 1
                          /\ \A i \in 1..(Len(s) - 1) : Tail(s)[i] = s[i + 1]
                          /\ Range(s) = {Head(s)} \cup Range(Tail(s))
<1>1. Len(s) \in Nat /\ DOMAIN s = 1..Len(s)
  OBVIOUS
<1>2. \A x : x \in Range(s) <=> \E i \in 1..Len(s) : s[i] = x
  BY <1>1 DEF Range
<1>3. ASSUME NEW x \in S PROVE Range(Append(s, x)) = Range(s) \cup {x}
  <2>1. /\ Append(s, x) \in Seq(S) /\ Len(Append(s, x)) = Len(s) + 1
        /\ DOMAIN Append(s, x) = 1..(Len(s) + 1)
        /\ \A i \in 1..(Len(s) + 1) : Append(s, x)[i] = IF i <= Len(s) THEN s[i] ELSE x
    BY <1>1
  <2>2. \A y : y \in Range(Append(s, x)) <=> \E i \in 1..(Len(s) + 1) : Append(s, x)[i] = y
    BY <2>1 DEF Range
  <2>3. ASSUME NEW y, y \in Range(Append(s, x)) PROVE y \in Range(s) \cup {x}
    BY <1>1, <1>2, <2>1, <2>2, <2>3
  <2>4. ASSUME NEW y \in Range(s) PROVE y \in Range(Append(s, x))
    <3>1. PICK i \in 1..Len(s) : s[i] = y
      BY <1>2, <2>4
    <3>2. i \in 1..(Len(s) + 1) /\ Append(s, x)[i] = y
      BY <1>1, <2>1, <3>1
    <3> QED BY <2>2, <3>2
  <2>5. x \in Range(Append(s, x))
    <3>1. Len(s) + 1 \in 1..(Len(s) + 1) /\ Append(s, x)[Len(s) + 1] = x
      BY <1>1, <2>1
    <3> QED BY <2>2, <3>1
  <2> QED BY <2>3, <2>4, <2>5
<1>4. ASSUME s # <<>>
      PROVE  /\ Head(s) \in S /\ Tail(s) \in Seq(S)
             /\ Len(Tail(s)) = Len(s) - 1 /\ Head(s) = s[1] /\ Len(s) >= 1
             /\ \A i \in 1..(Len(s) - 1) : Tail(s)[i] = s[i + 1]
             /\ Range(s) = {Head(s)} \cup Range(Tail(s))
  <2>1. /\ Head(s) \in S /\ Tail(s) \in Seq(S) /\ Head(s) = s[1]
        /\ Len(Tail(s)) = Len(s) - 1 /\ Len(s) >= 1 /\ DOMAIN Tail(s) = 1..(Len(s) - 1)
        /\ \A i \in 1..(Len(s) - 1) : Tail(s)[i] = s[i + 1]
    BY <1>1, <1>4
  <2>2. \A y : y \in Range(Tail(s)) <=> \E i \in 1..(Len(s) - 1) : Tail(s)[i] = y
    BY <2>1 DEF Range
  <2>3. ASSUME NEW y \in Range(s) PROVE y \in {Head(s)} \cup Range(Tail(s))
    <3>1. PICK i \in 1..Len(s) : s[i] = y
      BY <1>2, <2>3
    <3>2. CASE i = 1
      BY <2>1, <3>1, <3>2
    <3>3. CASE i # 1
      <4>1. i - 1 \in 1..(Len(s) - 1) /\ Tail(s)[i - 1] = y
        BY <1>1, <2>1, <3>1, <3>3
      <4> QED BY <2>2, <4>1
    <3> QED BY <3>2, <3>3
  <2>4. ASSUME NEW y \in Range(Tail(s)) PROVE y \in Range(s)
    <3>1. PICK i \in 1..(Len(s) - 1) : Tail(s)[i] = y
      BY <2>2, <2>4
    <3>2. i + 1 \in 1..Len(s) /\ s[i + 1] = y
      BY <1>1, <2>1, <3>1
    <3> QED BY <1>2, <3>2
  <2>5. Head(s) \in Range(s)
    <3>1. 1 \in 1..Len(s) /\ s[1] = Head(s)
      BY <1>1, <2>1
    <3> QED BY <1>2, <3>1
  <2> QED BY <2>1, <2>3, <2>4, <2>5
<1> QED BY <1>2, <1>3, <1>4

\* Some function into V on 0..n begins with base and goes on by step.
Recursive(V, n, base, step) ==
    \E f \in [0..n -> V] : f[0] = base /\ \A i \in 1..n : f[i] = step[i][f[i - 1]]

\* There is one, the step being given as a function.
LEMMA FiniteRecursion ==
    ASSUME NEW V, NEW n \in Nat, NEW base \in V, NEW step \in [1..n -> [V -> V]]
    PROVE  Recursive(V, n, base, step)
<1> DEFINE Works(k, f) == f[0] = base /\ \A i \in 1..k : f[i] = step[i][f[i - 1]]
           T == {k \in 0..n : ~\E f \in [0..k -> V] : Works(k, f)}
<1>1. SUFFICES ASSUME T # {} PROVE FALSE
  <2>1. n \in 0..n
    OBVIOUS
  <2> QED BY <2>1 DEF Recursive
<1>2. PICK k \in T : \A j \in T : k <= j
  <2>1. T \subseteq Nat
    OBVIOUS
  <2> HIDE DEF T
  <2> QED BY <1>1, <2>1, LeastNumber
<1>3. k \in 0..n /\ ~\E f \in [0..k -> V] : Works(k, f)
  BY <1>2
<1>4. CASE k = 0
  <2> DEFINE f == [i \in 0..k |-> base]
  <2>1. f \in [0..k -> V] /\ Works(k, f)
    BY <1>4
  <2> QED BY <1>3, <2>1
<1>5. CASE k # 0
  <2>1. k - 1 \in 0..n /\ k \in 1..n /\ ~(k <= k - 1)
    BY <1>3, <1>5
  <2>2. k - 1 \notin T
    BY <1>2, <2>1
  <2>3. PICK g \in [0..(k - 1) -> V] : Works(k - 1, g)
    BY <2>1, <2>2
  <2> DEFINE f == [i \in 0..k |-> IF i = k THEN step[k][g[k - 1]] ELSE g[i]]
  <2>4. f \in [0..k -> V]
    <3>1. g[k - 1] \in V /\ step[k] \in [V -> V]
      BY <2>1, <2>3
    <3>2. \A i \in 0..k : i # k => g[i] \in V
      BY <2>1, <2>3
    <3> QED BY <3>1, <3>2
  <2>5. f[0] = base
    BY <2>1, <2>3
  <2>6. ASSUME NEW i \in 1..k PROVE f[i] = step[i][f[i - 1]]
    <3>1. i - 1 \in 0..k /\ i \in 0..k /\ i - 1 # k
      BY <2>1
    <3>2. CASE i = k
      BY <3>1, <3>2
    <3>3. CASE i # k
      <4>1. i \in 1..(k - 1)
        BY <2>1, <3>3
      <4> QED BY <2>3, <3>1, <3>3, <4>1
    <3> QED BY <3>2, <3>3
  <2> QED BY <1>3, <2>4, <2>5, <2>6
<1> QED BY <1>4, <1>5

\* What retain keeps of the first k followers: those that are there, each at
\* least as close to the end as it was.
Kept(s, k, t) ==
    /\ t \in Seq(Requests) /\ Len(t) <= k
    /\ \A q \in 1..Len(t) : Live(t[q]) /\ \E p \in 1..k : s[p] = t[q] /\ Len(t) - q <= k - p
    /\ \A p \in 1..k : Live(s[p]) => s[p] \in Range(t)

\* retain keeps that of the whole list.
LEMMA RetainedFacts ==
    ASSUME NEW s \in Seq(Requests)
    PROVE  Kept(s, Len(s), Retained(s))
<1> DEFINE V == Seq(Requests)
           n == Len(s)
           keep == CHOOSE f : f = [i \in 0..n |-> IF i = 0 THEN <<>>
                                        ELSE IF Live(s[i]) THEN Append(f[i - 1], s[i]) ELSE f[i - 1]]
           step == [i \in 1..n |-> [v \in V |-> IF Live(s[i]) THEN Append(v, s[i]) ELSE v]]
<1>1. n \in Nat /\ \A i \in 1..n : s[i] \in Requests
  OBVIOUS
<1>2. step \in [1..n -> [V -> V]]
  BY <1>1
<1>3. PICK g \in [0..n -> V] : g[0] = <<>> /\ \A i \in 1..n : g[i] = step[i][g[i - 1]]
  <2>1. <<>> \in V
    OBVIOUS
  <2>2. n \in Nat
    OBVIOUS
  <2> HIDE DEF V, n, step
  <2>3. Recursive(V, n, <<>>, step)
    BY <1>2, <2>1, <2>2, FiniteRecursion
  <2> QED BY <2>3 DEF Recursive
<1>4. \A i \in 1..n : g[i] = IF Live(s[i]) THEN Append(g[i - 1], s[i]) ELSE g[i - 1]
  <2> TAKE i \in 1..n
  <2>1. i - 1 \in 0..n
    BY <1>1
  <2> QED BY <1>3, <2>1
<1>5. g = [i \in 0..n |-> IF i = 0 THEN <<>>
                          ELSE IF Live(s[i]) THEN Append(g[i - 1], s[i]) ELSE g[i - 1]]
  <2>1. \A i \in 0..n : i # 0 => i \in 1..n
    BY <1>1
  <2> QED BY <1>3, <1>4, <2>1
<1>6. keep = [i \in 0..n |-> IF i = 0 THEN <<>>
                             ELSE IF Live(s[i]) THEN Append(keep[i - 1], s[i]) ELSE keep[i - 1]]
  BY <1>5, Zenon
<1>7. Retained(s) = keep[n]
  BY DEF Retained
<1> HIDE DEF keep, V, step
<1>8. /\ keep[0] = <<>>
      /\ \A i \in 0..n : i # 0 => keep[i] = IF Live(s[i]) THEN Append(keep[i - 1], s[i]) ELSE keep[i - 1]
  <2>1. 0 \in 0..n
    BY <1>1
  <2> QED BY <1>6, <2>1, Zenon
<1>9. ASSUME NEW k \in 1..n, Kept(s, k - 1, keep[k - 1]) PROVE Kept(s, k, keep[k])
  <2> DEFINE u == keep[k - 1]
  <2>1. keep[k] = IF Live(s[k]) THEN Append(u, s[k]) ELSE u
    <3>1. k \in 0..n /\ k # 0
      BY <1>1
    <3> QED BY <1>8, <3>1, Zenon
  <2>2. u \in Seq(Requests) /\ Len(u) <= k - 1 /\ s[k] \in Requests /\ Len(u) \in Nat
    BY <1>1, <1>9 DEF Kept
  <2>3. /\ \A q \in 1..Len(u) : Live(u[q]) /\ \E p \in 1..(k - 1) : s[p] = u[q] /\ Len(u) - q <= k - 1 - p
        /\ \A p \in 1..(k - 1) : Live(s[p]) => s[p] \in Range(u)
    BY <1>9 DEF Kept
  <2> HIDE DEF u
  <2>4. CASE ~Live(s[k])
    <3>1. keep[k] = u
      BY <2>1, <2>4
    <3>2. \A q \in 1..Len(u) : Live(u[q]) /\ \E p \in 1..k : s[p] = u[q] /\ Len(u) - q <= k - p
      <4> TAKE q \in 1..Len(u)
      <4>1. PICK p \in 1..(k - 1) : s[p] = u[q] /\ Len(u) - q <= k - 1 - p
        BY <2>3
      <4>2. p \in 1..k /\ Len(u) - q <= k - p
        BY <1>1, <2>2, <4>1
      <4> QED BY <2>3, <4>1, <4>2
    <3>3. \A p \in 1..k : Live(s[p]) => s[p] \in Range(u)
      <4>1. \A p \in 1..k : p = k \/ p \in 1..(k - 1)
        BY <1>1
      <4> QED BY <2>3, <2>4, <4>1
    <3>4. Len(u) <= k
      BY <1>1, <2>2
    <3> QED BY <2>2, <3>1, <3>2, <3>3, <3>4 DEF Kept
  <2>5. CASE Live(s[k])
    <3> DEFINE t == Append(u, s[k])
    <3>1. /\ t \in Seq(Requests) /\ Len(t) = Len(u) + 1 /\ Range(t) = Range(u) \cup {s[k]}
          /\ t[Len(u) + 1] = s[k] /\ \A q \in 1..Len(u) : t[q] = u[q]
      BY <2>2, RangeFacts
    <3>2. keep[k] = t
      BY <2>1, <2>5
    <3> HIDE DEF t
    <3>3. ASSUME NEW q \in 1..Len(t)
          PROVE  Live(t[q]) /\ \E p \in 1..k : s[p] = t[q] /\ Len(t) - q <= k - p
      <4>1. CASE q = Len(t)
        <5>1. k \in 1..k /\ s[k] = t[q] /\ Len(t) - q <= k - k
          BY <1>1, <2>2, <3>1, <4>1
        <5> QED BY <2>5, <5>1
      <4>2. CASE q # Len(t)
        <5>1. q \in 1..Len(u) /\ t[q] = u[q]
          BY <2>2, <3>1, <4>2
        <5>2. PICK p \in 1..(k - 1) : s[p] = u[q] /\ Len(u) - q <= k - 1 - p
          BY <2>3, <5>1
        <5>3. p \in 1..k /\ Len(t) - q <= k - p
          BY <1>1, <2>2, <3>1, <5>2
        <5> QED BY <2>3, <5>1, <5>2, <5>3
      <4> QED BY <4>1, <4>2
    <3>4. \A p \in 1..k : Live(s[p]) => s[p] \in Range(t)
      <4>1. \A p \in 1..k : p = k \/ p \in 1..(k - 1)
        BY <1>1
      <4> QED BY <2>3, <3>1, <4>1
    <3>5. Len(t) <= k
      BY <1>1, <2>2, <3>1
    <3> QED BY <3>1, <3>2, <3>3, <3>4, <3>5 DEF Kept
  <2> QED BY <2>4, <2>5
<1>10. \A k \in 0..n : Kept(s, k, keep[k])
  <2> DEFINE T == {k \in 0..n : ~Kept(s, k, keep[k])}
  <2> SUFFICES ASSUME T # {} PROVE FALSE
    OBVIOUS
  <2>1. PICK k \in T : \A j \in T : k <= j
    <3>1. T \subseteq Nat
      BY <1>1
    <3> HIDE DEF T
    <3> QED BY <3>1, LeastNumber
  <2>2. k # 0
    <3>1. Kept(s, 0, keep[0])
      BY <1>8 DEF Kept
    <3> QED BY <2>1, <3>1
  <2>3. k \in 1..n /\ k - 1 \in 0..n /\ ~(k <= k - 1)
    BY <1>1, <2>1, <2>2
  <2>4. Kept(s, k - 1, keep[k - 1])
    BY <2>1, <2>3
  <2> QED BY <1>9, <2>1, <2>3, <2>4
<1>11. n \in 0..n
  BY <1>1
<1> QED BY <1>7, <1>10, <1>11

----------------------------------------------------------------------------
(* Types.                                                                   *)

\* The ring a request reads is one of the rings.
LEMMA SourceFacts ==
    ASSUME TypeOK, NEW r \in Requests
    PROVE  /\ Source(r) \in Seq(AllLines)
           /\ Source(r) = mixed \/ \E s \in Services : Source(r) = ring[s]
<1>1. CASE Wants[r] = Services
  BY <1>1 DEF Source, TypeOK
<1>2. CASE Wants[r] # Services
  <2> DEFINE s == CHOOSE s \in Services : Wants[r] = {s}
  <2>1. s \in Services
    BY <1>2, WantsAssumption
  <2>2. Source(r) = ring[s]
    BY <1>2 DEF Source
  <2> HIDE DEF s
  <2> QED BY <2>1, <2>2 DEF TypeOK
<1> QED BY <1>1, <1>2

\* So is what was pushed to it.
LEMMA PastFacts ==
    ASSUME TypeOK, NEW r \in Requests
    PROVE  /\ PastOf(r) \in Seq(AllLines)
           /\ \/ Wants[r] = Services /\ Source(r) = mixed /\ PastOf(r) = pastMixed
              \/ \E s \in Services : Wants[r] = {s} /\ Source(r) = ring[s] /\ PastOf(r) = past[s]
<1>1. CASE Wants[r] = Services
  BY <1>1 DEF Source, PastOf, TypeOK
<1>2. CASE Wants[r] # Services
  <2> DEFINE s == CHOOSE s \in Services : Wants[r] = {s}
  <2>1. s \in Services /\ Wants[r] = {s}
    BY <1>2, WantsAssumption
  <2>2. Source(r) = ring[s] /\ PastOf(r) = past[s]
    BY <1>2 DEF Source, PastOf
  <2> HIDE DEF s
  <2> QED BY <2>1, <2>2 DEF TypeOK
<1> QED BY <1>1, <1>2

\* push makes room in a ring and appends the line.
LEMMA PushFacts ==
    ASSUME NEW s \in Seq(AllLines), NEW l \in AllLines
    PROVE  Push(s, l) \in Seq(AllLines) /\ Grown(Push(s, l), s, l, Size)
<1>1. Size \in Nat \ {0}
  BY BoundAssumption DEF Size
<1> QED BY <1>1, GrownFacts DEF Push

\* The line a writer is publishing is a line.
LEMMA OwnLine ==
    ASSUME TypeOK, Begun, NEW w \in Writers, wpc[w] # "idle"
    PROVE  Line(w) \in AllLines /\ Line(w)[1] = w /\ Line(w)[2] = count[w]
<1>1. count[w] \in 1..MaxLines[w]
  BY BoundAssumption DEF TypeOK, Begun
<1> QED BY <1>1, LineFacts DEF Line

\* subscribe makes room in the list and appends the request.
LEMMA AdmitFacts ==
    ASSUME TypeOK, NEW r \in Requests
    PROVE  Admit(r) \in Seq(Requests) /\ Grown(Admit(r), followers, r, MaxFollowers)
BY GrownFacts, BoundAssumption DEF Admit, TypeOK

\* Every variable has its type, a writer that is publishing has begun a line,
\* and a request that has not subscribed is in no list.
TypeInv == TypeOK /\ Begun /\ Fresh

\* The writers keep the types.
LEMMA WriterType ==
    ASSUME TypeInv, NEW w \in Writers, Publish(w)
    PROVE  TypeInv'
<1>0. TypeOK /\ Begun /\ Fresh /\ MaxLines[w] \in Nat /\ count[w] \in Nat
  BY BoundAssumption DEF TypeInv, TypeOK
<1>1. CASE PushService(w)
  <2> DEFINE l == <<w, count[w] + 1>>
  <2>1. l \in AllLines
    <3>1. count[w] + 1 \in 1..MaxLines[w]
      BY <1>0, <1>1 DEF PushService
    <3> QED BY <3>1, LineFacts
  <2>2. ServiceOf[w] \in Services /\ ring[ServiceOf[w]] \in Seq(AllLines)
    BY <1>0, ServiceAssumption DEF TypeOK
  <2>3. Push(ring[ServiceOf[w]], l) \in Seq(AllLines) /\ Len(Push(ring[ServiceOf[w]], l)) <= Size
    BY <2>1, <2>2, PushFacts DEF Grown, Shifted
  <2>4. ring' = [ring EXCEPT ![ServiceOf[w]] = Push(ring[ServiceOf[w]], l)]
    BY <1>0, <1>1 DEF PushService, TypeOK
  <2> HIDE DEF l
  <2>5. ring' \in [Services -> Seq(AllLines)] /\ \A s \in Services : Len(ring'[s]) <= Size
    BY <1>0, <2>2, <2>3, <2>4 DEF TypeOK
  <2>6. /\ wpc' \in [Writers -> {"idle", "mixed", "send"}]
        /\ count' \in [Writers -> Nat] /\ \A v \in Writers : count'[v] <= MaxLines[v]
        /\ \A v \in Writers : wpc'[v] # "idle" => count'[v] >= 1
    BY <1>0, <1>1, BoundAssumption DEF PushService, Part, TypeOK, Begun
  <2>7. tee' \in [Writers -> BOOLEAN]
    <3>1. ReadTee(w) \in BOOLEAN
      BY DEF ReadTee
    <3> QED BY <1>0, <1>1, <3>1 DEF PushService, TypeOK
  <2>8. past' \in [Services -> Seq(AllLines)]
    <3>1. past[ServiceOf[w]] \in Seq(AllLines)
      BY <1>0, <2>2 DEF TypeOK
    <3>2. Append(past[ServiceOf[w]], l) \in Seq(AllLines)
      BY <2>1, <3>1
    <3> QED BY <1>0, <1>1, <2>2, <3>2 DEF PushService, TypeOK, l
  <2> QED BY <1>0, <1>1, <2>5, <2>6, <2>7, <2>8 DEF PushService, TypeInv, TypeOK, Begun, Fresh, requestVars
<1>2. CASE PushMixed(w)
  <2>1. Line(w) \in AllLines
    BY <1>0, <1>2, OwnLine DEF PushMixed, Part
  <2>2. mixed' \in Seq(AllLines) /\ Len(mixed') <= Size
    BY <1>0, <1>2, <2>1, PushFacts DEF PushMixed, TypeOK, Grown, Shifted
  <2>3. /\ wpc' \in [Writers -> {"idle", "mixed", "send"}]
        /\ \A v \in Writers : wpc'[v] # "idle" => wpc[v] # "idle"
        /\ tee' \in [Writers -> BOOLEAN]
    BY <1>0, <1>2 DEF PushMixed, Part, TypeOK
  <2>4. stderr' \in SUBSET AllLines
    BY <1>0, <1>2, <2>1 DEF PushMixed, TypeOK
  <2>5. pastMixed' \in Seq(AllLines)
    BY <1>0, <1>2, <2>1 DEF PushMixed, TypeOK
  <2> QED BY <1>0, <1>2, <2>2, <2>3, <2>4, <2>5 DEF PushMixed, TypeInv, TypeOK, Begun, Fresh, requestVars
<1>3. CASE Send(w)
  <2>1. Line(w) \in AllLines
    BY <1>0, <1>3, OwnLine DEF Send, Part
  <2>2. Kept(followers, Len(followers), followers')
    BY <1>0, <1>3, RetainedFacts DEF Send, TypeOK
  <2>3. /\ followers' \in Seq(Requests) /\ Len(followers') <= MaxFollowers
        /\ \A r \in Requests : r \in Range(followers') => Live(r)
    <3>1. followers' \in Seq(Requests) /\ Len(followers') <= Len(followers) /\ Len(followers) <= MaxFollowers
      BY <1>0, <2>2 DEF Kept, TypeOK
    <3>2. followers' \in Seq(Requests) /\ Len(followers') <= MaxFollowers
      BY <1>0, <3>1, BoundAssumption DEF TypeOK
    <3>3. \A r \in Requests : r \in Range(followers') => \E i \in 1..Len(followers') : followers'[i] = r
      BY <3>1, RangeFacts
    <3> QED BY <2>2, <3>2, <3>3 DEF Kept
  <2>4. /\ wpc' \in [Writers -> {"idle", "mixed", "send"}]
        /\ \A v \in Writers : wpc'[v] # "idle" => wpc[v] # "idle"
    BY <1>0, <1>3 DEF Send, Part, TypeOK
  <2>5. chan' \in [Requests -> Seq(AllLines)] /\ \A r \in Requests : ~Live(r) => chan'[r] = chan[r]
    BY <1>0, <1>3, <2>1 DEF Send, TypeOK
  <2>6. seam' \in [Requests -> SUBSET AllLines]
    BY <1>0, <1>3, <2>1 DEF Send, TypeOK
  <2>7. UNCHANGED <<ring, mixed, bootTee, count, tee, stderr, rpc, shown, before, old, newer, past, pastMixed>>
    BY <1>3 DEF Send, pastVars
  <2>8. Fresh'
    BY <1>0, <2>3, <2>5, <2>7 DEF Fresh, Live
  <2>9. TypeOK'
    BY <1>0, <2>3, <2>4, <2>5, <2>6, <2>7 DEF TypeOK
  <2>10. Begun'
    BY <1>0, <2>4, <2>7 DEF Begun
  <2> QED BY <2>8, <2>9, <2>10 DEF TypeInv
<1> QED BY <1>1, <1>2, <1>3 DEF Publish

\* The requests keep the types.
LEMMA RequestType ==
    ASSUME TypeInv, NEW r \in Requests, Snapshot(r) \/ Follow(r) \/ Leave(r)
    PROVE  TypeInv'
<1>0. TypeOK /\ Begun /\ Fresh
  BY DEF TypeInv
<1>1. CASE Snapshot(r)
  <2>1. Newest(Source(r)) \in Seq(AllLines)
    BY <1>0, SourceFacts, LastNFacts, BoundAssumption DEF Newest
  <2>2. PastOf(r) \in Seq(AllLines) /\ Range(PastOf(r)) \subseteq AllLines /\ TooOld(PastOf(r)) \subseteq AllLines
    <3>1. PastOf(r) \in Seq(AllLines)
      BY <1>0, PastFacts
    <3>2. \A i \in 1..Len(PastOf(r)) : PastOf(r)[i] \in AllLines
      BY <3>1
    <3> QED BY <3>1, <3>2, RangeFacts DEF TooOld
  <2>3. /\ shown' \in [Requests -> Seq(AllLines)]
        /\ \A q \in Requests : q # r => shown'[q] = shown[q]
    BY <1>0, <1>1, <2>1 DEF Snapshot, TypeOK
  <2>4. before' \in [Requests -> SUBSET AllLines] /\ old' \in [Requests -> SUBSET AllLines]
    BY <1>0, <1>1, <2>2 DEF Snapshot, TypeOK
  <2>5. rpc' \in [Requests -> {"idle", "shown", "follow", "done"}] /\ rpc[r] = "idle" /\ rpc'[r] = "shown"
        /\ \A q \in Requests : q # r => rpc'[q] = rpc[q]
    BY <1>0, <1>1 DEF Snapshot, TypeOK
  <2>6. UNCHANGED <<ring, mixed, bootTee, followers, chan, wpc, count, tee, stderr, seam, newer, past, pastMixed>>
    BY <1>1 DEF Snapshot, hubVars, writerVars, pastVars
  <2>7. Fresh'
    BY <1>0, <2>3, <2>5, <2>6 DEF Fresh
  <2> QED BY <1>0, <2>3, <2>4, <2>5, <2>6, <2>7 DEF TypeInv, TypeOK, Begun
<1>2. CASE Subscribe(r)
  <2>1. followers' \in Seq(Requests) /\ Len(followers') <= MaxFollowers /\ Grown(followers', followers, r, MaxFollowers)
    BY <1>0, <1>2, AdmitFacts DEF Subscribe, Grown, Shifted
  <2>2. ASSUME NEW q \in Range(followers') PROVE q = r \/ q \in Range(followers)
    <3>1. PICK d \in Nat : Shifted(followers', followers, r, MaxFollowers, d)
      BY <2>1 DEF Grown
    <3>2. PICK i \in 1..Len(followers') : followers'[i] = q
      BY <2>1, <2>2, RangeFacts
    <3>3. CASE i = Len(followers')
      BY <3>1, <3>2, <3>3 DEF Shifted
    <3>4. CASE i < Len(followers')
      <4>1. i + d \in 1..Len(followers) /\ followers[i + d] = q
        BY <3>1, <3>2, <3>4 DEF Shifted
      <4>2. followers \in Seq(Requests)
        BY <1>0 DEF TypeOK
      <4> QED BY <4>1, <4>2, RangeFacts
    <3>5. Len(followers') \in Nat
      BY <2>1
    <3> QED BY <3>2, <3>3, <3>4, <3>5
  <2>3. rpc' \in [Requests -> {"idle", "shown", "follow", "done"}] /\ rpc[r] = "shown" /\ rpc'[r] = "follow"
        /\ \A q \in Requests : q # r => rpc'[q] = rpc[q]
    BY <1>0, <1>2 DEF Subscribe, TypeOK
  <2>4. newer' \in [Requests -> Nat]
    BY <1>0, <1>2 DEF Subscribe, TypeOK
  <2>5. UNCHANGED <<ring, mixed, bootTee, chan, wpc, count, tee, stderr, shown, before, old, seam, past, pastMixed>>
    BY <1>2 DEF Subscribe, writerVars, pastVars
  <2>6. Fresh'
    BY <1>0, <2>2, <2>3, <2>5 DEF Fresh
  <2> QED BY <1>0, <2>1, <2>3, <2>4, <2>5, <2>6 DEF TypeInv, TypeOK, Begun
<1>3. CASE Receive(r)
  <2>1. chan[r] \in Seq(AllLines) /\ chan[r] # <<>>
    BY <1>0, <1>3 DEF Receive, TypeOK
  <2>2. Tail(chan[r]) \in Seq(AllLines) /\ Head(chan[r]) \in AllLines
    BY <2>1, RangeFacts
  <2>3. chan' \in [Requests -> Seq(AllLines)] /\ \A q \in Requests : q # r => chan'[q] = chan[q]
    BY <1>0, <1>3, <2>2 DEF Receive, TypeOK
  <2>4. shown' \in [Requests -> Seq(AllLines)] /\ \A q \in Requests : q # r => shown'[q] = shown[q]
    <3>1. shown[r] \in Seq(AllLines) /\ Append(shown[r], Head(chan[r])) \in Seq(AllLines)
      BY <1>0, <2>2 DEF TypeOK
    <3> QED BY <1>0, <1>3, <3>1 DEF Receive, TypeOK
  <2>5. /\ rpc[r] = "follow"
        /\ UNCHANGED <<ring, mixed, bootTee, followers, wpc, count, tee, stderr, rpc>>
        /\ UNCHANGED <<before, old, seam, newer, past, pastMixed>>
    BY <1>3 DEF Receive, hubVars, writerVars, pastVars
  <2>6. Fresh'
    BY <1>0, <2>3, <2>4, <2>5 DEF Fresh
  <2> QED BY <1>0, <2>3, <2>4, <2>5, <2>6 DEF TypeInv, TypeOK, Begun
<1>4. CASE Ended(r)
  <2>1. chan' \in [Requests -> Seq(AllLines)] /\ \A q \in Requests : q # r => chan'[q] = chan[q]
    BY <1>0, <1>4 DEF Ended, TypeOK
  <2>2. shown' \in [Requests -> Seq(AllLines)] /\ \A q \in Requests : q # r => shown'[q] = shown[q]
    BY <1>0, <1>4 DEF Ended, TypeOK
  <2>3. before' \in [Requests -> SUBSET AllLines] /\ old' \in [Requests -> SUBSET AllLines]
        /\ seam' \in [Requests -> SUBSET AllLines] /\ newer' \in [Requests -> Nat]
    BY <1>0, <1>4 DEF Ended, TypeOK
  <2>4. rpc' \in [Requests -> {"idle", "shown", "follow", "done"}] /\ rpc'[r] = "done"
        /\ \A q \in Requests : q # r => rpc'[q] = rpc[q]
    BY <1>0, <1>4 DEF Ended, TypeOK
  <2>5. UNCHANGED <<ring, mixed, bootTee, followers, wpc, count, tee, stderr, past, pastMixed>>
    BY <1>4 DEF Ended, hubVars, writerVars, pastVars
  <2>6. Fresh'
    BY <1>0, <2>1, <2>2, <2>4, <2>5 DEF Fresh
  <2> QED BY <1>0, <2>1, <2>2, <2>3, <2>4, <2>5, <2>6 DEF TypeInv, TypeOK, Begun
<1> QED BY <1>1, <1>2, <1>3, <1>4 DEF Follow, DroppedEnd, Leave

\* Rings, list of followers, channels and requests have their types, and the
\* rings and the list respect their caps (RingBuffer::push, subscribe).
THEOREM TypeCorrect == Spec => []TypeInv
<1>1. Init => TypeInv
  <2> SUFFICES ASSUME Init PROVE TypeInv
    OBVIOUS
  <2>1. Size \in Nat /\ Len(<<>>) = 0 /\ Range(<<>>) = {}
    BY BoundAssumption DEF Size, Range
  <2>2. TypeOK
    BY <2>1, BoundAssumption DEF Init, TypeOK
  <2>3. Begun /\ Fresh
    BY <2>1 DEF Init, Begun, Fresh
  <2> QED BY <2>2, <2>3 DEF TypeInv
<1>2. TypeInv /\ [Next]_vars => TypeInv'
  <2> SUFFICES ASSUME TypeInv, [Next]_vars PROVE TypeInv'
    OBVIOUS
  <2>1. CASE EndBootTee \/ UNCHANGED vars
    BY <2>1 DEF EndBootTee, vars, hubVars, writerVars, requestVars, pastVars, TypeInv, TypeOK, Begun, Fresh
  <2> QED BY <2>1, WriterType, RequestType DEF Next
<1> QED BY <1>1, <1>2, PTL DEF Spec

----------------------------------------------------------------------------
(* Who is dropped.                                                          *)

\* The list is pruned: nobody moves away from its end.
LEMMA SendDrop ==
    ASSUME TypeInv, DropInv, NEW w \in Writers, Send(w)
    PROVE  DropInv'
<1>1. /\ followers \in Seq(Requests) /\ Kept(followers, Len(followers), followers')
      /\ UNCHANGED <<rpc, newer>> /\ newer \in [Requests -> Nat]
  BY RetainedFacts DEF Send, TypeInv, TypeOK
<1>2. followers' \in Seq(Requests) /\ Len(followers') \in Nat /\ Len(followers) \in Nat
  BY <1>1 DEF Kept
<1> SUFFICES ASSUME NEW r \in Requests, Live(r)
             PROVE  /\ \A q \in 1..Len(followers') :
                          followers'[q] = r => Len(followers') - q <= newer[r]
                    /\ r \notin Range(followers') => newer[r] >= MaxFollowers
  BY <1>1 DEF DropInv, Live
<1>3. ASSUME NEW q \in 1..Len(followers'), followers'[q] = r
      PROVE  Len(followers') - q <= newer[r]
  <2>1. PICK p \in 1..Len(followers) :
           followers[p] = followers'[q] /\ Len(followers') - q <= Len(followers) - p
    BY <1>1 DEF Kept
  <2>2. Len(followers) - p <= newer[r] /\ newer[r] \in Nat
    BY <1>1, <1>3, <2>1 DEF DropInv
  <2> QED BY <1>2, <2>1, <2>2
<1>4. ASSUME r \notin Range(followers') PROVE newer[r] >= MaxFollowers
  <2>1. r \notin Range(followers)
    <3> SUFFICES ASSUME r \in Range(followers) PROVE FALSE
      OBVIOUS
    <3>1. PICK p \in 1..Len(followers) : followers[p] = r
      BY <1>1, RangeFacts
    <3> QED BY <1>1, <1>4, <3>1 DEF Kept
  <2> QED BY <2>1 DEF DropInv
<1> QED BY <1>3, <1>4

\* A subscription moves everybody by one, and drops the first when the list is full.
LEMMA SubscribeDrop ==
    ASSUME TypeInv, DropInv, NEW r \in Requests, Subscribe(r)
    PROVE  DropInv'
<1>1. /\ followers \in Seq(Requests) /\ followers' \in Seq(Requests)
      /\ Grown(followers', followers, r, MaxFollowers) /\ newer \in [Requests -> Nat]
      /\ r \notin Range(followers)
  BY AdmitFacts DEF Subscribe, TypeInv, TypeOK, Fresh
<1>2. PICK d \in Nat : Shifted(followers', followers, r, MaxFollowers, d)
  BY <1>1 DEF Grown
<1>3. Len(followers') \in Nat /\ Len(followers) \in Nat /\ MaxFollowers \in Nat
  BY <1>1, BoundAssumption
<1>4. rpc[r] = "shown" /\ rpc'[r] = "follow" /\ \A q \in Requests : q # r => rpc'[q] = rpc[q]
  BY DEF Subscribe, TypeInv, TypeOK
<1>5. \A q \in Requests : newer'[q] = IF rpc[q] = "follow" THEN newer[q] + 1 ELSE newer[q]
  BY DEF Subscribe
<1>6. Len(followers') \in 1..Len(followers') /\ followers'[Len(followers')] = r
  BY <1>2, <1>3 DEF Shifted
<1> SUFFICES ASSUME NEW s \in Requests, Live(s)'
             PROVE  /\ \A q \in 1..Len(followers') :
                          followers'[q] = s => Len(followers') - q <= newer'[s]
                    /\ s \notin Range(followers') => newer'[s] >= MaxFollowers
  BY DEF DropInv
<1>7. CASE s = r
  <2>1. \A q \in 1..Len(followers') : followers'[q] = r => q = Len(followers')
    <3> SUFFICES ASSUME NEW q \in 1..Len(followers'), followers'[q] = r, q < Len(followers') PROVE FALSE
      BY <1>3
    <3>1. q + d \in 1..Len(followers) /\ followers[q + d] = r
      BY <1>2 DEF Shifted
    <3> QED BY <1>1, <3>1, RangeFacts
  <2>2. r \in Range(followers')
    BY <1>1, <1>6, RangeFacts
  <2>3. newer'[r] \in Nat
    BY <1>1, <1>4, <1>5
  <2> QED BY <1>3, <1>7, <2>1, <2>2, <2>3
<1>8. CASE s # r
  <2>1. Live(s) /\ newer'[s] = newer[s] + 1 /\ newer[s] \in Nat
    BY <1>1, <1>4, <1>5, <1>8 DEF Live
  <2>2. ASSUME NEW q \in 1..Len(followers'), followers'[q] = s
        PROVE  Len(followers') - q <= newer'[s]
    <3>1. q < Len(followers')
      BY <1>3, <1>6, <1>8, <2>2
    <3>2. q + d \in 1..Len(followers) /\ followers[q + d] = s
      BY <1>2, <2>2, <3>1 DEF Shifted
    <3>3. Len(followers) - (q + d) <= newer[s]
      BY <2>1, <3>2 DEF DropInv
    <3>4. d + Len(followers') = Len(followers) + 1
      BY <1>2 DEF Shifted
    <3> QED BY <1>3, <2>1, <3>3, <3>4
  <2>3. ASSUME s \notin Range(followers') PROVE newer'[s] >= MaxFollowers
    <3>1. CASE s \notin Range(followers)
      BY <1>3, <2>1, <3>1 DEF DropInv
    <3>2. CASE s \in Range(followers)
      <4>1. PICK p \in 1..Len(followers) : followers[p] = s
        BY <1>1, <3>2, RangeFacts
      <4>2. Len(followers) - p <= newer[s]
        BY <2>1, <4>1 DEF DropInv
      <4>3. p <= d
        <5> SUFFICES ASSUME p > d PROVE FALSE
          BY <4>1
        <5>1. p - d \in 1..Len(followers') /\ p - d < Len(followers')
          BY <1>2, <1>3 DEF Shifted
        <5>2. followers'[p - d] = followers[(p - d) + d]
          BY <1>2, <5>1 DEF Shifted
        <5>3. followers'[p - d] = s
          BY <4>1, <5>2
        <5> QED BY <1>1, <2>3, <5>1, <5>3, RangeFacts
      <4>4. Len(followers') = MaxFollowers /\ d + MaxFollowers = Len(followers) + 1
        BY <1>2, <4>1, <4>3 DEF Shifted
      <4> QED BY <1>3, <2>1, <4>1, <4>2, <4>3, <4>4
    <3> QED BY <3>1, <3>2
  <2> QED BY <2>2, <2>3
<1> QED BY <1>7, <1>8

\* A follower is dropped only after as many newer subscriptions as the cap
\* allows, although those of clients that hung up stay in the list for a while
\* (subscribe, send_to_followers).
THEOREM DroppedOnlyAtCapHolds == Spec => []DroppedOnlyAtCap
<1>1. Init => DropInv
  BY DEF Init, DropInv, Live
<1>2. TypeInv /\ DropInv /\ [Next]_vars => DropInv'
  <2> SUFFICES ASSUME TypeInv, DropInv, [Next]_vars PROVE DropInv'
    OBVIOUS
  <2>1. CASE EndBootTee \/ UNCHANGED vars \/ \E w \in Writers : PushService(w) \/ PushMixed(w)
    BY <2>1 DEF EndBootTee, vars, hubVars, requestVars, PushService, PushMixed, DropInv, Live
  <2>2. ASSUME NEW r \in Requests, Snapshot(r) PROVE DropInv'
    BY <2>2 DEF Snapshot, hubVars, DropInv, Live, TypeInv, TypeOK
  <2>3. ASSUME NEW r \in Requests, Receive(r) PROVE DropInv'
    BY <2>3 DEF Receive, hubVars, DropInv, Live
  <2>4. ASSUME NEW r \in Requests, Ended(r) PROVE DropInv'
    BY <2>4 DEF Ended, hubVars, DropInv, Live, TypeInv, TypeOK
  <2> QED BY <2>1, <2>2, <2>3, <2>4, SendDrop, SubscribeDrop DEF Next, Publish, Follow, DroppedEnd, Leave
<1>3. DropInv => DroppedOnlyAtCap
  BY DEF DropInv, DroppedOnlyAtCap
<1> QED BY <1>1, <1>2, <1>3, TypeCorrect, PTL DEF Spec

----------------------------------------------------------------------------
(* What is lost.                                                            *)

\* A ring that takes a line stays the end of what was pushed to it.
LEMMA PushPast ==
    ASSUME NEW s \in Seq(AllLines), NEW p \in Seq(AllLines), NEW l \in AllLines,
           \E d \in Nat : EndOf(s, p, Size, d)
    PROVE  \E d \in Nat : EndOf(Push(s, l), Append(p, l), Size, d)
<1> DEFINE t == Push(s, l)
           q == Append(p, l)
<1>1. PICK d \in Nat : EndOf(s, p, Size, d)
  OBVIOUS
<1>2. t \in Seq(AllLines) /\ \E e \in Nat : Shifted(t, s, l, Size, e)
  BY PushFacts DEF Grown
<1>3. PICK e \in Nat : Shifted(t, s, l, Size, e)
  BY <1>2
<1>4. /\ Len(t) \in Nat /\ Len(s) \in Nat /\ Len(p) \in Nat /\ Len(q) = Len(p) + 1
      /\ q[Len(p) + 1] = l /\ \A i \in 1..Len(p) : q[i] = p[i]
  BY <1>2
<1>5. Size \in Nat
  BY BoundAssumption DEF Size
<1> HIDE DEF t, q
<1>6. /\ d + Len(s) = Len(p) /\ Len(s) <= Size /\ (d > 0 => Len(s) = Size)
      /\ \A i \in 1..Len(s) : i + d \in 1..Len(p) /\ s[i] = p[i + d]
  BY <1>1 DEF EndOf
<1>7. /\ e + Len(t) = Len(s) + 1 /\ Len(t) >= 1 /\ Len(t) <= Size /\ (e > 0 => Len(t) = Size)
      /\ t[Len(t)] = l
      /\ \A i \in 1..Len(t) : i < Len(t) => i + e \in 1..Len(s) /\ t[i] = s[i + e]
  BY <1>3 DEF Shifted
<1>8. d + e \in Nat /\ (d + e) + Len(t) = Len(q) /\ (d + e > 0 => Len(t) = Size)
  <2>0. d + Len(s) = Len(p) /\ e + Len(t) = Len(s) + 1
    BY <1>6, <1>7
  <2>1. (d + e) + Len(t) = Len(p) + 1
    <3>1. Len(t) \in Nat /\ Len(s) \in Nat /\ Len(p) \in Nat
      BY <1>4
    <3> QED BY <2>0, <3>1
  <2>2. CASE e > 0
    BY <1>4, <1>7, <2>1, <2>2
  <2>3. CASE e = 0 /\ d > 0
    <3>1. Len(s) = Size /\ Len(t) = Len(s) + 1 /\ Len(t) <= Size
      BY <1>4, <1>5, <1>6, <1>7, <2>3
    <3> QED BY <1>4, <1>5, <3>1
  <2> QED BY <1>4, <2>1, <2>2, <2>3
<1>9. ASSUME NEW i \in 1..Len(t) PROVE i + (d + e) \in 1..Len(q) /\ t[i] = q[i + (d + e)]
  <2>1. CASE i = Len(t)
    <3>1. i + (d + e) = Len(p) + 1
      BY <1>4, <1>8, <2>1
    <3> QED BY <1>4, <1>7, <2>1, <3>1
  <2>2. CASE i < Len(t)
    <3>1. i + e \in 1..Len(s) /\ t[i] = s[i + e]
      BY <1>7, <2>2
    <3>2. (i + e) + d \in 1..Len(p) /\ s[i + e] = p[(i + e) + d]
      BY <1>6, <3>1
    <3>3. (i + e) + d = i + (d + e)
      BY <1>4
    <3>4. i + (d + e) \in 1..Len(p)
      BY <3>2, <3>3
    <3> QED BY <1>4, <3>1, <3>2, <3>3, <3>4
  <2> QED BY <1>4, <2>1, <2>2
<1>10. EndOf(t, q, Size, d + e)
  BY <1>7, <1>8, <1>9 DEF EndOf
<1> QED BY <1>8, <1>10 DEF t, q

\* What was pushed is in the snapshot or too old for it.
LEMMA NewestShows ==
    ASSUME NEW s \in Seq(AllLines), NEW p \in Seq(AllLines), \E d \in Nat : EndOf(s, p, Size, d)
    PROVE  Range(p) \subseteq Range(Newest(s)) \cup TooOld(p)
<1> DEFINE t == Newest(s)
<1>1. PICK d \in Nat : EndOf(s, p, Size, d)
  OBVIOUS
<1>2. Lines \in Nat /\ Size \in Nat /\ Room \in Nat /\ Room <= Lines /\ Room <= Size
  BY BoundAssumption DEF Room, Size
<1>3. t \in Seq(AllLines) /\ \E e \in Nat : EndOf(t, s, Lines, e)
  BY <1>2, LastNFacts DEF Newest
<1> HIDE DEF t
<1>4. PICK e \in Nat : EndOf(t, s, Lines, e)
  BY <1>3
<1>5. Len(s) \in Nat /\ Len(p) \in Nat /\ Len(t) \in Nat
  BY <1>3
<1> SUFFICES ASSUME NEW x \in Range(p), x \notin Range(t) PROVE x \in TooOld(p)
  BY DEF t
<1>6. PICK i \in 1..Len(p) : p[i] = x
  BY RangeFacts
<1>7. ~(i > d + e)
  <2> SUFFICES ASSUME i > d + e PROVE FALSE
    OBVIOUS
  <2>1. (i - d) - e \in 1..Len(t) /\ ((i - d) - e) + e = i - d /\ (i - d) + d = i
    BY <1>1, <1>4, <1>5 DEF EndOf
  <2>2. i - d \in 1..Len(s) /\ t[(i - d) - e] = s[i - d]
    BY <1>4, <2>1 DEF EndOf
  <2>3. s[i - d] = p[i]
    BY <1>1, <2>1, <2>2 DEF EndOf
  <2> QED BY <1>3, <1>6, <2>1, <2>2, <2>3, RangeFacts
<1>8. i + Room <= Len(p)
  BY <1>1, <1>2, <1>4, <1>5, <1>7 DEF EndOf
<1> QED BY <1>6, <1>8 DEF TooOld

\* The histories grow with the rings.
LEMMA PastHolds ==
    ASSUME TypeInv, PastInv, [Next]_vars
    PROVE  PastInv'
<1>0. TypeOK /\ Begun /\ count \in [Writers -> Nat] /\ wpc \in [Writers -> {"idle", "mixed", "send"}]
  BY DEF TypeInv, TypeOK
<1>1. CASE UNCHANGED <<ring, mixed, past, pastMixed, count, wpc>>
  BY <1>1 DEF PastInv
<1>2. ASSUME NEW w \in Writers, PushService(w) PROVE PastInv'
  <2> DEFINE l == <<w, count[w] + 1>>
             v == ServiceOf[w]
  <2>1. count[w] + 1 \in 1..MaxLines[w] /\ count[w] \in Nat
    <3>1. count[w] \in Nat /\ MaxLines[w] \in Nat /\ count[w] < MaxLines[w]
      BY <1>0, <1>2, BoundAssumption DEF PushService
    <3> QED BY <3>1
  <2>2. l \in AllLines /\ v \in Services
    BY <2>1, LineFacts, ServiceAssumption
  <2>3. /\ ring' = [ring EXCEPT ![v] = Push(ring[v], l)]
        /\ past' = [past EXCEPT ![v] = Append(past[v], l)]
        /\ wpc[w] = "idle"
    BY <1>0, <1>2 DEF PushService, Part, TypeOK
  <2> HIDE DEF l, v
  <2>4. /\ ring[v] \in Seq(AllLines) /\ past[v] \in Seq(AllLines)
        /\ ring \in [Services -> Seq(AllLines)] /\ past \in [Services -> Seq(AllLines)]
    BY <1>0, <2>2 DEF TypeOK
  <2>5. \A s \in Services : \E d \in Nat : EndOf(ring'[s], past'[s], Size, d)
    <3>1. \E d \in Nat : EndOf(Push(ring[v], l), Append(past[v], l), Size, d)
      BY <2>2, <2>4, PushPast DEF PastInv
    <3>2. ring'[v] = Push(ring[v], l) /\ past'[v] = Append(past[v], l)
          /\ \A s \in Services : s # v => ring'[s] = ring[s] /\ past'[s] = past[s]
      BY <2>2, <2>3, <2>4
    <3> QED BY <3>1, <3>2 DEF PastInv
  <2>6. Range(past'[v]) = Range(past[v]) \cup {l} /\ \A s \in Services : s # v => past'[s] = past[s]
    BY <2>2, <2>3, <2>4, RangeFacts
  <2>7. \A u \in Writers : /\ count'[u] = IF u = w THEN count[u] + 1 ELSE count[u]
                           /\ wpc'[u] = IF u = w THEN "mixed" ELSE wpc[u]
    BY <1>0, <1>2 DEF PushService, Part
  <2>8. mixed' = mixed /\ pastMixed' = pastMixed
    BY <1>2 DEF PushService
  <2>9. ASSUME NEW u \in Writers, NEW n \in 1..count'[u]
        PROVE  /\ <<u, n>> \in Range(past'[ServiceOf[u]])
               /\ n < count'[u] \/ wpc'[u] # "mixed" => <<u, n>> \in Range(pastMixed')
    <3>0. ServiceOf[u] \in Services /\ count[u] \in Nat
      BY <1>0, ServiceAssumption
    <3>1. CASE n \in 1..count[u]
      <4>1. <<u, n>> \in Range(past[ServiceOf[u]])
        BY <3>1 DEF PastInv
      <4>2. n < count[u] \/ wpc[u] # "mixed" => <<u, n>> \in Range(pastMixed)
        BY <3>1 DEF PastInv
      <4>3. <<u, n>> \in Range(past'[ServiceOf[u]])
        BY <2>6, <3>0, <4>1
      <4> QED BY <2>3, <2>7, <2>8, <4>2, <4>3
    <3>2. CASE n \notin 1..count[u]
      <4>1. u = w /\ n = count[w] + 1
        BY <2>7, <3>0, <3>2
      <4>2. <<u, n>> = l /\ ServiceOf[u] = v
        BY <4>1 DEF l, v
      <4> QED BY <2>6, <2>7, <4>1, <4>2
    <3> QED BY <3>1, <3>2
  <2> QED BY <2>5, <2>8, <2>9 DEF PastInv
<1>3. ASSUME NEW w \in Writers, PushMixed(w) PROVE PastInv'
  <2>1. /\ Line(w) \in AllLines /\ Line(w) = <<w, count[w]>> /\ mixed \in Seq(AllLines) /\ pastMixed \in Seq(AllLines)
        /\ mixed' = Push(mixed, Line(w)) /\ pastMixed' = Append(pastMixed, Line(w))
        /\ UNCHANGED <<ring, past, count>>
    BY <1>0, <1>3, OwnLine DEF PushMixed, Part, TypeOK, Line
  <2>2. \E d \in Nat : EndOf(mixed', pastMixed', Size, d)
    BY <2>1, PushPast DEF PastInv
  <2>3. Range(pastMixed') = Range(pastMixed) \cup {<<w, count[w]>>}
    <3>1. Range(Append(pastMixed, Line(w))) = Range(pastMixed) \cup {Line(w)}
      BY <2>1, RangeFacts
    <3> QED BY <2>1, <3>1
  <2>4. \A u \in Writers : u # w => wpc'[u] = wpc[u]
    BY <1>0, <1>3 DEF PushMixed, Part
  <2>5. ASSUME NEW u \in Writers, NEW n \in 1..count'[u]
        PROVE  /\ <<u, n>> \in Range(past'[ServiceOf[u]])
               /\ n < count'[u] \/ wpc'[u] # "mixed" => <<u, n>> \in Range(pastMixed')
    <3>1. n \in 1..count[u] /\ count[u] \in Nat
      BY <1>0, <2>1
    <3>2. /\ <<u, n>> \in Range(past[ServiceOf[u]])
          /\ n < count[u] \/ wpc[u] # "mixed" => <<u, n>> \in Range(pastMixed)
      BY <3>1 DEF PastInv
    <3>3. CASE u = w /\ n = count[w]
      BY <2>1, <2>3, <3>2, <3>3
    <3>4. CASE u = w /\ n # count[w]
      <4>1. n < count[u]
        BY <3>1, <3>4
      <4> QED BY <2>1, <2>3, <3>2, <4>1
    <3>5. CASE u # w
      BY <2>1, <2>3, <2>4, <3>2, <3>5
    <3> QED BY <3>3, <3>4, <3>5
  <2> QED BY <2>1, <2>2, <2>5 DEF PastInv
<1>4. ASSUME NEW w \in Writers, Send(w) PROVE PastInv'
  <2>1. wpc[w] = "send" /\ UNCHANGED <<ring, mixed, past, pastMixed, count>>
        /\ \A u \in Writers : u # w => wpc'[u] = wpc[u]
    BY <1>0, <1>4 DEF Send, Part, pastVars
  <2> QED BY <2>1 DEF PastInv
<1>5. ASSUME EndBootTee \/ UNCHANGED vars \/ \E r \in Requests : Snapshot(r) \/ Follow(r) \/ Leave(r)
      PROVE  UNCHANGED <<ring, mixed, past, pastMixed, count, wpc>>
  BY <1>5 DEF EndBootTee, vars, hubVars, writerVars, pastVars, Snapshot, Follow, Subscribe, Receive,
              DroppedEnd, Leave, Ended
<1> QED BY <1>1, <1>2, <1>3, <1>4, <1>5 DEF Next, Publish

\* A line is sent when its writer's publish ends, and at no other step.
LEMMA SentFacts ==
    ASSUME TypeInv, NEW l \in AllLines, Sent(l)', ~Sent(l), [Next]_vars
    PROVE  Send(l[1]) /\ l = Line(l[1])
<1> DEFINE v == l[1]
<1>1. v \in Writers /\ l[2] \in Nat /\ l = <<v, l[2]>>
  BY LineFacts
<1>2. count[v] \in Nat /\ count \in [Writers -> Nat] /\ wpc \in [Writers -> {"idle", "mixed", "send"}]
  BY <1>1 DEF TypeInv, TypeOK
<1> HIDE DEF v
<1>3. Sent(l) <=> l[2] < count[v] \/ (l[2] = count[v] /\ wpc[v] = "idle")
  BY DEF Sent, v
<1>4. Sent(l)' <=> l[2] < count'[v] \/ (l[2] = count'[v] /\ wpc'[v] = "idle")
  BY DEF Sent, v
<1>5. count' # count \/ wpc' # wpc
  BY <1>3, <1>4
<1>6. PICK w \in Writers : Publish(w)
  BY <1>5 DEF Next, vars, EndBootTee, Snapshot, Follow, Subscribe, Receive, DroppedEnd, Leave, Ended, writerVars
<1>7. CASE PushService(w)
  <2>1. wpc[w] = "idle" /\ \A u \in Writers : /\ count'[u] = IF u = w THEN count[u] + 1 ELSE count[u]
                                              /\ wpc'[u] = IF u = w THEN "mixed" ELSE wpc[u]
    BY <1>2, <1>7 DEF PushService, Part
  <2> QED BY <1>1, <1>2, <1>3, <1>4, <2>1
<1>8. CASE PushMixed(w)
  <2>1. count' = count /\ \A u \in Writers : wpc'[u] = "idle" => wpc[u] = "idle"
    BY <1>2, <1>8 DEF PushMixed, Part
  <2> QED BY <1>1, <1>3, <1>4, <2>1
<1>9. CASE Send(w)
  <2>1. count' = count /\ \A u \in Writers : u # w => wpc'[u] = wpc[u]
    BY <1>2, <1>9 DEF Send, Part
  <2>2. w = v /\ l[2] = count[v]
    BY <1>1, <1>3, <1>4, <2>1
  <2> QED BY <1>1, <1>9, <2>2 DEF Line, v
<1> QED BY <1>6, <1>7, <1>8, <1>9 DEF Publish

\* A request that the invariant is about.
Served(r) == rpc[r] = "shown" \/ (Live(r) /\ r \in Range(followers))

\* What it has or will have, and what it is allowed to miss.
Has(r) == Range(shown[r]) \cup Range(chan[r]) \cup seam[r] \cup old[r]

\* The line that is sent goes to each of them.
LEMMA SendSeam ==
    ASSUME TypeInv, BeforeInv, SeamInv, NEW w \in Writers, Send(w), [Next]_vars
    PROVE  SeamInv'
<1> SUFFICES ASSUME NEW r \in Requests, Served(r)', NEW l \in Wanted(r), Sent(l)'
             PROVE  l \in Has(r)'
  BY DEF SeamInv, Served, Has, Wanted
<1>1. /\ TypeOK /\ Begun /\ UNCHANGED <<rpc, shown, before, old>> /\ wpc[w] = "send"
      /\ Line(w) \in AllLines
  BY OwnLine DEF Send, Part, TypeInv
<1>2. chan[r] \in Seq(AllLines) /\ followers \in Seq(Requests) /\ l \in AllLines
  BY <1>1 DEF TypeOK, Wanted
<1>3. chan'[r] = IF r \in Range(followers) /\ Live(r) THEN Append(chan[r], Line(w)) ELSE chan[r]
  BY DEF Send
<1>4. seam'[r] = IF rpc[r] = "shown" /\ Line(w) \notin before[r] THEN seam[r] \cup {Line(w)} ELSE seam[r]
  BY DEF Send
<1>5. rpc[r] = "shown" \/ (Live(r) /\ r \in Range(followers))
  <2>1. Kept(followers, Len(followers), followers')
    BY <1>2, RetainedFacts DEF Send
  <2>2. followers' \in Seq(Requests) /\ \A q \in 1..Len(followers') : \E p \in 1..Len(followers) : followers[p] = followers'[q]
    BY <2>1 DEF Kept
  <2>3. r \in Range(followers') => r \in Range(followers)
    <3> HAVE r \in Range(followers')
    <3>1. PICK q \in 1..Len(followers') : followers'[q] = r
      BY <2>2, RangeFacts
    <3>2. PICK p \in 1..Len(followers) : followers[p] = r
      BY <2>2, <3>1
    <3> QED BY <1>2, <3>2, RangeFacts
  <2> QED BY <1>1, <2>3 DEF Served, Live
<1>6. Range(chan[r]) \subseteq Range(chan'[r])
  BY <1>1, <1>2, <1>3, RangeFacts
<1>7. Line(w) \in Range(chan'[r]) \cup seam'[r] \cup Range(shown[r]) \cup old[r]
  <2>1. CASE rpc[r] = "shown"
    <3>1. before[r] \subseteq Range(shown[r]) \cup old[r]
      BY <2>1 DEF BeforeInv
    <3> QED BY <1>4, <2>1, <3>1
  <2>2. CASE Live(r) /\ r \in Range(followers)
    <3>1. chan'[r] = Append(chan[r], Line(w))
      BY <1>3, <2>2
    <3>2. Range(chan'[r]) = Range(chan[r]) \cup {Line(w)}
      BY <1>1, <1>2, <3>1, RangeFacts
    <3> QED BY <3>2
  <2> QED BY <1>5, <2>1, <2>2
<1>8. CASE Sent(l)
  <2>1. l \in Has(r)
    BY <1>5, <1>8 DEF SeamInv, Has
  <2> QED BY <1>1, <1>4, <1>6, <2>1 DEF Has
<1>9. CASE ~Sent(l)
  <2>1. Send(l[1]) /\ l = Line(l[1]) /\ l[1] \in Writers
    BY <1>2, <1>9, SentFacts, LineFacts
  <2>2. l[1] = w
    <3>1. wpc'[w] = "idle" /\ wpc[w] = "send" /\ \A v \in Writers : v # l[1] => wpc'[v] = wpc[v]
      BY <1>1, <2>1 DEF Send, Part, TypeOK
    <3> QED BY <3>1
  <2> QED BY <1>1, <1>7, <2>1, <2>2 DEF Has
<1> QED BY <1>8, <1>9

\* What a snapshot shows at once stays with the client.
LEMMA BeforeHolds ==
    ASSUME TypeInv, PastInv, BeforeInv, [Next]_vars
    PROVE  BeforeInv'
<1> SUFFICES ASSUME NEW r \in Requests, rpc'[r] \in {"shown", "follow"}
             PROVE  before'[r] \subseteq Range(shown'[r]) \cup old'[r]
  BY DEF BeforeInv
<1>0. TypeOK
  BY DEF TypeInv
<1>1. CASE UNCHANGED <<rpc, shown, before, old>>
  BY <1>1 DEF BeforeInv
<1>2. ASSUME EndBootTee \/ UNCHANGED vars \/ \E w \in Writers : Publish(w)
      PROVE  UNCHANGED <<rpc, shown, before, old>>
  BY <1>2 DEF EndBootTee, vars, requestVars, Publish, PushService, PushMixed, Send
<1>3. ASSUME NEW q \in Requests, Snapshot(q)
      PROVE  before'[r] \subseteq Range(shown'[r]) \cup old'[r]
  <2>1. CASE r = q
    <3>1. /\ shown'[r] = Newest(Source(r)) /\ before'[r] = Range(PastOf(r))
          /\ old'[r] = TooOld(PastOf(r))
      BY <1>0, <1>3, <2>1 DEF Snapshot, TypeOK
    <3>2. /\ Source(r) \in Seq(AllLines) /\ PastOf(r) \in Seq(AllLines)
          /\ \E d \in Nat : EndOf(Source(r), PastOf(r), Size, d)
      BY <1>0, SourceFacts, PastFacts DEF PastInv
    <3> QED BY <3>1, <3>2, NewestShows
  <2>2. CASE r # q
    <3>1. rpc'[r] = rpc[r] /\ shown'[r] = shown[r] /\ before'[r] = before[r] /\ old'[r] = old[r]
      BY <1>0, <1>3, <2>2 DEF Snapshot, TypeOK
    <3> QED BY <3>1 DEF BeforeInv
  <2> QED BY <2>1, <2>2
<1>4. ASSUME NEW q \in Requests, Subscribe(q)
      PROVE  before'[r] \subseteq Range(shown'[r]) \cup old'[r]
  <2>1. rpc[r] \in {"shown", "follow"} /\ UNCHANGED <<shown, before, old>>
    BY <1>0, <1>4 DEF Subscribe, TypeOK
  <2> QED BY <2>1 DEF BeforeInv
<1>5. ASSUME NEW q \in Requests, Receive(q)
      PROVE  before'[r] \subseteq Range(shown'[r]) \cup old'[r]
  <2>1. UNCHANGED <<rpc, before, old>> /\ chan[q] # <<>>
        /\ (shown'[r] = shown[r] \/ (shown'[r] = Append(shown[r], Head(chan[r])) /\ r = q))
    <3>1. /\ UNCHANGED <<rpc, before, old>> /\ chan[q] # <<>>
          /\ shown' = shown \/ shown' = [shown EXCEPT ![q] = Append(@, Head(chan[q]))]
      BY <1>5 DEF Receive
    <3> QED BY <1>0, <3>1 DEF TypeOK
  <2>2. chan[r] \in Seq(AllLines) /\ shown[r] \in Seq(AllLines)
    BY <1>0 DEF TypeOK
  <2>3. Range(shown[r]) \subseteq Range(shown'[r])
    <3>1. CASE shown'[r] = Append(shown[r], Head(chan[r])) /\ r = q
      <4>1. Head(chan[r]) \in AllLines
        BY <2>1, <2>2, <3>1, RangeFacts
      <4>2. Range(shown'[r]) = Range(shown[r]) \cup {Head(chan[r])}
        BY <2>2, <3>1, <4>1, RangeFacts
      <4> QED BY <4>2
    <3> QED BY <2>1, <3>1
  <2> QED BY <2>1, <2>3 DEF BeforeInv
<1>6. ASSUME NEW q \in Requests, Ended(q)
      PROVE  before'[r] \subseteq Range(shown'[r]) \cup old'[r]
  <2>1. r # q
    BY <1>0, <1>6 DEF Ended, TypeOK
  <2>2. rpc'[r] = rpc[r] /\ shown'[r] = shown[r] /\ before'[r] = before[r] /\ old'[r] = old[r]
    BY <1>0, <1>6, <2>1 DEF Ended, TypeOK
  <2> QED BY <2>2 DEF BeforeInv
<1> QED BY <1>1, <1>2, <1>3, <1>4, <1>5, <1>6 DEF Next, Follow, DroppedEnd, Leave

\* A follower that was not dropped has, or will have, every line of its service
\* that the hub has sent: a line pushed before its snapshot unless enough newer ones
\* were, a line pushed after it unless it was sent before the request subscribed
\* (publish_inner, RingBuffer, the logs request).
THEOREM LostOnlyInSeamHolds == Spec => []LostOnlyInSeam
<1>1. Init => PastInv /\ BeforeInv /\ SeamInv
  <2> SUFFICES ASSUME Init PROVE PastInv /\ BeforeInv /\ SeamInv
    OBVIOUS
  <2>1. Size \in Nat /\ EndOf(<<>>, <<>>, Size, 0)
    BY BoundAssumption DEF Size, EndOf
  <2>2. PastInv
    BY <2>1 DEF Init, PastInv
  <2> QED BY <2>2 DEF Init, BeforeInv, SeamInv, Live
<1>2. TypeInv /\ PastInv /\ BeforeInv /\ SeamInv /\ [Next]_vars => SeamInv'
  <2> SUFFICES ASSUME TypeInv, PastInv, BeforeInv, SeamInv, [Next]_vars, \A w \in Writers : ~Send(w)
               PROVE  SeamInv'
    BY SendSeam
  <2> SUFFICES ASSUME NEW r \in Requests, Served(r)', NEW l \in Wanted(r), Sent(l)'
               PROVE  l \in Has(r)'
    BY DEF SeamInv, Served, Has, Wanted
  <2>0. Sent(l) /\ l \in AllLines
    <3>1. l \in AllLines /\ l[1] \in Writers
      BY LineFacts DEF Wanted
    <3> QED BY <3>1, SentFacts
  <2>1. Served(r) => l \in Has(r)
    BY <2>0 DEF SeamInv, Served, Has
  <2>2. CASE EndBootTee \/ UNCHANGED vars \/ \E w \in Writers : PushService(w) \/ PushMixed(w)
    BY <2>1, <2>2 DEF EndBootTee, vars, hubVars, requestVars, PushService, PushMixed, Served, Has, Live
  <2>3. ASSUME NEW q \in Requests, Snapshot(q) PROVE l \in Has(r)'
    <3>1. UNCHANGED <<followers, chan, seam>> /\ \A s \in Requests : s # q => rpc'[s] = rpc[s] /\ shown'[s] = shown[s] /\ old'[s] = old[s]
      BY <2>3 DEF Snapshot, hubVars, TypeInv, TypeOK
    <3>2. CASE r # q
      BY <2>1, <3>1, <3>2 DEF Served, Has, Live
    <3>3. CASE r = q
      <4>1. before'[r] = Range(PastOf(r)) /\ rpc'[r] = "shown"
        BY <2>3, <3>3 DEF Snapshot, TypeInv, TypeOK
      <4>2. l[1] \in Writers /\ l = <<l[1], l[2]>> /\ l[2] \in 1..count[l[1]]
            /\ (l[2] < count[l[1]] \/ wpc[l[1]] # "mixed")
        BY <2>0, LinePositive, LineFacts DEF Sent, TypeInv, TypeOK
      <4>3. l \in Range(past[ServiceOf[l[1]]]) /\ l \in Range(pastMixed)
        BY <4>2 DEF PastInv
      <4>4. l \in Range(PastOf(r))
        <5>1. ServiceOf[l[1]] \in Wants[r] /\ TypeOK
          BY DEF Wanted, TypeInv
        <5> QED BY <4>3, <5>1, PastFacts
      <4>5. BeforeInv'
        BY BeforeHolds
      <4> QED BY <4>1, <4>4, <4>5 DEF Has, BeforeInv
    <3> QED BY <3>2, <3>3
  <2>4. ASSUME NEW q \in Requests, Subscribe(q) PROVE l \in Has(r)'
    <3>1. UNCHANGED <<shown, chan, seam, old>> /\ rpc[q] = "shown" /\ \A s \in Requests : s # q => rpc'[s] = rpc[s]
      BY <2>4 DEF Subscribe, TypeInv, TypeOK
    <3>2. r # q /\ r \in Range(followers') => r \in Range(followers)
      <4> HAVE r # q /\ r \in Range(followers')
      <4>1. /\ followers \in Seq(Requests) /\ followers' \in Seq(Requests)
            /\ Grown(followers', followers, q, MaxFollowers)
        BY <2>4, AdmitFacts DEF Subscribe, TypeInv, TypeOK
      <4>2. PICK d \in Nat : Shifted(followers', followers, q, MaxFollowers, d)
        BY <4>1 DEF Grown
      <4>3. PICK i \in 1..Len(followers') : followers'[i] = r
        BY <4>1, RangeFacts
      <4>4. i < Len(followers')
        <5>1. Len(followers') \in Nat
          BY <4>1
        <5> QED BY <4>2, <4>3, <5>1 DEF Shifted
      <4>5. i + d \in 1..Len(followers) /\ followers[i + d] = r
        BY <4>2, <4>3, <4>4 DEF Shifted
      <4> QED BY <4>1, <4>5, RangeFacts
    <3>3. Served(r)
      BY <3>1, <3>2 DEF Served, Live
    <3> QED BY <2>1, <3>1, <3>3 DEF Has
  <2>5. ASSUME NEW q \in Requests, Receive(q) PROVE l \in Has(r)'
    <3>1. UNCHANGED <<followers, rpc, seam, old>> /\ chan[q] # <<>> /\ \A s \in Requests : s # q => chan'[s] = chan[s] /\ shown'[s] = shown[s]
      BY <2>5 DEF Receive, hubVars, TypeInv, TypeOK
    <3>2. l \in Has(r)
      BY <2>1, <3>1 DEF Served, Live
    <3>3. CASE r # q
      BY <3>1, <3>2, <3>3 DEF Has
    <3>4. CASE r = q
      <4>1. chan[r] \in Seq(AllLines) /\ shown[r] \in Seq(AllLines)
        BY DEF TypeInv, TypeOK
      <4>2. Range(chan[r]) = {Head(chan[r])} \cup Range(Tail(chan[r])) /\ Head(chan[r]) \in AllLines
        BY <3>1, <3>4, <4>1, RangeFacts
      <4>3. chan'[r] = Tail(chan[r])
        BY <2>5, <3>4 DEF Receive, TypeInv, TypeOK
      <4>4. CASE Head(chan[r]) \in Wanted(r)
        <5>1. shown'[r] = Append(shown[r], Head(chan[r]))
          BY <2>5, <3>4, <4>4 DEF Receive, TypeInv, TypeOK
        <5>2. Range(shown'[r]) = Range(shown[r]) \cup {Head(chan[r])}
          BY <4>1, <4>2, <5>1, RangeFacts
        <5> QED BY <3>1, <3>2, <4>2, <4>3, <5>2 DEF Has
      <4>5. CASE Head(chan[r]) \notin Wanted(r)
        <5>1. shown'[r] = shown[r] /\ l # Head(chan[r])
          BY <2>5, <3>4, <4>5 DEF Receive
        <5> QED BY <3>1, <3>2, <4>2, <4>3, <5>1 DEF Has
      <4> QED BY <4>4, <4>5
    <3> QED BY <3>3, <3>4
  <2>6. ASSUME NEW q \in Requests, Ended(q) PROVE l \in Has(r)'
    <3>1. r # q
      BY <2>6 DEF Ended, TypeInv, TypeOK, Served, Live
    <3>2. /\ rpc'[r] = rpc[r] /\ shown'[r] = shown[r] /\ chan'[r] = chan[r] /\ old'[r] = old[r]
          /\ seam'[r] = seam[r] /\ followers' = followers
      BY <2>6, <3>1 DEF Ended, hubVars, TypeInv, TypeOK
    <3> QED BY <2>1, <3>2 DEF Served, Has, Live
  <2> QED BY <2>2, <2>3, <2>4, <2>5, <2>6 DEF Next, Publish, Follow, DroppedEnd, Leave
<1>3. SeamInv => LostOnlyInSeam
  BY DEF SeamInv, LostOnlyInSeam
<1> QED BY <1>1, <1>2, <1>3, PastHolds, BeforeHolds, TypeCorrect, PTL DEF Spec

----------------------------------------------------------------------------
(* The order a client sees.                                                 *)

\* The four invariants hold together.
OrderInv == RingInv /\ ChanInv /\ ShownInv /\ MeetInv

\* A strict sequence that grows by a later line of its writer is strict, and
\* holds nothing else.
LEMMA StrictGrown ==
    ASSUME NEW s \in Seq(AllLines), NEW t \in Seq(AllLines), NEW x \in AllLines, NEW n, NEW d \in Nat,
           Strict(s), Shifted(t, s, x, n, d),
           \A i \in 1..Len(s) : s[i][1] = x[1] => s[i][2] < x[2]
    PROVE  Strict(t) /\ \A i \in 1..Len(t) : t[i] = x \/ \E j \in 1..Len(s) : t[i] = s[j]
<1>1. Len(s) \in Nat /\ Len(t) \in Nat
  OBVIOUS
<1>2. ASSUME NEW i \in 1..Len(t), i < Len(t) PROVE i + d \in 1..Len(s) /\ t[i] = s[i + d]
  BY <1>2 DEF Shifted
<1>3. t[Len(t)] = x
  BY DEF Shifted
<1>4. ASSUME NEW i \in 1..Len(t), NEW j \in 1..Len(t), i < j, t[i][1] = t[j][1] PROVE t[i][2] < t[j][2]
  <2>1. i < Len(t) /\ i + d \in 1..Len(s) /\ t[i] = s[i + d]
    BY <1>1, <1>2, <1>4
  <2>2. CASE j = Len(t)
    BY <1>3, <1>4, <2>1, <2>2
  <2>3. CASE j < Len(t)
    <3>1. j + d \in 1..Len(s) /\ t[j] = s[j + d] /\ i + d < j + d
      BY <1>1, <1>2, <1>4, <2>3
    <3> QED BY <1>4, <2>1, <3>1 DEF Strict
  <2> QED BY <1>1, <2>2, <2>3
<1>5. ASSUME NEW i \in 1..Len(t) PROVE t[i] = x \/ \E j \in 1..Len(s) : t[i] = s[j]
  <2>1. CASE i = Len(t)
    BY <1>3, <2>1
  <2>2. CASE i < Len(t)
    BY <1>2, <2>2
  <2> QED BY <1>1, <2>1, <2>2
<1> QED BY <1>4, <1>5 DEF Strict

\* The line of a writer goes into a ring.
LEMMA PushStrict ==
    ASSUME NEW s \in Seq(AllLines), NEW x \in AllLines, Strict(s),
           \A i \in 1..Len(s) : s[i][1] = x[1] => s[i][2] < x[2]
    PROVE  Strict(Push(s, x)) /\ \A i \in 1..Len(Push(s, x)) : Push(s, x)[i] = x \/ \E j \in 1..Len(s) : Push(s, x)[i] = s[j]
<1>1. Push(s, x) \in Seq(AllLines) /\ Grown(Push(s, x), s, x, Size)
  BY PushFacts
<1>2. PICK d \in Nat : Shifted(Push(s, x), s, x, Size, d)
  BY <1>1 DEF Grown
<1> QED BY <1>1, <1>2, StrictGrown

\* The end of a strict sequence is strict.
LEMMA StrictEnd ==
    ASSUME NEW s \in Seq(AllLines), NEW n \in Nat, Strict(s)
    PROVE  Strict(LastN(s, n)) /\ \A i \in 1..Len(LastN(s, n)) : \E j \in 1..Len(s) : LastN(s, n)[i] = s[j]
<1> DEFINE t == LastN(s, n)
<1>1. t \in Seq(AllLines) /\ \E d \in Nat : EndOf(t, s, n, d)
  BY LastNFacts
<1> HIDE DEF t
<1>2. PICK d \in Nat : EndOf(t, s, n, d)
  BY <1>1
<1>3. \A i \in 1..Len(t) : i + d \in 1..Len(s) /\ t[i] = s[i + d]
  BY <1>2 DEF EndOf
<1>4. ASSUME NEW i \in 1..Len(t), NEW j \in 1..Len(t), i < j, t[i][1] = t[j][1] PROVE t[i][2] < t[j][2]
  <2>1. i + d < j + d
    BY <1>1, <1>4
  <2> QED BY <1>3, <1>4, <2>1 DEF Strict
<1>5. Strict(t)
  BY <1>4 DEF Strict
<1> QED BY <1>3, <1>5 DEF t

\* A writer begins a line: its number is new to everybody.
LEMMA PushServiceOrder ==
    ASSUME TypeInv, OrderInv, NEW w \in Writers, PushService(w)
    PROVE  OrderInv'
<1>0. TypeOK /\ count[w] \in Nat /\ ServiceOf[w] \in Services
  BY ServiceAssumption DEF TypeInv, TypeOK
<1> DEFINE x == <<w, count[w] + 1>>
<1>1. x \in AllLines /\ x[1] = w /\ x[2] = count[w] + 1
  <2>1. count[w] + 1 \in 1..MaxLines[w]
    BY <1>0, BoundAssumption DEF PushService
  <2> QED BY <2>1, LineFacts
<1> HIDE DEF x
<1>2. /\ wpc[w] = "idle" /\ wpc'[w] = "mixed" /\ count'[w] = count[w] + 1
      /\ \A v \in Writers : v # w => wpc'[v] = wpc[v] /\ count'[v] = count[v]
  BY <1>0 DEF PushService, Part, TypeOK
<1>3. /\ ring'[ServiceOf[w]] = Push(ring[ServiceOf[w]], x)
      /\ \A s \in Services : s # ServiceOf[w] => ring'[s] = ring[s]
  BY <1>0 DEF PushService, TypeOK, x
<1>4. UNCHANGED <<mixed, chan, shown>>
  BY DEF PushService, requestVars
<1>5. ASSUME NEW l \in AllLines, l[2] <= count[l[1]]
      PROVE  /\ l[2] <= count'[l[1]] /\ (l[1] = w => l[2] < count'[w])
             /\ l[1] # w => count'[l[1]] = count[l[1]] /\ wpc'[l[1]] = wpc[l[1]]
  <2>1. l[1] \in Writers /\ l[2] \in Nat
    BY LineFacts
  <2> QED BY <1>0, <1>2, <1>5, <2>1
<1>6. RingInv'
  <2>1. ASSUME NEW s \in Services
        PROVE  Strict(ring'[s]) /\ \A i \in 1..Len(ring'[s]) : ring'[s][i][2] <= count'[ring'[s][i][1]]
    <3>1. /\ Strict(ring[s]) /\ ring[s] \in Seq(AllLines)
          /\ \A i \in 1..Len(ring[s]) : ring[s][i] \in AllLines /\ ring[s][i][2] <= count[ring[s][i][1]]
      <4>1. ring[s] \in Seq(AllLines)
        BY <1>0 DEF TypeOK
      <4>2. \A i \in 1..Len(ring[s]) : ring[s][i] \in AllLines
        BY <4>1
      <4> QED BY <4>1, <4>2 DEF OrderInv, RingInv
    <3>2. CASE s # ServiceOf[w]
      BY <1>3, <1>5, <3>1, <3>2
    <3>3. CASE s = ServiceOf[w]
      <4>1. \A i \in 1..Len(ring[s]) : ring[s][i][1] = x[1] => ring[s][i][2] < x[2]
        BY <1>1, <1>2, <1>5, <3>1
      <4>2. ring'[s] = Push(ring[s], x)
        BY <1>3, <3>3
      <4>3. Strict(ring'[s]) /\ \A i \in 1..Len(ring'[s]) : ring'[s][i] = x \/ \E j \in 1..Len(ring[s]) : ring'[s][i] = ring[s][j]
        BY <1>1, <3>1, <4>1, <4>2, PushStrict
      <4>4. x[2] <= count'[x[1]]
        BY <1>0, <1>1, <1>2
      <4> QED BY <1>5, <3>1, <4>3, <4>4
    <3> QED BY <3>2, <3>3
  <2>2. \A i \in 1..Len(mixed) : mixed[i] \in AllLines /\ mixed[i][2] <= count[mixed[i][1]]
    BY <1>0 DEF OrderInv, RingInv, TypeOK
  <2>3. ASSUME NEW i \in 1..Len(mixed)
        PROVE  /\ mixed[i][2] <= count'[mixed[i][1]]
               /\ wpc'[mixed[i][1]] = "mixed" => mixed[i][2] < count'[mixed[i][1]]
    BY <1>5, <2>2 DEF OrderInv, RingInv
  <2> QED BY <1>4, <2>1, <2>3 DEF OrderInv, RingInv
<1>7. ChanInv'
  <2> SUFFICES ASSUME NEW r \in Requests, NEW i \in 1..Len(chan[r])
               PROVE  /\ chan[r][i][2] <= count'[chan[r][i][1]]
                      /\ wpc'[chan[r][i][1]] # "idle" => chan[r][i][2] < count'[chan[r][i][1]]
    BY <1>4 DEF OrderInv, ChanInv
  <2>1. chan[r][i] \in AllLines /\ chan[r][i][2] <= count[chan[r][i][1]]
    BY <1>0 DEF OrderInv, ChanInv, TypeOK
  <2> QED BY <1>5, <2>1 DEF OrderInv, ChanInv
<1>8. ShownInv'
  <2> SUFFICES ASSUME NEW r \in Requests, NEW i \in 1..Len(shown[r])
               PROVE  /\ shown[r][i][2] <= count'[shown[r][i][1]]
                      /\ shown[r][i] = Line(shown[r][i][1])' /\ wpc'[shown[r][i][1]] # "idle" => LastAt(shown[r], i)
    BY <1>4 DEF OrderInv, ShownInv, Line
  <2>1. shown[r][i] \in AllLines /\ shown[r][i][2] <= count[shown[r][i][1]]
    BY <1>0 DEF OrderInv, ShownInv, TypeOK
  <2>2. shown[r][i][1] = w => shown[r][i][2] < count'[w]
    BY <1>5, <2>1
  <2>3. shown[r][i][1] = w => shown[r][i] # Line(shown[r][i][1])'
    <3>1. shown[r][i][2] \in Nat
      BY <2>1, LineFacts
    <3> QED BY <2>2, <3>1 DEF Line
  <2>4. shown[r][i][1] # w => (shown[r][i] = Line(shown[r][i][1])' /\ wpc'[shown[r][i][1]] # "idle" => LastAt(shown[r], i))
    BY <1>5, <2>1 DEF OrderInv, ShownInv, Line
  <2> QED BY <1>5, <2>1, <2>3, <2>4
<1>9. MeetInv'
  BY <1>4 DEF OrderInv, MeetInv
<1> QED BY <1>6, <1>7, <1>8, <1>9 DEF OrderInv

\* The line goes into the mixed ring.
LEMMA PushMixedOrder ==
    ASSUME TypeInv, OrderInv, NEW w \in Writers, PushMixed(w)
    PROVE  OrderInv'
<1>0. TypeOK /\ wpc[w] = "mixed" /\ mixed \in Seq(AllLines)
  BY DEF PushMixed, Part, TypeInv, TypeOK
<1>1. Line(w) \in AllLines /\ Line(w)[1] = w /\ Line(w)[2] = count[w] /\ count[w] \in Nat
  BY <1>0, OwnLine DEF TypeInv, TypeOK
<1>2. wpc'[w] = "send" /\ \A v \in Writers : v # w => wpc'[v] = wpc[v]
  BY <1>0 DEF PushMixed, Part, TypeOK
<1>3. UNCHANGED <<ring, count, chan, shown>> /\ mixed' = Push(mixed, Line(w))
  BY DEF PushMixed, requestVars
<1>4. \A l \in AllLines : /\ wpc'[l[1]] = "idle" <=> wpc[l[1]] = "idle"
                          /\ wpc'[l[1]] = "mixed" => wpc[l[1]] = "mixed" /\ l[1] # w
  <2> TAKE l \in AllLines
  <2>1. l[1] \in Writers
    BY LineFacts
  <2> QED BY <1>0, <1>2, <2>1
<1>5. RingInv'
  <2>1. \A i \in 1..Len(mixed) : mixed[i] \in AllLines
    BY <1>0
  <2>2. \A i \in 1..Len(mixed) : mixed[i][1] = Line(w)[1] => mixed[i][2] < Line(w)[2]
    BY <1>0, <1>1 DEF OrderInv, RingInv
  <2>3. /\ Strict(mixed')
        /\ \A i \in 1..Len(mixed') : mixed'[i] = Line(w) \/ \E j \in 1..Len(mixed) : mixed'[i] = mixed[j]
    BY <1>0, <1>1, <1>3, <2>2, PushStrict DEF OrderInv, RingInv
  <2>4. ASSUME NEW i \in 1..Len(mixed')
        PROVE  /\ mixed'[i][2] <= count[mixed'[i][1]]
               /\ wpc'[mixed'[i][1]] = "mixed" => mixed'[i][2] < count[mixed'[i][1]]
    <3>1. CASE mixed'[i] = Line(w)
      BY <1>1, <1>2, <3>1
    <3>2. ASSUME NEW j \in 1..Len(mixed), mixed'[i] = mixed[j]
          PROVE  /\ mixed'[i][2] <= count[mixed'[i][1]]
                 /\ wpc'[mixed'[i][1]] = "mixed" => mixed'[i][2] < count[mixed'[i][1]]
      BY <1>4, <2>1, <3>2 DEF OrderInv, RingInv
    <3> QED BY <2>3, <3>1, <3>2
  <2> QED BY <1>3, <2>3, <2>4 DEF OrderInv, RingInv
<1>6. ChanInv'
  <2>1. \A r \in Requests : chan[r] \in Seq(AllLines)
    BY <1>0 DEF TypeOK
  <2>2. \A r \in Requests : \A i \in 1..Len(chan[r]) : chan[r][i] \in AllLines
    BY <2>1
  <2> QED BY <1>3, <1>4, <2>2 DEF OrderInv, ChanInv
<1>7. ShownInv'
  <2>1. \A r \in Requests : shown[r] \in Seq(AllLines)
    BY <1>0 DEF TypeOK
  <2>2. \A r \in Requests : \A i \in 1..Len(shown[r]) : shown[r][i] \in AllLines
    BY <2>1
  <2> QED BY <1>3, <1>4, <2>2 DEF OrderInv, ShownInv, Line
<1>8. MeetInv'
  BY <1>3 DEF OrderInv, MeetInv
<1> QED BY <1>5, <1>6, <1>7, <1>8 DEF OrderInv

\* The line is sent: it is later than what the channel holds of its writer, and
\* no earlier than the last that was shown.
LEMMA SendOrder ==
    ASSUME TypeInv, OrderInv, NEW w \in Writers, Send(w)
    PROVE  OrderInv'
<1>0. TypeOK /\ wpc[w] = "send"
  BY DEF Send, Part, TypeInv
<1>1. Line(w) \in AllLines /\ Line(w)[1] = w /\ Line(w)[2] = count[w] /\ count[w] \in Nat
  BY <1>0, OwnLine DEF TypeInv, TypeOK
<1>2. wpc'[w] = "idle" /\ \A v \in Writers : v # w => wpc'[v] = wpc[v]
  BY <1>0 DEF Send, Part, TypeOK
<1>3. UNCHANGED <<ring, mixed, count, shown>>
      /\ \A r \in Requests : chan'[r] = chan[r] \/ chan'[r] = Append(chan[r], Line(w))
  BY DEF Send
<1>4. \A l \in AllLines : /\ wpc'[l[1]] # "idle" => wpc[l[1]] # "idle" /\ l[1] # w
                          /\ wpc'[l[1]] = "mixed" => wpc[l[1]] = "mixed"
  <2> TAKE l \in AllLines
  <2>1. l[1] \in Writers
    BY LineFacts
  <2> QED BY <1>0, <1>2, <2>1
<1>5. \A r \in Requests : chan[r] \in Seq(AllLines) /\ shown[r] \in Seq(AllLines)
  BY <1>0 DEF TypeOK
<1>6. \A r \in Requests : /\ \A i \in 1..Len(chan[r]) : chan[r][i] \in AllLines
                          /\ \A i \in 1..Len(shown[r]) : shown[r][i] \in AllLines
  BY <1>5
<1>7. RingInv'
  <2>1. mixed \in Seq(AllLines)
    BY <1>0 DEF TypeOK
  <2>2. \A i \in 1..Len(mixed) : mixed[i] \in AllLines
    BY <2>1
  <2> QED BY <1>3, <1>4, <2>2 DEF OrderInv, RingInv
<1>8. ShownInv'
  BY <1>3, <1>4, <1>6 DEF OrderInv, ShownInv, Line
<1>9. ASSUME NEW r \in Requests
      PROVE  /\ Len(chan[r]) \in Nat /\ (chan'[r] = Append(chan[r], Line(w)) => Len(chan'[r]) = Len(chan[r]) + 1)
             /\ \A i \in 1..Len(chan'[r]) :
                   \/ i \in 1..Len(chan[r]) /\ chan'[r][i] = chan[r][i]
                   \/ i = Len(chan[r]) + 1 /\ chan'[r][i] = Line(w)
  <2>1. CASE chan'[r] = chan[r]
    <3>1. Len(chan[r]) \in Nat /\ Len(chan[r]) # Len(chan[r]) + 1 /\ Len(Append(chan[r], Line(w))) = Len(chan[r]) + 1
      BY <1>1, <1>5
    <3> QED BY <2>1, <3>1
  <2>2. CASE chan'[r] = Append(chan[r], Line(w))
    BY <1>1, <1>5, <2>2
  <2> QED BY <1>3, <2>1, <2>2
<1>10. ASSUME NEW r \in Requests, NEW i \in 1..Len(chan[r]), chan[r][i][1] = w
       PROVE  chan[r][i][2] < count[w]
  BY <1>0, <1>10 DEF OrderInv, ChanInv
<1>11. ChanInv'
  <2> SUFFICES ASSUME NEW r \in Requests
               PROVE  /\ Strict(chan'[r])
                      /\ \A i \in 1..Len(chan'[r]) :
                            /\ chan'[r][i][2] <= count[chan'[r][i][1]]
                            /\ wpc'[chan'[r][i][1]] # "idle" => chan'[r][i][2] < count[chan'[r][i][1]]
    BY <1>3 DEF ChanInv
  <2>1. ASSUME NEW i \in 1..Len(chan'[r]), NEW j \in 1..Len(chan'[r]), i < j, chan'[r][i][1] = chan'[r][j][1]
        PROVE  chan'[r][i][2] < chan'[r][j][2]
    <3>1. i \in 1..Len(chan[r]) /\ chan'[r][i] = chan[r][i]
      BY <1>9, <2>1
    <3>2. CASE j \in 1..Len(chan[r]) /\ chan'[r][j] = chan[r][j]
      BY <2>1, <3>1, <3>2 DEF OrderInv, ChanInv, Strict
    <3>3. CASE chan'[r][j] = Line(w)
      BY <1>1, <1>10, <2>1, <3>1, <3>3
    <3> QED BY <1>9, <3>2, <3>3
  <2>2. ASSUME NEW i \in 1..Len(chan'[r])
        PROVE  /\ chan'[r][i][2] <= count[chan'[r][i][1]]
               /\ wpc'[chan'[r][i][1]] # "idle" => chan'[r][i][2] < count[chan'[r][i][1]]
    <3>1. CASE i \in 1..Len(chan[r]) /\ chan'[r][i] = chan[r][i]
      BY <1>4, <1>6, <3>1 DEF OrderInv, ChanInv
    <3>2. CASE chan'[r][i] = Line(w)
      BY <1>1, <1>2, <3>2
    <3> QED BY <1>9, <3>1, <3>2
  <2> QED BY <2>1, <2>2 DEF Strict
<1>12. MeetInv'
  <2> SUFFICES ASSUME NEW r \in Requests, NEW i \in 1..Len(shown[r]), NEW j \in 1..Len(chan'[r]),
                      shown[r][i][1] = chan'[r][j][1]
               PROVE  \/ shown[r][i][2] < chan'[r][j][2]
                      \/ shown[r][i][2] = chan'[r][j][2] /\ LastAt(shown[r], i)
    BY <1>3 DEF MeetInv
  <2>1. CASE j \in 1..Len(chan[r]) /\ chan'[r][j] = chan[r][j]
    <3>1. j \in 1..Len(chan[r]) /\ shown[r][i][1] = chan[r][j][1]
      BY <2>1
    <3>2. \/ shown[r][i][2] < chan[r][j][2]
          \/ shown[r][i][2] = chan[r][j][2] /\ LastAt(shown[r], i)
      BY <3>1, Zenon DEF OrderInv, MeetInv
    <3> QED BY <2>1, <3>2
  <2>2. CASE chan'[r][j] = Line(w)
    <3>1. shown[r][i] \in AllLines /\ shown[r][i][1] = w /\ shown[r][i][2] <= count[w]
      BY <1>1, <1>6, <2>2 DEF OrderInv, ShownInv
    <3>2. shown[r][i][2] \in Nat /\ shown[r][i] = <<w, shown[r][i][2]>>
      BY <3>1, LineFacts
    <3>3. shown[r][i][2] = count[w] => LastAt(shown[r], i)
      BY <1>0, <3>1, <3>2 DEF OrderInv, ShownInv, Line
    <3> QED BY <1>1, <2>2, <3>1, <3>2, <3>3
  <2> QED BY <1>9, <2>1, <2>2
<1> QED BY <1>7, <1>8, <1>11, <1>12 DEF OrderInv

\* A strict sequence is in order, and a line occurs in it once.
LEMMA StrictInOrder ==
    ASSUME NEW s \in Seq(AllLines), Strict(s), \A i \in 1..Len(s) : s[i][2] <= count[s[i][1]],
           count \in [Writers -> Nat]
    PROVE  InOrder(s) /\ \A i \in 1..Len(s) : s[i] = Line(s[i][1]) => LastAt(s, i)
<1>1. InOrder(s)
  BY DEF InOrder, Strict
<1>2. ASSUME NEW i \in 1..Len(s), s[i] = Line(s[i][1]) PROVE LastAt(s, i)
  <2> SUFFICES ASSUME NEW k \in 1..Len(s), i < k, s[k][1] = s[i][1] PROVE FALSE
    BY DEF LastAt
  <2>1. s[i][2] < s[k][2] /\ s[k][2] <= count[s[i][1]]
    BY DEF Strict
  <2>2. s[i] \in AllLines /\ s[k] \in AllLines
    OBVIOUS
  <2>3. s[i][1] \in Writers /\ s[i][2] \in Nat /\ s[k][2] \in Nat
    BY <2>2, LineFacts
  <2>4. s[i][2] = count[s[i][1]] /\ count[s[i][1]] \in Nat
    BY <1>2, <2>3 DEF Line
  <2> QED BY <2>1, <2>3, <2>4
<1> QED BY <1>1, <1>2

\* The snapshot is the end of a ring.
LEMMA SnapshotOrder ==
    ASSUME TypeInv, OrderInv, NEW r \in Requests, Snapshot(r)
    PROVE  OrderInv'
<1>0. TypeOK /\ Source(r) \in Seq(AllLines) /\ Lines \in Nat
  BY SourceFacts, BoundAssumption DEF TypeInv
<1>1. Strict(Source(r)) /\ \A i \in 1..Len(Source(r)) : Source(r)[i][2] <= count[Source(r)[i][1]]
  BY <1>0, SourceFacts DEF OrderInv, RingInv
<1> DEFINE t == Newest(Source(r))
<1>2. t \in Seq(AllLines) /\ Strict(t) /\ \A i \in 1..Len(t) : \E j \in 1..Len(Source(r)) : t[i] = Source(r)[j]
  BY <1>0, <1>1, StrictEnd, LastNFacts DEF Newest
<1>3. /\ shown'[r] = t /\ chan[r] = <<>> /\ UNCHANGED <<ring, mixed, chan, wpc, count>>
      /\ \A q \in Requests : q # r => shown'[q] = shown[q]
  BY <1>0 DEF Snapshot, hubVars, writerVars, TypeInv, TypeOK, Fresh
<1> HIDE DEF t
<1>4. \A i \in 1..Len(t) : t[i][2] <= count[t[i][1]]
  BY <1>1, <1>2
<1>5. InOrder(t) /\ \A i \in 1..Len(t) : t[i] = Line(t[i][1]) => LastAt(t, i)
  BY <1>0, <1>2, <1>4, StrictInOrder DEF TypeOK
<1>6. ShownInv'
  <2> SUFFICES ASSUME NEW q \in Requests
               PROVE  /\ InOrder(shown'[q])
                      /\ \A i \in 1..Len(shown'[q]) : shown'[q][i][2] <= count[shown'[q][i][1]]
                      /\ \A i \in 1..Len(shown'[q]) :
                            shown'[q][i] = Line(shown'[q][i][1]) /\ wpc[shown'[q][i][1]] # "idle" => LastAt(shown'[q], i)
    BY <1>3 DEF ShownInv, Line
  <2>1. CASE q = r
    BY <1>3, <1>4, <1>5, <2>1
  <2>2. CASE q # r
    BY <1>3, <2>2 DEF OrderInv, ShownInv
  <2> QED BY <2>1, <2>2
<1>7. MeetInv'
  <2> SUFFICES ASSUME NEW q \in Requests, NEW i \in 1..Len(shown'[q]), NEW j \in 1..Len(chan[q]),
                      shown'[q][i][1] = chan[q][j][1]
               PROVE  \/ shown'[q][i][2] < chan[q][j][2]
                      \/ shown'[q][i][2] = chan[q][j][2] /\ LastAt(shown'[q], i)
    BY <1>3 DEF MeetInv
  <2>1. q # r
    BY <1>3
  <2>2. shown'[q] = shown[q]
    BY <1>3, <2>1
  <2> QED BY <2>2 DEF OrderInv, MeetInv
<1>8. RingInv' /\ ChanInv'
  BY <1>3 DEF OrderInv, RingInv, ChanInv
<1> QED BY <1>6, <1>7, <1>8 DEF OrderInv

\* A line goes from the channel to the client, or is skipped.
LEMMA ReceiveOrder ==
    ASSUME TypeInv, OrderInv, NEW r \in Requests, Receive(r)
    PROVE  OrderInv'
<1> DEFINE c == chan[r]
           s == shown[r]
           h == Head(c)
<1>0. TypeOK /\ c \in Seq(AllLines) /\ s \in Seq(AllLines) /\ c # <<>>
  BY DEF Receive, TypeInv, TypeOK
<1>1. /\ UNCHANGED <<ring, mixed, wpc, count>> /\ chan'[r] = Tail(c)
      /\ shown'[r] = s \/ shown'[r] = Append(s, h)
      /\ \A q \in Requests : q # r => chan'[q] = chan[q] /\ shown'[q] = shown[q]
  BY <1>0 DEF Receive, hubVars, writerVars, TypeOK
<1>2. /\ h = c[1] /\ h \in AllLines /\ Len(c) \in Nat /\ Len(c) >= 1 /\ Len(Tail(c)) = Len(c) - 1
      /\ Tail(c) \in Seq(AllLines) /\ \A i \in 1..(Len(c) - 1) : Tail(c)[i] = c[i + 1]
  BY <1>0, RangeFacts
<1>3. /\ Strict(c)
      /\ \A i \in 1..Len(c) : /\ c[i][2] <= count[c[i][1]]
                              /\ wpc[c[i][1]] # "idle" => c[i][2] < count[c[i][1]]
  BY DEF OrderInv, ChanInv
<1>4. /\ InOrder(s)
      /\ \A i \in 1..Len(s) : s[i][2] <= count[s[i][1]]
      /\ \A i \in 1..Len(s) : s[i] = Line(s[i][1]) /\ wpc[s[i][1]] # "idle" => LastAt(s, i)
  BY DEF OrderInv, ShownInv
<1>5. \A i \in 1..Len(s), j \in 1..Len(c) : s[i][1] = c[j][1] =>
         s[i][2] < c[j][2] \/ (s[i][2] = c[j][2] /\ LastAt(s, i))
  BY DEF OrderInv, MeetInv
<1>6. /\ \A i \in 1..Len(s) : s[i] \in AllLines
      /\ \A j \in 1..Len(c) : c[j] \in AllLines
  BY <1>0
<1>7. /\ \A i \in 1..Len(s) : s[i][1] \in Writers /\ s[i][2] \in Nat /\ s[i] = <<s[i][1], s[i][2]>>
      /\ \A j \in 1..Len(c) : c[j][1] \in Writers /\ c[j][2] \in Nat /\ c[j] = <<c[j][1], c[j][2]>>
  BY <1>6, LineFacts
<1> DEFINE d == Tail(c)
           t == shown'[r]
<1>8. Len(d) = Len(c) - 1 /\ \A j \in 1..Len(d) : j + 1 \in 1..Len(c) /\ d[j] = c[j + 1]
  BY <1>2
<1>9. Len(s) \in Nat /\ (t = s \/ (/\ Len(t) = Len(s) + 1 /\ t[Len(s) + 1] = h
                                  /\ \A i \in 1..Len(s) : t[i] = s[i]))
  <2>1. CASE t = s
    BY <1>0, <2>1
  <2>2. CASE t = Append(s, h)
    BY <1>0, <1>2, <2>2
  <2> QED BY <1>1, <2>1, <2>2
<1>10. 1 \in 1..Len(c) /\ c[1] = h
  BY <1>2
<1> HIDE DEF c, s, h, d, t
<1>11. Strict(d) /\ \A j \in 1..Len(d) : /\ d[j][2] <= count[d[j][1]]
                                         /\ wpc[d[j][1]] # "idle" => d[j][2] < count[d[j][1]]
  <2>1. ASSUME NEW i \in 1..Len(d), NEW j \in 1..Len(d), i < j, d[i][1] = d[j][1] PROVE d[i][2] < d[j][2]
    <3>1. i + 1 \in 1..Len(c) /\ d[i] = c[i + 1]
      BY <1>8
    <3>2. j + 1 \in 1..Len(c) /\ d[j] = c[j + 1]
      BY <1>8
    <3>3. i \in Int /\ j \in Int
      OBVIOUS
    <3>4. i + 1 < j + 1
      BY <2>1, <3>3
    <3>5. c[i + 1][1] = c[j + 1][1]
      BY <2>1, <3>1, <3>2
    <3>6. c[i + 1][2] < c[j + 1][2]
      BY <1>3, <3>1, <3>2, <3>4, <3>5 DEF Strict
    <3> QED BY <3>1, <3>2, <3>6
  <2> QED BY <1>3, <1>8, <2>1 DEF Strict
<1>12. ASSUME t = s \/ (Len(t) = Len(s) + 1 /\ t[Len(s) + 1] = h /\ \A i \in 1..Len(s) : t[i] = s[i])
       PROVE  /\ InOrder(t)
              /\ \A i \in 1..Len(t) : t[i][2] <= count[t[i][1]]
              /\ \A i \in 1..Len(t) : t[i] = Line(t[i][1]) /\ wpc[t[i][1]] # "idle" => LastAt(t, i)
              /\ \A i \in 1..Len(t), j \in 1..Len(d) : t[i][1] = d[j][1] =>
                    t[i][2] < d[j][2] \/ (t[i][2] = d[j][2] /\ LastAt(t, i))
  <2>1. CASE t = s
    <3>1. \A i \in 1..Len(s), j \in 1..Len(d) : s[i][1] = d[j][1] =>
             s[i][2] < d[j][2] \/ (s[i][2] = d[j][2] /\ LastAt(s, i))
      BY <1>5, <1>8
    <3> QED BY <1>4, <2>1, <3>1
  <2>2. CASE Len(t) = Len(s) + 1 /\ t[Len(s) + 1] = h /\ \A i \in 1..Len(s) : t[i] = s[i]
    <3>1. \A i \in 1..Len(t) : i = Len(s) + 1 \/ i \in 1..Len(s)
      BY <1>9, <2>2
    <3>2. ASSUME NEW i \in 1..Len(t), NEW j \in 1..Len(t), i < j, t[i][1] = t[j][1]
          PROVE  \/ t[i][2] < t[j][2]
                 \/ t[i] = t[j] /\ \A k \in (i + 1)..(j - 1) : t[k][1] # t[i][1]
      <4>1. i \in 1..Len(s) /\ t[i] = s[i]
        BY <1>9, <2>2, <3>2
      <4>2. CASE j \in 1..Len(s)
        <5>1. t[j] = s[j] /\ \A k \in (i + 1)..(j - 1) : t[k] = s[k]
          BY <1>9, <2>2, <4>1, <4>2
        <5> QED BY <1>4, <3>2, <4>1, <4>2, <5>1 DEF InOrder
      <4>3. CASE j = Len(s) + 1
        <5>1. t[j] = c[1] /\ s[i][1] = c[1][1]
          BY <1>10, <2>2, <3>2, <4>1, <4>3
        <5>2. s[i][2] < c[1][2] \/ (s[i][2] = c[1][2] /\ LastAt(s, i))
          BY <1>5, <1>10, <4>1, <5>1
        <5>3. \A k \in (i + 1)..(j - 1) : k \in 1..Len(s) /\ t[k] = s[k] /\ i < k
          BY <1>9, <2>2, <4>1, <4>3
        <5>4. s[i][2] = c[1][2] => s[i] = c[1]
          BY <1>7, <1>10, <4>1, <5>1
        <5> QED BY <4>1, <5>1, <5>2, <5>3, <5>4 DEF LastAt
      <4> QED BY <3>1, <4>2, <4>3
    <3>3. ASSUME NEW i \in 1..Len(t) PROVE t[i][2] <= count[t[i][1]]
      BY <1>3, <1>4, <1>10, <2>2, <3>1
    <3>4. ASSUME NEW i \in 1..Len(t), t[i] = Line(t[i][1]), wpc[t[i][1]] # "idle" PROVE LastAt(t, i)
      <4>1. t[i][2] = count[t[i][1]]
        BY <3>4 DEF Line
      <4>2. i # Len(s) + 1
        <5> SUFFICES ASSUME t[i] = c[1] PROVE FALSE
          BY <1>10, <2>2
        <5>1. c[1][2] < count[c[1][1]] /\ c[1][2] \in Nat
          BY <1>3, <1>7, <1>10, <3>4
        <5> QED BY <4>1, <5>1
      <4>3. i \in 1..Len(s) /\ t[i] = s[i] /\ LastAt(s, i)
        BY <1>4, <2>2, <3>1, <3>4, <4>2
      <4>4. c[1][1] # s[i][1]
        <5> SUFFICES ASSUME c[1][1] = s[i][1] PROVE FALSE
          OBVIOUS
        <5>1. s[i][2] <= c[1][2] /\ c[1][2] < count[s[i][1]]
          <6>1. c[1][2] < count[s[i][1]]
            BY <1>3, <1>10, <3>4, <4>3
          <6>2. s[i][2] < c[1][2] \/ s[i][2] = c[1][2]
            BY <1>5, <1>10, <4>3
          <6> QED BY <1>7, <1>10, <4>3, <6>1, <6>2
        <5>2. s[i][2] = count[s[i][1]]
          BY <4>1, <4>3
        <5> QED BY <1>7, <1>10, <4>3, <5>1, <5>2
      <4>5. \A k \in 1..Len(t) : i < k => t[k][1] # t[i][1]
        BY <1>10, <2>2, <3>1, <4>3, <4>4 DEF LastAt
      <4> QED BY <4>5 DEF LastAt
    <3>5. ASSUME NEW i \in 1..Len(t), NEW j \in 1..Len(d), t[i][1] = d[j][1]
          PROVE  t[i][2] < d[j][2] \/ (t[i][2] = d[j][2] /\ LastAt(t, i))
      <4>1. j + 1 \in 1..Len(c) /\ d[j] = c[j + 1] /\ 1 < j + 1
        BY <1>2, <1>8
      <4>2. CASE i = Len(s) + 1
        <5>1. t[i] = c[1] /\ c[1][1] = c[j + 1][1]
          BY <1>10, <2>2, <3>5, <4>1, <4>2
        <5>2. c[1][2] < c[j + 1][2]
          BY <1>3, <1>10, <4>1, <5>1 DEF Strict
        <5> QED BY <4>1, <5>1, <5>2
      <4>3. CASE i \in 1..Len(s)
        <5>1. t[i] = s[i] /\ s[i][1] = c[j + 1][1]
          BY <2>2, <3>5, <4>1, <4>3
        <5>2. s[i][2] < c[j + 1][2] \/ (s[i][2] = c[j + 1][2] /\ LastAt(s, i))
          BY <1>5, <4>1, <4>3, <5>1
        <5>3. CASE c[1][1] = s[i][1]
          <6>1. c[1][2] < c[j + 1][2]
            BY <1>3, <1>10, <4>1, <5>1, <5>3 DEF Strict
          <6>2. s[i][2] < c[1][2] \/ s[i][2] = c[1][2]
            BY <1>5, <1>10, <4>3, <5>3
          <6>3. s[i][2] < c[j + 1][2]
            BY <1>7, <1>10, <4>1, <4>3, <6>1, <6>2
          <6> QED BY <4>1, <5>1, <6>3
        <5>4. CASE c[1][1] # s[i][1]
          <6>1. LastAt(s, i) => LastAt(t, i)
            BY <1>10, <2>2, <3>1, <4>3, <5>4 DEF LastAt
          <6> QED BY <4>1, <5>1, <5>2, <6>1
        <5> QED BY <5>3, <5>4
      <4> QED BY <3>1, <4>2, <4>3
    <3>6. InOrder(t)
      BY <3>2 DEF InOrder
    <3> QED BY <3>3, <3>4, <3>5, <3>6
  <2> QED BY <1>12, <2>1, <2>2
<1>13. chan'[r] = d /\ shown'[r] = t
  BY <1>1 DEF d, t
<1>14. RingInv'
  BY <1>1 DEF OrderInv, RingInv
<1>15. ChanInv'
  <2> SUFFICES ASSUME NEW q \in Requests
               PROVE  Strict(chan'[q]) /\ \A j \in 1..Len(chan'[q]) :
                         /\ chan'[q][j][2] <= count[chan'[q][j][1]]
                         /\ wpc[chan'[q][j][1]] # "idle" => chan'[q][j][2] < count[chan'[q][j][1]]
    BY <1>1 DEF ChanInv
  <2>1. CASE q = r
    <3>1. chan'[q] = d
      BY <1>13, <2>1
    <3> QED BY <1>11, <3>1
  <2>2. CASE q # r
    BY <1>1, <2>2 DEF OrderInv, ChanInv
  <2> QED BY <2>1, <2>2
<1>16. ShownInv'
  <2> SUFFICES ASSUME NEW q \in Requests
               PROVE  /\ InOrder(shown'[q])
                      /\ \A i \in 1..Len(shown'[q]) : shown'[q][i][2] <= count[shown'[q][i][1]]
                      /\ \A i \in 1..Len(shown'[q]) :
                            shown'[q][i] = Line(shown'[q][i][1]) /\ wpc[shown'[q][i][1]] # "idle" => LastAt(shown'[q], i)
    BY <1>1 DEF ShownInv, Line
  <2>1. CASE q = r
    BY <1>9, <1>12, <1>13, <2>1
  <2>2. CASE q # r
    BY <1>1, <2>2 DEF OrderInv, ShownInv
  <2> QED BY <2>1, <2>2
<1>17. MeetInv'
  <2> SUFFICES ASSUME NEW q \in Requests, NEW i \in 1..Len(shown'[q]), NEW j \in 1..Len(chan'[q]),
                      shown'[q][i][1] = chan'[q][j][1]
               PROVE  \/ shown'[q][i][2] < chan'[q][j][2]
                      \/ shown'[q][i][2] = chan'[q][j][2] /\ LastAt(shown'[q], i)
    BY DEF MeetInv
  <2>1. CASE q = r
    BY <1>9, <1>12, <1>13, <2>1
  <2>2. CASE q # r
    <3>1. shown'[q] = shown[q] /\ chan'[q] = chan[q]
      BY <1>1, <2>2
    <3> QED BY <3>1 DEF OrderInv, MeetInv
  <2> QED BY <2>1, <2>2
<1> QED BY <1>14, <1>15, <1>16, <1>17 DEF OrderInv

\* A request that ends forgets what it had.
LEMMA EndedOrder ==
    ASSUME TypeInv, OrderInv, NEW r \in Requests, Ended(r)
    PROVE  OrderInv'
<1>1. /\ UNCHANGED <<ring, mixed, wpc, count>> /\ chan'[r] = <<>> /\ shown'[r] = <<>>
      /\ \A q \in Requests : q # r => chan'[q] = chan[q] /\ shown'[q] = shown[q]
  BY DEF Ended, hubVars, writerVars, TypeInv, TypeOK
<1>2. \A i \in 1..Len(<<>>) : FALSE
  OBVIOUS
<1>3. RingInv'
  BY <1>1 DEF OrderInv, RingInv
<1>4. ChanInv'
  BY <1>1, <1>2 DEF OrderInv, ChanInv, Strict
<1>5. ShownInv'
  <2> SUFFICES ASSUME NEW q \in Requests
               PROVE  /\ InOrder(shown'[q])
                      /\ \A i \in 1..Len(shown'[q]) : shown'[q][i][2] <= count[shown'[q][i][1]]
                      /\ \A i \in 1..Len(shown'[q]) :
                            shown'[q][i] = Line(shown'[q][i][1]) /\ wpc[shown'[q][i][1]] # "idle" => LastAt(shown'[q], i)
    BY <1>1 DEF ShownInv, Line
  <2>1. CASE q = r
    <3>1. shown'[q] = <<>>
      BY <1>1, <2>1
    <3>2. InOrder(<<>>)
      BY <1>2 DEF InOrder
    <3> QED BY <1>2, <3>1, <3>2
  <2>2. CASE q # r
    BY <1>1, <2>2 DEF OrderInv, ShownInv
  <2> QED BY <2>1, <2>2
<1>6. MeetInv'
  <2> SUFFICES ASSUME NEW q \in Requests, NEW i \in 1..Len(shown'[q]), NEW j \in 1..Len(chan'[q]),
                      shown'[q][i][1] = chan'[q][j][1]
               PROVE  \/ shown'[q][i][2] < chan'[q][j][2]
                      \/ shown'[q][i][2] = chan'[q][j][2] /\ LastAt(shown'[q], i)
    BY DEF MeetInv
  <2>1. CASE q = r
    BY <1>1, <1>2, <2>1
  <2>2. CASE q # r
    <3>1. shown'[q] = shown[q] /\ chan'[q] = chan[q]
      BY <1>1, <2>2
    <3> QED BY <3>1 DEF OrderInv, MeetInv
  <2> QED BY <2>1, <2>2
<1> QED BY <1>3, <1>4, <1>5, <1>6 DEF OrderInv

\* What a client sees of one stream never goes back: snapshot and live lines meet
\* with at most the line that was being published shown twice (publish_inner,
\* last_n, the logs request).
THEOREM ClientOrderHolds == Spec => []ClientOrder
<1>1. Init => OrderInv
  <2>1. \A i \in 1..Len(<<>>) : FALSE
    OBVIOUS
  <2> QED BY <2>1 DEF Init, OrderInv, RingInv, ChanInv, ShownInv, MeetInv, Strict, InOrder
<1>2. TypeInv /\ OrderInv /\ [Next]_vars => OrderInv'
  <2> SUFFICES ASSUME TypeInv, OrderInv, [Next]_vars PROVE OrderInv'
    OBVIOUS
  <2>1. CASE UNCHANGED <<ring, mixed, wpc, count, chan, shown>>
    BY <2>1 DEF OrderInv, RingInv, ChanInv, ShownInv, MeetInv, Line
  <2>2. ASSUME EndBootTee \/ UNCHANGED vars \/ \E r \in Requests : Subscribe(r)
        PROVE  UNCHANGED <<ring, mixed, wpc, count, chan, shown>>
    BY <2>2 DEF EndBootTee, Subscribe, vars, hubVars, writerVars, requestVars
  <2> QED BY <2>1, <2>2, PushServiceOrder, PushMixedOrder, SendOrder, SnapshotOrder, ReceiveOrder, EndedOrder
      DEF Next, Publish, Follow, DroppedEnd, Leave
<1>3. OrderInv => ClientOrder
  BY DEF OrderInv, ShownInv, InOrder, ClientOrder
<1> QED BY <1>1, <1>2, <1>3, TypeCorrect, PTL DEF Spec
====
