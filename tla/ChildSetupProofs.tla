---------------------------- MODULE ChildSetupProofs ----------------------------
(****************************************************************************)
(* Proofs about loading a configuration and setting up a service process:   *)
(* a failed load keeps what was in use, what is taken can be run, and a     *)
(* child runs as the identity its definition asks for or not at all, for    *)
(* any files, users, definitions, and any number of changes and faults.     *)
(****************************************************************************)
EXTENDS ChildSetup, FiniteSetTheorems, WellFoundedInduction, TLAPS

----------------------------------------------------------------------------
(* Recursion over a file.                                                   *)

\* A set of natural numbers has a least one.
LEMMA LeastNumber ==
    ASSUME NEW T, T \subseteq Nat, T # {}
    PROVE  \E x \in T : \A y \in T : x <= y
<1> DEFINE R == OpToRel(<, Nat)
<1>1. IsWellFoundedOn(R, Nat)
  BY NatLessThanWellFounded
<1>2. \A x, y \in Nat : y < x => <<y, x>> \in R
  BY DEF OpToRel
<1>3. \E x \in T : \A y \in T : ~(<<y, x>> \in R)
  <2> HIDE DEF R
  <2> QED BY <1>1, WFMin
<1>4. PICK x \in T : \A y \in T : ~(<<y, x>> \in R)
  BY <1>3
<1>5. \A y \in T : ~(y < x)
  BY <1>2, <1>4, Zenon
<1> QED BY <1>5

\* Some function into V on 0..n begins with base and goes on by step.
Recursive(V, n, base, step) ==
    \E f \in [0..n -> V] : f[0] = base /\ \A i \in 1..n : f[i] = step[i][f[i - 1]]

\* There is one, the step being given as a function.
LEMMA FiniteRecursion ==
    ASSUME NEW V, NEW n \in Nat, NEW base \in V, NEW step \in [1..n -> [V -> V]]
    PROVE  Recursive(V, n, base, step)
<1> DEFINE Works(k, f) == f[0] = base /\ \A i \in 1..k : f[i] = step[i][f[i - 1]]
           T == {k \in 0..n : ~\E f \in [0..k -> V] : Works(k, f)}
<1>1. SUFFICES ASSUME T # {} PROVE FALSE
  <2>1. n \in 0..n
    OBVIOUS
  <2> QED BY <2>1 DEF Recursive
<1>2. PICK k \in T : \A j \in T : k <= j
  <2>1. T \subseteq Nat
    OBVIOUS
  <2> HIDE DEF T
  <2> QED BY <1>1, <2>1, LeastNumber
<1>3. k \in 0..n /\ ~\E f \in [0..k -> V] : Works(k, f)
  BY <1>2
<1>4. CASE k = 0
  <2> DEFINE f == [i \in 0..k |-> base]
  <2>1. f \in [0..k -> V] /\ Works(k, f)
    BY <1>4
  <2> QED BY <1>3, <2>1
<1>5. CASE k # 0
  <2>1. k - 1 \in 0..n /\ k \in 1..n /\ ~(k <= k - 1)
    BY <1>3, <1>5
  <2>2. k - 1 \notin T
    BY <1>2, <2>1
  <2>3. PICK g \in [0..(k - 1) -> V] : Works(k - 1, g)
    BY <2>1, <2>2
  <2> DEFINE f == [i \in 0..k |-> IF i = k THEN step[k][g[k - 1]] ELSE g[i]]
  <2>4. f \in [0..k -> V]
    <3>1. g[k - 1] \in V /\ step[k] \in [V -> V]
      BY <2>1, <2>3
    <3>2. \A i \in 0..k : i # k => g[i] \in V
      BY <2>1, <2>3
    <3> QED BY <3>1, <3>2
  <2>5. f[0] = base
    BY <2>1, <2>3
  <2>6. ASSUME NEW i \in 1..k PROVE f[i] = step[i][f[i - 1]]
    <3>1. i - 1 \in 0..k /\ i \in 0..k /\ i - 1 # k
      BY <2>1
    <3>2. CASE i = k
      BY <3>1, <3>2
    <3>3. CASE i # k
      <4>1. i \in 1..(k - 1)
        BY <2>1, <3>3
      <4> QED BY <2>3, <3>1, <3>3, <4>1
    <3> QED BY <3>2, <3>3
  <2> QED BY <1>3, <2>4, <2>5, <2>6
<1> QED BY <1>4, <1>5

\* There is a first service of a name that is there.
LEMMA FirstFacts ==
    ASSUME NEW cs \in Seq(ServiceDef), NEW n \in Named(cs)
    PROVE  First(cs, n) \in DOMAIN cs /\ cs[First(cs, n)].name = n
<1> DEFINE T == {i \in DOMAIN cs : cs[i].name = n}
<1>1. DOMAIN cs = 1..Len(cs) /\ Len(cs) \in Nat
  OBVIOUS
<1>2. T \subseteq Nat /\ T # {}
  BY <1>1 DEF Named
<1>3. PICK i \in T : \A j \in T : i <= j
  <2> HIDE DEF T
  <2> QED BY <1>2, LeastNumber
<1>4. \A j \in 1..(i - 1) : cs[j].name # n
  <2> SUFFICES ASSUME NEW j \in 1..(i - 1), cs[j].name = n PROVE FALSE
    OBVIOUS
  <2>1. j \in DOMAIN cs /\ ~(i <= j)
    BY <1>1, <1>3
  <2>2. j \in T
    BY <2>1
  <2> QED BY <1>3, <2>1, <2>2
<1>5. \E k \in DOMAIN cs : cs[k].name = n /\ \A j \in 1..(k - 1) : cs[j].name # n
  BY <1>3, <1>4
<1> QED BY <1>5 DEF First

\* A service put into a list is there, in place of the one of its name or at
\* the end; the others stay.  A name that is there twice stays there twice.
LEMMA PutFacts ==
    ASSUME NEW cs \in Seq(ServiceDef), NEW s \in ServiceDef
    PROVE  /\ Put(cs, s) \in Seq(ServiceDef)
           /\ Named(Put(cs, s)) = Named(cs) \cup {s.name}
           /\ Once(Put(cs, s)) =>
                 /\ Once(cs)
                 /\ \A j \in DOMAIN Put(cs, s) :
                       \/ Put(cs, s)[j] = s
                       \/ Put(cs, s)[j].name # s.name /\ \E i \in DOMAIN cs : Put(cs, s)[j] = cs[i]
<1> DEFINE t == Put(cs, s)
<1>1. DOMAIN cs = 1..Len(cs) /\ Len(cs) \in Nat /\ \A i \in DOMAIN cs : cs[i] \in ServiceDef
  OBVIOUS
<1>2. CASE s.name \in Named(cs)
  <2> DEFINE k == First(cs, s.name)
  <2>1. k \in DOMAIN cs /\ cs[k].name = s.name
    BY <1>2, FirstFacts
  <2>2. t = [cs EXCEPT ![k] = s]
    BY <1>2 DEF Put
  <2> HIDE DEF k, t
  <2>3. /\ t \in Seq(ServiceDef) /\ DOMAIN t = DOMAIN cs /\ t[k] = s
        /\ \A j \in DOMAIN cs : j # k => t[j] = cs[j]
    BY <1>1, <2>1, <2>2
  <2>4. \A j \in DOMAIN cs : t[j].name = cs[j].name
    BY <2>1, <2>3
  <2>5. Named(t) = Named(cs) \cup {s.name}
    BY <1>2, <2>3, <2>4 DEF Named
  <2>6. Once(t) => Once(cs) /\ \A j \in DOMAIN t : j # k => t[j].name # s.name
    BY <2>1, <2>3, <2>4 DEF Once
  <2> QED BY <2>3, <2>5, <2>6 DEF t
<1>3. CASE s.name \notin Named(cs)
  <2>1. t = Append(cs, s)
    BY <1>3 DEF Put
  <2> HIDE DEF t
  <2>2. /\ t \in Seq(ServiceDef) /\ DOMAIN t = 1..(Len(cs) + 1) /\ t[Len(cs) + 1] = s
        /\ \A j \in DOMAIN cs : t[j] = cs[j] /\ j \in DOMAIN t
        /\ \A j \in DOMAIN t : j = Len(cs) + 1 \/ j \in DOMAIN cs
        /\ Len(cs) + 1 \in DOMAIN t
    BY <1>1, <2>1
  <2>3. \A j \in DOMAIN cs : cs[j].name # s.name
    BY <1>3 DEF Named
  <2>4. Named(t) = Named(cs) \cup {s.name}
    <3>1. \A x \in Named(t) : x \in Named(cs) \cup {s.name}
      BY <2>2 DEF Named
    <3>2. \A x \in Named(cs) \cup {s.name} : x \in Named(t)
      BY <2>2 DEF Named
    <3> QED BY <3>1, <3>2
  <2>5. Once(t) => Once(cs)
    BY <2>2 DEF Once
  <2>6. \A j \in DOMAIN t : t[j] = s \/ (t[j].name # s.name /\ \E i \in DOMAIN cs : t[j] = cs[i])
    BY <2>2, <2>3
  <2> QED BY <2>2, <2>4, <2>5, <2>6 DEF t
<1> QED BY <1>2, <1>3

\* The last of its name among the first k of a file.
Says(file, k, s) ==
    \E p \in 1..k : file[p] = s /\ \A q \in 1..k : p < q => file[q].name # s.name

\* A list into which the first k services of a file were put.
PutAll(cs, file, k, t) ==
    /\ t \in Seq(ServiceDef)
    /\ \A n : n \in Named(t) <=> n \in Named(cs) \/ \E p \in 1..k : file[p].name = n
    /\ Once(t) =>
          /\ Once(cs)
          /\ \A j \in DOMAIN t :
                \/ Says(file, k, t[j])
                \/ /\ \A p \in 1..k : file[p].name # t[j].name
                   /\ \E i \in DOMAIN cs : t[j] = cs[i]

\* One more is put.
LEMMA PutOne ==
    ASSUME NEW cs \in Seq(ServiceDef), NEW file \in Seq(ServiceDef), NEW k \in 1..Len(file), NEW u,
           PutAll(cs, file, k - 1, u)
    PROVE  PutAll(cs, file, k, Put(u, file[k]))
<1> DEFINE s == file[k]
           t == Put(u, s)
<1>1. /\ s \in ServiceDef /\ k \in Nat /\ k \in 1..k
      /\ \A p \in 1..k : p = k \/ p \in 1..(k - 1)
      /\ \A p \in 1..(k - 1) : p \in 1..k /\ p # k /\ p < k
  OBVIOUS
<1>2. /\ u \in Seq(ServiceDef)
      /\ \A n : n \in Named(u) <=> n \in Named(cs) \/ \E p \in 1..(k - 1) : file[p].name = n
      /\ Once(u) =>
            /\ Once(cs)
            /\ \A j \in DOMAIN u :
                  \/ Says(file, k - 1, u[j])
                  \/ /\ \A p \in 1..(k - 1) : file[p].name # u[j].name
                     /\ \E i \in DOMAIN cs : u[j] = cs[i]
  BY DEF PutAll
<1>3. /\ t \in Seq(ServiceDef) /\ Named(t) = Named(u) \cup {s.name}
      /\ Once(t) => /\ Once(u)
                    /\ \A j \in DOMAIN t : \/ t[j] = s
                                           \/ t[j].name # s.name /\ \E i \in DOMAIN u : t[j] = u[i]
  <2>1. s \in ServiceDef /\ u \in Seq(ServiceDef)
    BY <1>1, <1>2
  <2> HIDE DEF s
  <2> QED BY <2>1, PutFacts, Zenon
<1> HIDE DEF t
<1>4. \A n : n \in Named(t) <=> n \in Named(cs) \/ \E p \in 1..k : file[p].name = n
  <2> TAKE n
  <2>1. (\E p \in 1..k : file[p].name = n) <=> (n = s.name \/ \E p \in 1..(k - 1) : file[p].name = n)
    BY <1>1
  <2> QED BY <1>2, <1>3, <2>1
<1>5. ASSUME Once(t), NEW j \in DOMAIN t
      PROVE  \/ Says(file, k, t[j])
             \/ /\ \A p \in 1..k : file[p].name # t[j].name
                /\ \E i \in DOMAIN cs : t[j] = cs[i]
  <2>1. CASE t[j] = s
    <3>1. \A q \in 1..k : ~(k < q)
      OBVIOUS
    <3>2. Says(file, k, s)
      BY <1>1, <3>1 DEF Says
    <3> QED BY <2>1, <3>2
  <2>2. CASE t[j].name # s.name /\ \E i \in DOMAIN u : t[j] = u[i]
    <3>1. PICK i \in DOMAIN u : t[j] = u[i]
      BY <2>2
    <3>2. CASE Says(file, k - 1, u[i])
      <4>1. PICK p \in 1..(k - 1) : file[p] = u[i] /\ \A q \in 1..(k - 1) : p < q => file[q].name # u[i].name
        BY <3>2 DEF Says
      <4>2. \A q \in 1..k : p < q => file[q].name # u[i].name
        BY <1>1, <2>2, <3>1, <4>1
      <4>3. Says(file, k, u[i])
        BY <1>1, <4>1, <4>2 DEF Says
      <4> QED BY <3>1, <4>3
    <3>3. CASE (\A p \in 1..(k - 1) : file[p].name # u[i].name) /\ \E x \in DOMAIN cs : u[i] = cs[x]
      <4>1. \A p \in 1..k : file[p].name # t[j].name
        BY <1>1, <2>2, <3>1, <3>3
      <4> QED BY <3>1, <3>3, <4>1
    <3> QED BY <1>2, <1>3, <1>5, <3>2, <3>3
  <2> QED BY <1>3, <1>5, <2>1, <2>2
<1>6. PutAll(cs, file, k, t)
  BY <1>2, <1>3, <1>4, <1>5, Zenon DEF PutAll
<1> QED BY <1>6 DEF t

\* merge_service_dropins puts one service of the file after the other.
LEMMA MergeFacts ==
    ASSUME NEW cs \in Seq(ServiceDef), NEW file \in Seq(ServiceDef)
    PROVE  PutAll(cs, file, Len(file), Merge(cs, file))
<1> DEFINE V == Seq(ServiceDef)
           n == Len(file)
           merged == CHOOSE f : f = [i \in 0..n |-> IF i = 0 THEN cs ELSE Put(f[i - 1], file[i])]
           step == [i \in 1..n |-> [v \in V |-> Put(v, file[i])]]
<1>1. n \in Nat /\ \A i \in 1..n : file[i] \in ServiceDef
  OBVIOUS
<1>2. step \in [1..n -> [V -> V]]
  BY <1>1, PutFacts
<1>3. Recursive(V, n, cs, step)
  <2>1. cs \in V
    OBVIOUS
  <2> HIDE DEF V, n, step
  <2> QED BY <1>1, <1>2, <2>1, FiniteRecursion
<1>4. PICK g \in [0..n -> V] : g[0] = cs /\ \A i \in 1..n : g[i] = step[i][g[i - 1]]
  <2> HIDE DEF V, n, step
  <2> QED BY <1>3 DEF Recursive
<1>5. \A i \in 1..n : g[i] = Put(g[i - 1], file[i])
  <2> TAKE i \in 1..n
  <2>1. i - 1 \in 0..n
    BY <1>1
  <2> QED BY <1>4, <2>1
<1>6. g = [i \in 0..n |-> IF i = 0 THEN cs ELSE Put(g[i - 1], file[i])]
  <2>1. \A i \in 0..n : i # 0 => i \in 1..n
    BY <1>1
  <2> QED BY <1>4, <1>5, <2>1
<1>7. merged = [i \in 0..n |-> IF i = 0 THEN cs ELSE Put(merged[i - 1], file[i])]
  BY <1>6, Zenon
<1>8. Merge(cs, file) = merged[n]
  BY DEF Merge
<1> HIDE DEF merged, step
<1>9. merged[0] = cs /\ \A i \in 0..n : i # 0 => merged[i] = Put(merged[i - 1], file[i])
  <2>1. 0 \in 0..n
    BY <1>1
  <2> HIDE DEF V, n
  <2> QED BY <1>7, <2>1, Zenon
<1>10. \A k \in 0..n : PutAll(cs, file, k, merged[k])
  <2> DEFINE T == {k \in 0..n : ~PutAll(cs, file, k, merged[k])}
  <2> SUFFICES ASSUME T # {} PROVE FALSE
    OBVIOUS
  <2>1. PICK k \in T : \A j \in T : k <= j
    <3>1. T \subseteq Nat
      BY <1>1
    <3> HIDE DEF T
    <3> QED BY <3>1, LeastNumber
  <2>2. k # 0
    <3>1. PutAll(cs, file, 0, cs)
      BY DEF PutAll
    <3> QED BY <1>9, <2>1, <3>1
  <2>3. k \in 1..n /\ k \in 0..n /\ k - 1 \in 0..n /\ ~(k <= k - 1)
    BY <1>1, <2>1, <2>2
  <2>4. PutAll(cs, file, k - 1, merged[k - 1])
    BY <2>1, <2>3
  <2>5. merged[k] = Put(merged[k - 1], file[k])
    BY <1>9, <2>2, <2>3
  <2>6. PutAll(cs, file, k, merged[k])
    BY <2>3, <2>4, <2>5, PutOne
  <2> QED BY <2>1, <2>6
<1>11. n \in 0..n
  BY <1>1
<1> QED BY <1>8, <1>10, <1>11

----------------------------------------------------------------------------
(* Definitions of services.                                                 *)

\* An identity or the override's word is all that is changed of a definition.
LEMMA ServiceExcept ==
    ASSUME NEW s \in ServiceDef
    PROVE  /\ \A x : [s EXCEPT !.identity = x].identity = x
           /\ \A x \in {None} \cup Identity :
                 LET t == [s EXCEPT !.identity = x]
                 IN  /\ t \in ServiceDef /\ t.identity = x
                     /\ t.name = s.name /\ t.policy = s.policy /\ t.daemon = s.daemon /\ t.cmds = s.cmds
                     /\ t.probe = s.probe /\ t.labels = s.labels /\ t.deps = s.deps /\ t.context = s.context
           /\ \A b \in BOOLEAN : [s EXCEPT !.enabled = b] \in ServiceDef
BY DEF ServiceDef

\* The override gives a list of the same length.
LEMMA OverrideType ==
    ASSUME NEW cs \in Seq(ServiceDef), NEW ov \in Overrides
    PROVE  Override(cs, ov) \in Seq(ServiceDef)
<1>1. PICK D \in SUBSET Names : ov \in [D -> BOOLEAN]
  BY DEF Overrides
<1>2. \A i \in DOMAIN cs : cs[i] \in ServiceDef
  OBVIOUS
<1>3. \A n \in DOMAIN ov : ov[n] \in BOOLEAN
  BY <1>1
<1>4. \A i \in DOMAIN cs : (IF cs[i].name \in DOMAIN ov THEN [cs[i] EXCEPT !.enabled = ov[cs[i].name]] ELSE cs[i])
                              \in ServiceDef
  BY <1>2, <1>3, ServiceExcept
<1>5. DOMAIN cs = 1..Len(cs) /\ Len(cs) \in Nat
  OBVIOUS
<1> QED BY <1>4, <1>5 DEF Override

\* The user a context asks for.
UidOf(ctx) == IF ctx.user = None THEN None
              ELSE IF IsNumber(ctx.user) THEN NumberOf[ctx.user] ELSE Passwd[ctx.user].uid

\* An identity is what its context asks for.
Meets(ctx, id) ==
    /\ id \in Identity /\ id.caps = ctx.caps /\ id.uid = UidOf(ctx)
    /\ id.named <=> ctx.user # None /\ ~IsNumber(ctx.user)
    /\ id.named => ctx.user \in DOMAIN Passwd /\ id.name = ctx.user /\ id.gid \in Nat
    /\ ctx.user = None /\ ctx.group = None => id.gid = None

\* security::resolve gives nothing for a context that asks for nothing, else an
\* identity that is what it asks for, or it fails.
LEMMA ResolveMeets ==
    ASSUME users \subseteq DOMAIN Passwd, NEW ctx \in ContextDef, Resolve(ctx) # Unresolved, Resolve(ctx) # None
    PROVE  Meets(ctx, Resolve(ctx))
<1> DEFINE user == ResolveUser(ctx)
           gid == ResolveGroup(ctx, user.gid)
           id == [uid |-> user.uid, gid |-> gid, caps |-> ctx.caps, name |-> user.name,
                  named |-> ctx.user # None /\ ~IsNumber(ctx.user)]
<1>1. user # Unresolved /\ gid # Unresolved /\ Resolve(ctx) = id
  BY DEF Resolve
<1>2. /\ ctx.user \in {None} \cup STRING /\ ctx.group \in {None} \cup STRING /\ ctx.caps \in SUBSET STRING
      /\ ~IsNumber(None) /\ None \notin users /\ None \notin DOMAIN GroupDb
      /\ \A x : IsNumber(x) => NumberOf[x] \in Nat
      /\ \A u \in users : u \in DOMAIN Passwd /\ Passwd[u].uid \in Nat /\ Passwd[u].gid \in Nat
      /\ \A g \in DOMAIN GroupDb : GroupDb[g] \in Nat
  BY NoneAssumption, NumberAssumption, UserAssumption DEF ContextDef, IsNumber
<1>3. /\ user.uid = UidOf(ctx) /\ user.uid \in {None} \cup Nat /\ user.gid \in {None} \cup Nat
      /\ user.name \in {None} \cup DOMAIN Passwd
      /\ ctx.user # None /\ ~IsNumber(ctx.user) =>
            ctx.user \in DOMAIN Passwd /\ user.name = ctx.user /\ user.gid \in Nat
      /\ ctx.user = None => user.gid = None
  <2>1. CASE ctx.user = None
    <3>1. user = [uid |-> None, gid |-> None, name |-> None]
      BY <1>2, <2>1 DEF ResolveUser
    <3> QED BY <2>1, <3>1 DEF UidOf
  <2>2. CASE IsNumber(ctx.user) /\ UserOf(NumberOf[ctx.user]) # {}
    <3>1. PICK u \in users : user = [uid |-> NumberOf[ctx.user], gid |-> Passwd[u].gid, name |-> u]
      <4>1. (CHOOSE x \in UserOf(NumberOf[ctx.user]) : TRUE) \in users
        BY <2>2 DEF UserOf
      <4> QED BY <1>2, <2>2, <4>1 DEF ResolveUser
    <3> QED BY <1>2, <2>2, <3>1 DEF UidOf
  <2>3. CASE IsNumber(ctx.user) /\ UserOf(NumberOf[ctx.user]) = {}
    <3>1. user = [uid |-> NumberOf[ctx.user], gid |-> None, name |-> None]
      BY <1>1, <1>2, <2>3 DEF ResolveUser
    <3> QED BY <1>2, <2>3, <3>1 DEF UidOf
  <2>4. CASE ctx.user # None /\ ~IsNumber(ctx.user)
    <3>1. ctx.user \in users /\ user = [uid |-> Passwd[ctx.user].uid, gid |-> Passwd[ctx.user].gid, name |-> ctx.user]
      BY <1>1, <1>2, <2>4 DEF ResolveUser
    <3> QED BY <1>2, <2>4, <3>1 DEF UidOf
  <2> QED BY <2>1, <2>2, <2>3, <2>4
<1> HIDE DEF user
<1>4. /\ gid \in {None} \cup Nat /\ (user.gid \in Nat => gid \in Nat)
      /\ ctx.user = None /\ ctx.group = None => gid = None
  <2>1. CASE ctx.group = None
    <3>1. gid = user.gid
      BY <1>2, <2>1 DEF ResolveGroup
    <3> QED BY <1>3, <3>1
  <2>2. CASE ctx.group # None /\ IsNumber(ctx.group)
    <3>1. gid = NumberOf[ctx.group]
      BY <2>2 DEF ResolveGroup
    <3> QED BY <1>2, <2>2, <3>1
  <2>3. CASE ctx.group # None /\ ~IsNumber(ctx.group)
    <3>1. ctx.group \in DOMAIN GroupDb /\ gid = GroupDb[ctx.group]
      BY <1>1, <2>3 DEF ResolveGroup
    <3> QED BY <1>2, <2>3, <3>1
  <2> QED BY <2>1, <2>2, <2>3
<1> HIDE DEF gid
<1>5. id \in Identity
  BY <1>2, <1>3, <1>4 DEF Identity
<1>6. /\ id.uid = user.uid /\ id.gid = gid /\ id.caps = ctx.caps /\ id.name = user.name
      /\ id.named <=> (ctx.user # None /\ ~IsNumber(ctx.user))
  OBVIOUS
<1> HIDE DEF id
<1>7. Meets(ctx, id)
  BY <1>3, <1>4, <1>5, <1>6 DEF Meets
<1> QED BY <1>1, <1>7

\* What is known of a service that was taken: it is valid and its identity is
\* what its context asks for.
Sound(s) ==
    /\ s \in ServiceDef /\ ServiceValid(s)
    /\ s.context = None => s.identity = None
    /\ s.identity # None => Meets(s.context, s.identity)

\* prepare_security keeps all of a definition but its identity.
LEMMA PreparedSound ==
    ASSUME users \subseteq DOMAIN Passwd, NEW s \in ServiceDef, ServiceValid(s), Prepared(s).identity # Unresolved
    PROVE  Sound(Prepared(s)) /\ Prepared(s).name = s.name /\ Prepared(s).deps = s.deps
<1> DEFINE x == IF s.context = None THEN None ELSE Resolve(s.context)
           t == [s EXCEPT !.identity = x]
<1>1. Prepared(s) = t /\ t.identity = x
  BY ServiceExcept DEF Prepared
<1>2. s.context \in {None} \cup ContextDef
  BY DEF ServiceDef
<1>3. x # None => s.context # None /\ Meets(s.context, x)
  <2> SUFFICES ASSUME x # None PROVE s.context # None /\ Meets(s.context, x)
    OBVIOUS
  <2>1. s.context # None /\ s.context \in ContextDef /\ x = Resolve(s.context) /\ x # Unresolved
    BY <1>1, <1>2
  <2> QED BY <2>1, ResolveMeets
<1>4. x \in {None} \cup Identity
  BY <1>3 DEF Meets
<1> HIDE DEF x
<1>5. /\ t \in ServiceDef /\ t.name = s.name /\ t.policy = s.policy /\ t.daemon = s.daemon /\ t.cmds = s.cmds
      /\ t.probe = s.probe /\ t.labels = s.labels /\ t.deps = s.deps /\ t.context = s.context
  BY <1>4, ServiceExcept
<1> HIDE DEF t
<1>6. ServiceValid(t)
  BY <1>5 DEF ServiceValid
<1>7. s.context = None => x = None
  BY DEF x
<1> QED BY <1>1, <1>3, <1>5, <1>6, <1>7 DEF Sound

----------------------------------------------------------------------------
(* The load.                                                                *)

\* While a load runs the configuration is the one it began with, and the
\* environment too until the files are installed; nothing has failed yet.
KeptInv ==
    /\ lpc # "idle" => config = before[1] /\ failed = None
    /\ lpc \in {"main", "list", "dropins", "validate", "env"} => env = before[2]
    /\ KeepOld

\* What is prepared has been checked.
CheckInv == lpc \in {"env", "security"} => Validate(draft)

\* What is in use was checked and prepared as a whole.
ConfigInv ==
    config # None => \A i \in DOMAIN config : Sound(config[i]) /\ config[i].deps \subseteq Named(config)

LoadInv == LoadType /\ KeptInv /\ CheckInv /\ ConfigInv

\* A configuration that has all its identities is sound as a whole.
LEMMA PrepareSecuritySound ==
    ASSUME users \subseteq DOMAIN Passwd, NEW svcs \in Seq(ServiceDef), Validate(svcs), Resolvable(svcs)
    PROVE  LET new == PrepareSecurity(svcs)
           IN  /\ new \in Seq(ServiceDef)
               /\ \A i \in DOMAIN new : Sound(new[i]) /\ new[i].deps \subseteq Named(new)
<1> DEFINE new == PrepareSecurity(svcs)
<1>1. \A i \in DOMAIN svcs : /\ Sound(Prepared(svcs[i])) /\ Prepared(svcs[i]).name = svcs[i].name
                             /\ Prepared(svcs[i]).deps = svcs[i].deps
  <2> TAKE i \in DOMAIN svcs
  <2>1. svcs[i] \in ServiceDef /\ ServiceValid(svcs[i]) /\ Prepared(svcs[i]).identity # Unresolved
    BY DEF Validate, Resolvable
  <2> QED BY <2>1, PreparedSound
<1>2. DOMAIN new = DOMAIN svcs /\ \A i \in DOMAIN svcs : new[i] = Prepared(svcs[i])
  BY DEF PrepareSecurity
<1>3. new \in Seq(ServiceDef)
  <2>1. DOMAIN svcs = 1..Len(svcs) /\ Len(svcs) \in Nat
    OBVIOUS
  <2>2. \A i \in 1..Len(svcs) : Prepared(svcs[i]) \in ServiceDef
    BY <1>1, <2>1 DEF Sound
  <2> QED BY <2>1, <2>2 DEF PrepareSecurity
<1> HIDE DEF new
<1>4. Named(new) = Named(svcs)
  BY <1>1, <1>2 DEF Named
<1>5. \A i \in DOMAIN new : Sound(new[i]) /\ new[i].deps \subseteq Named(new)
  BY <1>1, <1>2, <1>4 DEF Validate
<1> QED BY <1>3, <1>5 DEF new

\* Changing nothing of a load keeps its invariant.
LEMMA LoadStutter ==
    ASSUME LoadInv, UNCHANGED loadVars
    PROVE  LoadInv'
BY DEF LoadInv, LoadType, KeptInv, KeepOld, CheckInv, ConfigInv, loadVars

\* A step that fails leaves configuration and environment as they are.
LEMMA FailStep ==
    ASSUME LoadInv, lpc \in {"main", "dropins", "validate", "security"}, Fail
    PROVE  LoadInv'
<1>1. LoadType'
  BY DEF LoadInv, LoadType, Fail
<1>2. KeptInv'
  BY DEF LoadInv, KeptInv, KeepOld, Fail
<1>3. CheckInv' /\ ConfigInv'
  BY DEF LoadInv, CheckInv, ConfigInv, Fail
<1> QED BY <1>1, <1>2, <1>3 DEF LoadInv

\* Each step of a load, and each change to what it reads, keeps the invariant.
LEMMA LoadStep ==
    ASSUME LoadInv, Load \/ Change
    PROVE  LoadInv'
<1> USE DEF LoadInv, LoadSteps
<1>1. CASE Begin
  <2>1. LoadType'
    BY <1>1 DEF LoadType, Begin
  <2>2. KeptInv' /\ CheckInv' /\ ConfigInv'
    BY <1>1 DEF KeptInv, KeepOld, CheckInv, ConfigInv, Begin
  <2> QED BY <2>1, <2>2
<1>2. CASE ReadMain
  <2>1. CASE disk.main = Broken
    BY <1>2, <2>1, FailStep DEF ReadMain
  <2>2. CASE disk.main # Broken
    <3>1. disk' \in Disk /\ draft' \in Seq(ServiceDef)
      <4>1. disk.main = None \/ disk.main \in Seq(ServiceDef)
        BY <2>2 DEF LoadType, Disk, Contents
      <4>2. <<>> \in Seq(ServiceDef) /\ <<>> \in Contents
        BY DEF Contents
      <4> DEFINE m == IF disk.main = None THEN <<>> ELSE disk.main
      <4>3. m \in Seq(ServiceDef) /\ m \in Contents
        BY <4>1, <4>2 DEF Contents
      <4>4. draft' = m /\ disk' = [disk EXCEPT !.main = m]
        BY <1>2, <2>2 DEF ReadMain
      <4> HIDE DEF m
      <4>5. [disk EXCEPT !.main = m] \in Disk
        BY <4>3 DEF LoadType, Disk
      <4> QED BY <4>3, <4>4, <4>5
    <3>2. LoadType'
      BY <1>2, <2>2, <3>1 DEF LoadType, ReadMain
    <3>3. KeptInv' /\ CheckInv' /\ ConfigInv'
      BY <1>2, <2>2 DEF KeptInv, KeepOld, CheckInv, ConfigInv, ReadMain
    <3> QED BY <3>2, <3>3
  <2> QED BY <2>1, <2>2
<1>3. CASE ListDropins
  <2>1. LoadType'
    BY <1>3 DEF LoadType, ListDropins
  <2>2. KeptInv' /\ CheckInv' /\ ConfigInv'
    BY <1>3 DEF KeptInv, KeepOld, CheckInv, ConfigInv, ListDropins
  <2> QED BY <2>1, <2>2
<1>4. CASE ReadDropin
  <2>1. PICK i \in Unread :
           LET file == disk.dropins[DropinOrder[i]]
           IN  IF file \in {None, Broken} THEN Fail
               ELSE /\ at' = i /\ draft' = Merge(draft, file)
                    /\ UNCHANGED <<disk, users, config, env, lpc, listed, edited, failed, before, edits>>
    BY <1>4 DEF ReadDropin
  <2> DEFINE file == disk.dropins[DropinOrder[i]]
  <2>2. lpc = "dropins"
    BY <1>4 DEF ReadDropin
  <2>3. CASE file \in {None, Broken}
    BY <2>1, <2>2, <2>3, FailStep
  <2>4. CASE file \notin {None, Broken}
    <3>1. i \in DOMAIN DropinOrder /\ i \in Nat
      BY OrderAssumption DEF Unread, LoadType
    <3>2. file \in Seq(ServiceDef)
      <4>1. DropinOrder[i] \in Paths
        BY <3>1 DEF Paths
      <4>2. file \in Contents
        BY <4>1 DEF LoadType, Disk
      <4> QED BY <2>4, <4>2 DEF Contents
    <3>3. /\ at' = i /\ draft' = Merge(draft, file)
          /\ UNCHANGED <<disk, users, config, env, lpc, listed, edited, failed, before, edits>>
      BY <2>1, <2>4
    <3> HIDE DEF file
    <3>4. draft' \in Seq(ServiceDef)
      BY <3>2, <3>3, MergeFacts DEF LoadType, PutAll
    <3>5. LoadType'
      BY <3>1, <3>3, <3>4 DEF LoadType
    <3>6. KeptInv' /\ CheckInv' /\ ConfigInv'
      BY <2>2, <3>3 DEF KeptInv, KeepOld, CheckInv, ConfigInv
    <3> QED BY <3>5, <3>6
  <2> QED BY <2>3, <2>4
<1>5. CASE ReadOverride
  <2>1. CASE disk.override = Broken
    BY <1>5, <2>1, FailStep DEF ReadOverride
  <2>2. CASE disk.override # Broken
    <3>1. disk.override \in Overrides
      BY <2>2 DEF LoadType, Disk
    <3>2. draft' \in Seq(ServiceDef)
      BY <1>5, <2>2, <3>1, OverrideType DEF ReadOverride, LoadType
    <3>3. LoadType'
      BY <1>5, <2>2, <3>2 DEF LoadType, ReadOverride
    <3>4. KeptInv' /\ CheckInv' /\ ConfigInv'
      BY <1>5, <2>2 DEF KeptInv, KeepOld, CheckInv, ConfigInv, ReadOverride
    <3> QED BY <3>3, <3>4
  <2> QED BY <2>1, <2>2
<1>6. CASE ValidateDraft
  <2>1. CASE Fail
    BY <1>6, <2>1, FailStep DEF ValidateDraft
  <2>2. CASE ~Fail
    <3>1. LoadType'
      BY <1>6, <2>2 DEF LoadType, ValidateDraft
    <3>2. KeptInv' /\ ConfigInv'
      BY <1>6, <2>2 DEF KeptInv, KeepOld, ConfigInv, ValidateDraft
    <3>3. CheckInv'
      BY <1>6, <2>2 DEF CheckInv, ValidateDraft
    <3> QED BY <3>1, <3>2, <3>3
  <2> QED BY <2>1, <2>2
<1>7. CASE InstallEnv
  <2>1. LoadType'
    BY <1>7 DEF LoadType, InstallEnv
  <2>2. KeptInv' /\ CheckInv' /\ ConfigInv'
    BY <1>7 DEF KeptInv, KeepOld, CheckInv, ConfigInv, InstallEnv
  <2> QED BY <2>1, <2>2
<1>8. CASE FinishLoad
  <2>1. CASE ~Resolvable(draft)
    BY <1>8, <2>1, FailStep DEF FinishLoad
  <2>2. CASE Resolvable(draft)
    <3>1. /\ config' = PrepareSecurity(draft) /\ lpc = "security" /\ lpc' = "idle"
          /\ UNCHANGED <<disk, users, env, listed, at, draft, edited, failed, before, edits>>
      BY <1>8, <2>2 DEF FinishLoad
    <3>2. Validate(draft) /\ users \subseteq DOMAIN Passwd /\ draft \in Seq(ServiceDef) /\ failed = None
      BY <3>1 DEF CheckInv, LoadType, KeptInv
    <3>3. config' \in Seq(ServiceDef) /\ ConfigInv'
      BY <2>2, <3>1, <3>2, PrepareSecuritySound DEF ConfigInv
    <3>4. LoadType'
      BY <3>1, <3>3 DEF LoadType
    <3>5. KeptInv' /\ CheckInv'
      BY <3>1, <3>2 DEF KeptInv, KeepOld, CheckInv
    <3> QED BY <3>3, <3>4, <3>5
  <2> QED BY <2>1, <2>2
<1>9. CASE Change
  <2>1. disk' \in Disk /\ users' \subseteq DOMAIN Passwd
    BY <1>9, DiskAssumption DEF Change, LoadType
  <2>2. LoadType'
    BY <1>9, <2>1 DEF LoadType, Change
  <2>3. KeptInv' /\ CheckInv' /\ ConfigInv'
    BY <1>9 DEF KeptInv, KeepOld, CheckInv, ConfigInv, Change
  <2> QED BY <2>2, <2>3
<1> QED BY <1>1, <1>2, <1>3, <1>4, <1>5, <1>6, <1>7, <1>8, <1>9 DEF Load

----------------------------------------------------------------------------
(* What a load gathers from the files.                                      *)

\* The file at place i when the files hold d, and the names up to place m.
FileIn(d, i) ==
    IF i = 0 THEN d.main
    ELSE IF d.dropins[DropinOrder[i]] = None THEN <<>> ELSE d.dropins[DropinOrder[i]]
UpTo(d, m) == UNION {Named(FileIn(d, i)) : i \in 0..m}

\* s is the last definition of its name in the last file up to m that has one.
Word(d, m, s) ==
    \E f \in 0..m :
        /\ Says(FileIn(d, f), Len(FileIn(d, f)), s)
        /\ \A g \in 0..m : f < g => s.name \notin Named(FileIn(d, g))

\* The files up to m could be read, and cs has what they say; a name that is
\* there twice is for validate to find.
Gathered(d, cs, m) ==
    /\ \A i \in 0..m : FileIn(d, i) \in Seq(ServiceDef)
    /\ Once(cs) => /\ Named(cs) = UpTo(d, m)
                   /\ \A i \in DOMAIN cs : Word(d, m, cs[i])

\* c is the definition s with the override's word and some identity.
Amended(d, c, s) ==
    c = [s EXCEPT !.enabled = IF s.name \in DOMAIN d.override THEN d.override[s.name] ELSE s.enabled,
                  !.identity = c.identity]

\* All the files and the override could be read, and cs has what they say.
Settled(d, cs) ==
    /\ \A i \in Places : FileIn(d, i) \in Seq(ServiceDef)
    /\ Once(cs) => /\ Named(cs) = UpTo(d, Len(DropinOrder))
                   /\ \A i \in DOMAIN cs : \E s \in ServiceDef :
                         Word(d, Len(DropinOrder), s) /\ Amended(d, cs[i], s)

\* The drop-ins that are there.
There(d) == {i \in DOMAIN DropinOrder : d.dropins[DropinOrder[i]] # None}

\* A load that nothing interferes with has read the files in their order.
GatherInv ==
    ~edited =>
        /\ lpc \in {"main", "list"} => at = 0
        /\ lpc = "list" => Gathered(disk, draft, 0)
        /\ lpc = "dropins" => at \in Places /\ listed = There(disk) /\ Gathered(disk, draft, at)
        /\ lpc \in {"validate", "env", "security"} => Settled(disk, draft)
        /\ Ready => Settled(disk, config) /\ Once(config)

\* A file that is not there says nothing.
LEMMA GatherSkip ==
    ASSUME NEW d, NEW cs, NEW m \in Places, NEW k \in Places, m <= k, Gathered(d, cs, m),
           \A i \in 1..k : m < i => i \notin There(d)
    PROVE  Gathered(d, cs, k)
<1>1. Len(DropinOrder) \in Nat /\ DOMAIN DropinOrder = 1..Len(DropinOrder)
  BY OrderAssumption
<1>2. m \in Nat /\ k \in Nat /\ k <= Len(DropinOrder)
  BY <1>1 DEF Places
<1>3. \A i \in 0..k : i \in 0..m \/ FileIn(d, i) = <<>>
  <2> SUFFICES ASSUME NEW i \in 0..k, i \notin 0..m PROVE FileIn(d, i) = <<>>
    OBVIOUS
  <2>1. i \in 1..k /\ m < i /\ i # 0 /\ i \in DOMAIN DropinOrder
    BY <1>1, <1>2
  <2>2. d.dropins[DropinOrder[i]] = None
    BY <2>1 DEF There
  <2> QED BY <2>1, <2>2 DEF FileIn
<1>4. \A i \in 0..m : i \in 0..k
  BY <1>2
<1>5. Named(<<>>) = {}
  BY DEF Named
<1>6. \A i \in 0..k : FileIn(d, i) \in Seq(ServiceDef)
  <2>1. <<>> \in Seq(ServiceDef)
    OBVIOUS
  <2> QED BY <1>3, <2>1, Zenon DEF Gathered
<1>7. UpTo(d, k) = UpTo(d, m)
  <2>1. \A i \in 0..k : Named(FileIn(d, i)) \subseteq UpTo(d, m)
    BY <1>3, <1>5 DEF UpTo
  <2>2. \A i \in 0..m : Named(FileIn(d, i)) \subseteq UpTo(d, k)
    BY <1>4 DEF UpTo
  <2> QED BY <2>1, <2>2 DEF UpTo
<1>8. ASSUME NEW s, Word(d, m, s) PROVE Word(d, k, s)
  <2>1. PICK f \in 0..m : /\ Says(FileIn(d, f), Len(FileIn(d, f)), s)
                          /\ \A g \in 0..m : f < g => s.name \notin Named(FileIn(d, g))
    BY <1>8 DEF Word
  <2>2. \A g \in 0..k : f < g => s.name \notin Named(FileIn(d, g))
    BY <1>3, <1>5, <2>1
  <2> QED BY <1>4, <2>1, <2>2 DEF Word
<1> QED BY <1>6, <1>7, <1>8 DEF Gathered

\* A drop-in that is merged is the last so far.
LEMMA GatherMerge ==
    ASSUME NEW d, NEW k \in Places, k # 0, NEW cs \in Seq(ServiceDef), Gathered(d, cs, k - 1),
           FileIn(d, k) \in Seq(ServiceDef)
    PROVE  Gathered(d, Merge(cs, FileIn(d, k)), k)
<1> DEFINE file == FileIn(d, k)
           t == Merge(cs, file)
<1>1. k \in Nat /\ k - 1 \in Nat
  BY OrderAssumption DEF Places
<1>2. PutAll(cs, file, Len(file), t)
  BY MergeFacts
<1> HIDE DEF t
<1>3. /\ \A i \in 0..k : i = k \/ i \in 0..(k - 1)
      /\ \A i \in 0..(k - 1) : i \in 0..k /\ i < k
      /\ k \in 0..k
  BY <1>1
<1>4. \A i \in 0..k : FileIn(d, i) \in Seq(ServiceDef)
  BY <1>3, Zenon DEF Gathered
<1>5. DOMAIN file = 1..Len(file)
  OBVIOUS
<1>6. UpTo(d, k) = UpTo(d, k - 1) \cup Named(file)
  BY <1>3, Zenon DEF UpTo
<1> HIDE DEF file
<1>7. ASSUME Once(t) PROVE Named(t) = UpTo(d, k)
  <2>1. Once(cs) /\ \A n : n \in Named(t) <=> n \in Named(cs) \/ \E p \in 1..Len(file) : file[p].name = n
    BY <1>2, <1>7 DEF PutAll
  <2>2. Named(cs) = UpTo(d, k - 1)
    BY <2>1 DEF Gathered
  <2>3. \A n : n \in Named(file) <=> \E p \in 1..Len(file) : file[p].name = n
    BY <1>5 DEF Named
  <2> QED BY <1>6, <2>1, <2>2, <2>3
<1>8. ASSUME Once(t), NEW j \in DOMAIN t PROVE Word(d, k, t[j])
  <2>1. CASE Says(file, Len(file), t[j])
    <3>1. \A g \in 0..k : ~(k < g)
      BY <1>1
    <3> QED BY <1>3, <2>1, <3>1 DEF Word, file
  <2>2. CASE (\A p \in 1..Len(file) : file[p].name # t[j].name) /\ \E i \in DOMAIN cs : t[j] = cs[i]
    <3>1. PICK i \in DOMAIN cs : t[j] = cs[i]
      BY <2>2
    <3>2. Once(cs)
      BY <1>2, <1>8 DEF PutAll
    <3>3. Word(d, k - 1, t[j])
      BY <3>1, <3>2 DEF Gathered
    <3>4. PICK f \in 0..(k - 1) : /\ Says(FileIn(d, f), Len(FileIn(d, f)), t[j])
                                  /\ \A g \in 0..(k - 1) : f < g => t[j].name \notin Named(FileIn(d, g))
      BY <3>3 DEF Word
    <3>5. t[j].name \notin Named(file)
      BY <1>5, <2>2 DEF Named
    <3>6. \A g \in 0..k : f < g => t[j].name \notin Named(FileIn(d, g))
      BY <1>3, <3>4, <3>5 DEF file
    <3> QED BY <1>3, <3>4, <3>6 DEF Word
  <2> QED BY <1>2, <1>8, <2>1, <2>2 DEF PutAll
<1>9. Gathered(d, t, k)
  BY <1>4, <1>7, <1>8 DEF Gathered
<1> QED BY <1>9 DEF t, file

\* The main file alone.
LEMMA GatherMain ==
    ASSUME NEW d, d.main \in Seq(ServiceDef)
    PROVE  Gathered(d, d.main, 0)
<1> DEFINE m == d.main
<1>1. FileIn(d, 0) = m
  BY DEF FileIn
<1>2. 0..0 = {0}
  OBVIOUS
<1>3. UpTo(d, 0) = Named(m)
  BY <1>1, <1>2 DEF UpTo
<1>4. ASSUME Once(m), NEW i \in DOMAIN m PROVE Word(d, 0, m[i])
  <2>1. DOMAIN m = 1..Len(m)
    OBVIOUS
  <2> HIDE DEF m
  <2>2. \A q \in 1..Len(m) : i < q => m[q].name # m[i].name
    BY <1>4, <2>1 DEF Once
  <2>3. Says(m, Len(m), m[i])
    BY <2>1, <2>2 DEF Says
  <2>4. \A g \in 0..0 : ~(0 < g)
    OBVIOUS
  <2> QED BY <1>1, <1>2, <2>3, <2>4 DEF Word
<1> QED BY <1>1, <1>2, <1>3, <1>4 DEF Gathered

\* A list whose services have the names of another, one by one.
LEMMA SameNames ==
    ASSUME NEW cs, NEW t, DOMAIN t = DOMAIN cs, \A i \in DOMAIN cs : t[i].name = cs[i].name
    PROVE  Named(t) = Named(cs) /\ (Once(t) <=> Once(cs))
BY DEF Named, Once

\* A service with the override's word.
Overridden(d, s) ==
    IF s.name \in DOMAIN d.override THEN [s EXCEPT !.enabled = d.override[s.name]] ELSE s

\* A service with an identity.
WithIdentity(s, x) == [s EXCEPT !.identity = x]

\* It is the definition it was but for that word.
LEMMA AmendedOverride ==
    ASSUME NEW d, NEW s \in ServiceDef
    PROVE  Amended(d, Overridden(d, s), s) /\ Overridden(d, s).name = s.name
<1> DEFINE w == IF s.name \in DOMAIN d.override THEN d.override[s.name] ELSE s.enabled
<1>1. [s EXCEPT !.enabled = w, !.identity = s.identity] = [s EXCEPT !.enabled = w]
  BY DEF ServiceDef
<1>2. [s EXCEPT !.enabled = w].identity = s.identity /\ [s EXCEPT !.enabled = w].name = s.name
  BY DEF ServiceDef
<1>3. w = s.enabled => [s EXCEPT !.enabled = w] = s
  BY DEF ServiceDef
<1>4. Overridden(d, s) = [s EXCEPT !.enabled = w]
  BY <1>3 DEF Overridden
<1>5. Amended(d, [s EXCEPT !.enabled = w], s)
  BY <1>1, <1>2 DEF Amended
<1> QED BY <1>2, <1>4, <1>5, Zenon

\* And so it is when it is given an identity.
LEMMA AmendedIdentity ==
    ASSUME NEW d, NEW s \in ServiceDef, NEW c, NEW x, Amended(d, c, s)
    PROVE  Amended(d, WithIdentity(c, x), s) /\ WithIdentity(c, x).name = c.name
<1> DEFINE w == IF s.name \in DOMAIN d.override THEN d.override[s.name] ELSE s.enabled
<1>1. \A y : LET r == [s EXCEPT !.enabled = w, !.identity = y]
             IN  /\ r.identity = y /\ r.name = s.name
                 /\ [r EXCEPT !.identity = x] = [s EXCEPT !.enabled = w, !.identity = x]
  BY DEF ServiceDef
<1>2. c = [s EXCEPT !.enabled = w, !.identity = c.identity]
  BY DEF Amended
<1> HIDE DEF w
<1>3. [c EXCEPT !.identity = x] = [s EXCEPT !.enabled = w, !.identity = x] /\ c.name = s.name
  BY <1>1, <1>2
<1>4. [s EXCEPT !.enabled = w, !.identity = x].identity = x /\ [s EXCEPT !.enabled = w, !.identity = x].name = s.name
  BY <1>1
<1> QED BY <1>3, <1>4 DEF Amended, WithIdentity, w

\* The override is applied to what the files say.
LEMMA SettleOverride ==
    ASSUME NEW d, NEW cs \in Seq(ServiceDef), Gathered(d, cs, Len(DropinOrder))
    PROVE  Settled(d, Override(cs, d.override))
<1> DEFINE t == Override(cs, d.override)
<1>1. /\ DOMAIN t = DOMAIN cs /\ \A i \in DOMAIN cs : cs[i] \in ServiceDef
      /\ \A i \in DOMAIN cs : t[i] = Overridden(d, cs[i])
  BY DEF Override, Overridden
<1> HIDE DEF t
<1>2. \A i \in DOMAIN cs : Amended(d, t[i], cs[i]) /\ t[i].name = cs[i].name
  <2> TAKE i \in DOMAIN cs
  <2>1. Amended(d, Overridden(d, cs[i]), cs[i]) /\ Overridden(d, cs[i]).name = cs[i].name
    BY <1>1, AmendedOverride, Zenon
  <2> QED BY <1>1, <2>1
<1>3. Named(t) = Named(cs) /\ (Once(t) <=> Once(cs))
  BY <1>1, <1>2, SameNames
<1>4. Settled(d, t)
  BY <1>1, <1>2, <1>3 DEF Settled, Gathered, Places
<1> QED BY <1>4 DEF t

\* The identities change nothing else.
LEMMA SettlePrepare ==
    ASSUME NEW d, NEW cs \in Seq(ServiceDef), Settled(d, cs), Once(cs)
    PROVE  Settled(d, PrepareSecurity(cs)) /\ Once(PrepareSecurity(cs))
<1> DEFINE t == PrepareSecurity(cs)
<1>1. DOMAIN t = DOMAIN cs /\ \A i \in DOMAIN cs : \E x : t[i] = [cs[i] EXCEPT !.identity = x]
  BY DEF PrepareSecurity, Prepared
<1> HIDE DEF t
<1>2. ASSUME NEW i \in DOMAIN cs
      PROVE  /\ t[i].name = cs[i].name
             /\ \E s \in ServiceDef : Word(d, Len(DropinOrder), s) /\ Amended(d, t[i], s)
  <2>1. PICK x : t[i] = [cs[i] EXCEPT !.identity = x]
    BY <1>1
  <2>2. PICK s \in ServiceDef : Word(d, Len(DropinOrder), s) /\ Amended(d, cs[i], s)
    BY DEF Settled
  <2>3. /\ Amended(d, [cs[i] EXCEPT !.identity = x], s)
        /\ [cs[i] EXCEPT !.identity = x].name = cs[i].name
    <3>1. Amended(d, WithIdentity(cs[i], x), s) /\ WithIdentity(cs[i], x).name = cs[i].name
      BY <2>2, AmendedIdentity
    <3> QED BY <3>1 DEF WithIdentity
  <2> QED BY <2>1, <2>2, <2>3
<1>3. Named(t) = Named(cs) /\ Once(t)
  BY <1>1, <1>2, SameNames
<1>4. Settled(d, t)
  BY <1>1, <1>2, <1>3 DEF Settled
<1> QED BY <1>3, <1>4 DEF t

\* Each step of a load gathers what it should.
LEMMA GatherStep ==
    ASSUME LoadInv, GatherInv, Load \/ Change
    PROVE  GatherInv'
<1>1. Len(DropinOrder) \in Nat /\ DOMAIN DropinOrder = 1..Len(DropinOrder)
  BY OrderAssumption
<1>2. CASE Fail /\ lpc \in {"main", "dropins", "validate", "security"}
  <2>1. lpc' = "idle" /\ failed' # None
    BY <1>2, NoneAssumption DEF Fail, LoadSteps
  <2> QED BY <2>1 DEF GatherInv, Ready
<1>3. CASE Begin \/ Change
  BY <1>3 DEF GatherInv, Ready, Begin, Change
<1>4. CASE ReadMain /\ ~Fail
  <2>1. /\ lpc = "main" /\ lpc' = "list" /\ disk.main # Broken /\ UNCHANGED <<at, edited>>
        /\ draft' = (IF disk.main = None THEN <<>> ELSE disk.main)
        /\ disk' = [disk EXCEPT !.main = IF disk.main = None THEN <<>> ELSE disk.main]
    BY <1>4 DEF ReadMain
  <2>2. disk \in Disk /\ disk.main \in Contents
    BY DEF LoadInv, LoadType, Disk
  <2>3. draft' \in Seq(ServiceDef) /\ disk'.main = draft'
    BY <2>1, <2>2 DEF Contents, Disk
  <2>4. Gathered(disk', draft', 0)
    BY <2>3, GatherMain
  <2> QED BY <2>1, <2>4 DEF GatherInv, Ready
<1>5. CASE ListDropins
  <2>1. /\ lpc = "list" /\ lpc' = "dropins" /\ listed' = There(disk) /\ UNCHANGED <<disk, at, draft, edited>>
    BY <1>5 DEF ListDropins, There
  <2>2. 0 \in Places
    BY <1>1 DEF Places
  <2> QED BY <2>1, <2>2 DEF GatherInv, Ready
<1>6. CASE ReadDropin /\ ~Fail
  <2>1. PICK i \in Unread :
           /\ \A j \in Unread : i <= j
           /\ disk.dropins[DropinOrder[i]] \notin {None, Broken}
           /\ at' = i /\ draft' = Merge(draft, disk.dropins[DropinOrder[i]])
           /\ UNCHANGED <<disk, lpc, listed, edited>>
    BY <1>6 DEF ReadDropin
  <2>2. lpc = "dropins"
    BY <1>6 DEF ReadDropin
  <2> SUFFICES ASSUME ~edited PROVE at' \in Places /\ Gathered(disk', draft', at') /\ listed' = There(disk')
    BY <2>1, <2>2 DEF GatherInv, Ready
  <2>3. at \in Places /\ listed = There(disk) /\ Gathered(disk, draft, at)
    BY <2>1, <2>2 DEF GatherInv
  <2>4. i \in There(disk) /\ i \in 1..Len(DropinOrder) /\ at < i /\ at \in Nat /\ i \in Nat /\ i # 0
    BY <1>1, <2>1, <2>3 DEF Unread, There, Places
  <2>5. i \in Places /\ i - 1 \in Places /\ at <= i - 1
    BY <1>1, <2>4 DEF Places
  <2>6. ASSUME NEW j \in 1..(i - 1), at < j PROVE j \notin There(disk)
    <3>1. ~(i <= j)
      BY <2>4
    <3>2. j \notin Unread
      BY <2>1, <3>1
    <3> QED BY <2>3, <2>6, <3>2 DEF Unread
  <2>7. Gathered(disk, draft, i - 1)
    BY <2>3, <2>5, <2>6, GatherSkip
  <2> DEFINE file == disk.dropins[DropinOrder[i]]
  <2>8. FileIn(disk, i) = file
    BY <2>1, <2>4 DEF FileIn
  <2>9. file \in Seq(ServiceDef)
    <3>1. DropinOrder[i] \in Paths
      BY <1>1, <2>4 DEF Paths
    <3>2. file \in Contents
      BY <3>1 DEF LoadInv, LoadType, Disk
    <3> QED BY <2>1, <3>2 DEF Contents
  <2>10. draft \in Seq(ServiceDef)
    BY DEF LoadInv, LoadType
  <2>11. Gathered(disk, Merge(draft, file), i)
    BY <2>4, <2>5, <2>7, <2>8, <2>9, <2>10, GatherMerge
  <2> QED BY <2>1, <2>3, <2>5, <2>11
<1>7. CASE ReadOverride /\ ~Fail
  <2>1. /\ lpc = "dropins" /\ lpc' = "validate" /\ Unread = {} /\ disk.override # Broken
        /\ draft' = Override(draft, disk.override) /\ UNCHANGED <<disk, edited>>
    BY <1>7 DEF ReadOverride
  <2> SUFFICES ASSUME ~edited PROVE Settled(disk', draft')
    BY <2>1 DEF GatherInv, Ready
  <2>2. at \in Places /\ listed = There(disk) /\ Gathered(disk, draft, at)
    BY <2>1 DEF GatherInv
  <2>3. Len(DropinOrder) \in Places /\ at <= Len(DropinOrder)
    BY <1>1, <2>2 DEF Places
  <2>4. \A i \in 1..Len(DropinOrder) : at < i => i \notin There(disk)
    BY <2>1, <2>2 DEF Unread
  <2>5. Gathered(disk, draft, Len(DropinOrder))
    BY <2>2, <2>3, <2>4, GatherSkip
  <2>6. disk.override \in Overrides /\ draft \in Seq(ServiceDef)
    BY <2>1 DEF LoadInv, LoadType, Disk
  <2> QED BY <2>1, <2>5, <2>6, SettleOverride
<1>8. CASE (ValidateDraft /\ ~Fail) \/ InstallEnv
  <2>1. /\ lpc \in {"validate", "env"} /\ lpc' \in {"env", "security"} /\ UNCHANGED <<disk, draft, edited>>
    BY <1>8 DEF ValidateDraft, InstallEnv
  <2> QED BY <2>1 DEF GatherInv, Ready
<1>9. CASE FinishLoad /\ ~Fail
  <2>1. /\ lpc = "security" /\ lpc' = "idle" /\ config' = PrepareSecurity(draft) /\ UNCHANGED <<disk, edited>>
    BY <1>9 DEF FinishLoad
  <2> SUFFICES ASSUME ~edited PROVE Settled(disk', config') /\ Once(config')
    BY <2>1 DEF GatherInv, Ready
  <2>2. Once(draft)
    BY <2>1 DEF LoadInv, CheckInv, Validate, Once
  <2>3. Settled(disk, draft) /\ draft \in Seq(ServiceDef)
    BY <2>1 DEF GatherInv, LoadInv, LoadType
  <2> QED BY <2>1, <2>2, <2>3, SettlePrepare
<1> QED
  BY <1>2, <1>3, <1>4, <1>5, <1>6, <1>7, <1>8, <1>9
  DEF Load, ReadMain, ReadDropin, ReadOverride, ValidateDraft, FinishLoad

----------------------------------------------------------------------------
(* The child.                                                               *)

\* A child, and what is left of one, has a sound definition.
SvcInv == cpc # "idle" => Sound(svc)

\* Until the first step, and for good when nothing is to be changed, a child
\* has the credentials of microinit.
OwnInv ==
    /\ cpc = "cloned" => creds = daemon
    /\ cpc \in Steps \ {"exec"} => ~Unchanged
    /\ cpc = "exec" /\ Unchanged => creds = daemon

\* The groups an identity comes to.
GroupsOf == IF Ident.named THEN Passwd[Ident.name].groups \cup {Ident.gid} ELSE {}

\* The steps that have not come yet leave their part as it was; those that have
\* come did theirs.
BeforeGroups == {"keepcaps", "bounding", "groups"}
BeforeGid == BeforeGroups \cup {"setgid"}
BeforeUid == BeforeGid \cup {"setuid"}

\* Group, groups and user.
IdInv ==
    cpc \in Steps /\ ~Unchanged =>
        /\ creds.groups = IF cpc \in BeforeGroups \/ ~DropsIdentity THEN daemon.groups ELSE GroupsOf
        /\ creds.gid = IF cpc \in BeforeGid \/ Ident.gid = None THEN daemon.gid ELSE Ident.gid
        /\ creds.uid = IF cpc \in BeforeUid \/ Ident.uid = None THEN daemon.uid ELSE Ident.uid

\* Capabilities: all there until the user changes, kept over that when some are
\* asked for, and then exactly those.
CapInv ==
    cpc \in Steps /\ ~Unchanged =>
        /\ cpc \in BeforeUid => creds.effective = daemon.effective /\ creds.permitted = daemon.permitted
        /\ WantCaps /\ cpc \in BeforeUid \ {"keepcaps"} => creds.keep
        /\ cpc = "capset" /\ WantCaps => creds.permitted = daemon.permitted
        /\ cpc \in {"privs", "exec"} =>
              creds.permitted = Ident.caps /\ creds.effective = Ident.caps /\ creds.ambient = Ident.caps
        /\ cpc = "exec" => creds.nnp

\* All of it, with what a refusal means.
ChildInv == ChildType /\ SvcInv /\ OwnInv /\ IdInv /\ CapInv /\ OrderWorks

\* What a step of apply_pre_exec may rely on: an identity of known
\* capabilities, of which something is to be applied.
LEMMA IdentFacts ==
    ASSUME SvcInv, OwnInv, cpc \in Steps \ {"exec"}
    PROVE  /\ Ident \in Identity /\ Ident.caps \subseteq CapNames /\ (WantCaps \/ DropsIdentity)
           /\ Ident.named => Ident.name \in DOMAIN Passwd /\ Ident.gid \in Nat
<1>1. ~Unchanged /\ Sound(svc)
  BY DEF SvcInv, OwnInv, Steps
<1>2. svc.identity # None /\ svc.context # None /\ Meets(svc.context, svc.identity)
  BY <1>1 DEF Unchanged, Ident, Sound
<1>3. svc.context.caps \subseteq CapNames
  BY <1>1, <1>2 DEF Sound, ServiceValid, ContextValid
<1>4. WantCaps \/ DropsIdentity
  BY <1>1 DEF Unchanged, WantCaps, DropsIdentity
<1> QED BY <1>2, <1>3, <1>4 DEF Meets, Ident

\* What microinit runs with.
LEMMA DaemonFacts ==
    ASSUME daemon \in Daemons
    PROVE  /\ daemon \in Credentials /\ daemon.effective \subseteq daemon.permitted
           /\ daemon.ambient \subseteq daemon.permitted
BY DaemonAssumption

\* The parts of the invariant that hold whatever a load does.
LEMMA ChildStutter ==
    ASSUME ChildInv, UNCHANGED <<daemon, childVars>>
    PROVE  ChildInv'
BY DEF ChildInv, ChildType, SvcInv, OwnInv, IdInv, CapInv, OrderWorks, childVars, Unchanged, WantCaps,
   DropsIdentity, Ident, GroupsOf

\* A step that is done leaves new credentials that satisfy the rest of the
\* invariant: this is what has to be shown of each.
StepKeeps(next, c) ==
    /\ c \in Credentials /\ c.effective \subseteq c.permitted /\ c.ambient \subseteq c.permitted
    /\ c.groups = IF next \in BeforeGroups \/ ~DropsIdentity THEN daemon.groups ELSE GroupsOf
    /\ c.gid = IF next \in BeforeGid \/ Ident.gid = None THEN daemon.gid ELSE Ident.gid
    /\ c.uid = IF next \in BeforeUid \/ Ident.uid = None THEN daemon.uid ELSE Ident.uid
    /\ next \in BeforeUid => c.effective = daemon.effective /\ c.permitted = daemon.permitted
    /\ WantCaps /\ next \in BeforeUid \ {"keepcaps"} => c.keep
    /\ next = "capset" /\ WantCaps => c.permitted = daemon.permitted
    /\ next \in {"privs", "exec"} =>
          c.permitted = Ident.caps /\ c.effective = Ident.caps /\ c.ambient = Ident.caps
    /\ next = "exec" => c.nnp

\* The credentials a step finds.
LEMMA StepFinds ==
    ASSUME ChildInv, cpc \in Steps \ {"exec"}
    PROVE  StepKeeps(cpc, creds)
BY DEF ChildInv, ChildType, OwnInv, IdInv, CapInv, StepKeeps, Steps

\* A step that goes on keeps the invariant when its credentials are right.
LEMMA GoesOn ==
    ASSUME ChildInv, cpc \in Steps \ {"exec"}, cpc' \in Steps, StepKeeps(cpc', creds'),
           UNCHANGED <<daemon, svc, refused, faults, spawns>>
    PROVE  ChildInv'
<1>1. ~Unchanged /\ ~Unchanged'
  BY DEF ChildInv, OwnInv, Unchanged, WantCaps, Ident
<1>2. ChildType'
  BY DEF ChildInv, ChildType, StepKeeps
<1>3. SvcInv' /\ OrderWorks'
  BY DEF ChildInv, SvcInv, OrderWorks, Steps
<1>4. OwnInv'
  BY <1>1 DEF OwnInv, Steps
<1>5. IdInv'
  BY DEF IdInv, StepKeeps, DropsIdentity, Ident, GroupsOf
<1>6. CapInv'
  BY DEF CapInv, StepKeeps, WantCaps, Ident
<1> QED BY <1>2, <1>3, <1>4, <1>5, <1>6 DEF ChildInv

\* A step that is refused ends the child; it is a fault, or it was not allowed.
LEMMA Refused ==
    ASSUME ChildInv, cpc \in Steps, cpc' = "failed", creds' = creds, UNCHANGED <<daemon, svc, spawns>>,
           refused' \in BOOLEAN, faults' \in Nat, refused' \/ daemon.effective # CapNames
    PROVE  ChildInv'
BY DEF ChildInv, ChildType, SvcInv, OwnInv, IdInv, CapInv, OrderWorks, Steps

\* A step that is allowed with every capability and whose result is right keeps
\* the invariant.
LEMMA StepStep ==
    ASSUME ChildInv, NEW here \in Steps \ {"exec"}, NEW next \in Steps, NEW asked, NEW allowed, NEW result,
           Step(here, next, asked, allowed, result),
           here = cpc /\ ~asked => StepKeeps(next, creds),
           here = cpc /\ asked /\ allowed => StepKeeps(next, result),
           here = cpc /\ asked /\ daemon.effective = CapNames => allowed
    PROVE  ChildInv'
<1>1. cpc = here /\ UNCHANGED <<daemon, svc, spawns>> /\ refused \in BOOLEAN /\ faults \in Nat
  BY DEF Step, ChildInv, ChildType
<1>2. CASE ~asked /\ cpc' = next /\ UNCHANGED <<creds, refused, faults>>
  BY <1>1, <1>2, GoesOn
<1>3. CASE asked /\ allowed /\ cpc' = next /\ creds' = result /\ UNCHANGED <<refused, faults>>
  BY <1>1, <1>3, GoesOn
<1>4. CASE asked /\ ~allowed /\ cpc' = "failed" /\ UNCHANGED <<creds, refused, faults>>
  BY <1>1, <1>4, Refused
<1>5. CASE /\ asked /\ faults' = faults + 1 /\ refused' = TRUE /\ cpc' = "failed" /\ creds' = creds
  BY <1>1, <1>5, Refused
<1> QED BY <1>2, <1>3, <1>4, <1>5 DEF Step

\* The steps of apply_pre_exec, one after the other.
LEMMA ApplySteps ==
    ASSUME ChildInv,
           KeepCaps \/ DropBounding \/ ApplyGroups \/ ApplyGid \/ ApplyUid \/ SetCapabilities \/ NoNewPrivs
    PROVE  ChildInv'
<1>1. CASE KeepCaps
  <2> DEFINE c == [creds EXCEPT !.keep = TRUE]
  <2>1. cpc = "keepcaps" /\ StepKeeps("keepcaps", creds)
    BY <1>1, StepFinds DEF KeepCaps, Step, Steps
  <2>2. StepKeeps("bounding", c)
    BY <2>1 DEF StepKeeps, Credentials, BeforeUid, BeforeGid, BeforeGroups
  <2>3. ~WantCaps => StepKeeps("bounding", creds)
    BY <2>1 DEF StepKeeps, BeforeUid, BeforeGid, BeforeGroups
  <2>4. Step("keepcaps", "bounding", WantCaps, TRUE, c)
    BY <1>1 DEF KeepCaps
  <2> HIDE DEF c
  <2> QED BY <2>2, <2>3, <2>4, StepStep DEF Steps
<1>2. CASE DropBounding
  <2> DEFINE c == [creds EXCEPT !.bounding = IF May("setpcap") THEN @ \cap Ident.caps ELSE @]
  <2>1. cpc = "bounding" /\ cpc' = "groups" /\ creds' = c /\ UNCHANGED <<daemon, svc, refused, faults, spawns>>
    BY <1>2 DEF DropBounding
  <2>2. StepKeeps("bounding", creds)
    BY <2>1, StepFinds DEF Steps
  <2>3. StepKeeps("groups", c)
    <3> DEFINE b == IF May("setpcap") THEN creds.bounding \cap Ident.caps ELSE creds.bounding
    <3>1. b \in SUBSET CapNames /\ c = [creds EXCEPT !.bounding = b]
      BY <2>2 DEF StepKeeps, Credentials
    <3> HIDE DEF b, c
    <3> QED BY <2>2, <3>1 DEF StepKeeps, Credentials, BeforeUid, BeforeGid, BeforeGroups
  <2> HIDE DEF c
  <2> QED BY <2>1, <2>3, GoesOn DEF Steps
<1>3. CASE ApplyGroups
  <2> DEFINE c == [creds EXCEPT !.groups = IF Ident.named THEN Passwd[Ident.name].groups \cup {Ident.gid} ELSE {}]
  <2>1. cpc = "groups" /\ StepKeeps("groups", creds)
    BY <1>3, StepFinds DEF ApplyGroups, Step, Steps
  <2>2. DropsIdentity => StepKeeps("setgid", c)
    <3>1. GroupsOf \in SUBSET Nat /\ c = [creds EXCEPT !.groups = GroupsOf]
      BY <2>1, IdentFacts, UserAssumption DEF ChildInv, GroupsOf, Steps
    <3> HIDE DEF c
    <3> QED BY <2>1, <3>1 DEF StepKeeps, Credentials, BeforeUid, BeforeGid, BeforeGroups
  <2>3. ~DropsIdentity => StepKeeps("setgid", creds)
    BY <2>1 DEF StepKeeps, BeforeUid, BeforeGid, BeforeGroups
  <2>4. daemon.effective = CapNames => May("setgid")
    BY <2>1, DaemonAssumption DEF StepKeeps, May, BeforeUid, BeforeGid, BeforeGroups
  <2>5. Step("groups", "setgid", DropsIdentity, May("setgid"), c)
    BY <1>3 DEF ApplyGroups
  <2> HIDE DEF c
  <2> QED BY <2>2, <2>3, <2>4, <2>5, StepStep DEF Steps
<1>4. CASE ApplyGid
  <2> DEFINE c == [creds EXCEPT !.gid = Ident.gid]
  <2>1. cpc = "setgid" /\ StepKeeps("setgid", creds)
    BY <1>4, StepFinds DEF ApplyGid, Step, Steps
  <2>2. Ident.gid # None => StepKeeps("setuid", c)
    <3>1. Ident.gid \in {None} \cup Nat
      BY <2>1, IdentFacts DEF ChildInv, Identity, Steps
    <3> QED BY <2>1, <3>1 DEF StepKeeps, Credentials, BeforeUid, BeforeGid, BeforeGroups
  <2>3. Ident.gid = None => StepKeeps("setuid", creds)
    BY <2>1 DEF StepKeeps, BeforeUid, BeforeGid, BeforeGroups
  <2>4. daemon.effective = CapNames => May("setgid")
    BY <2>1, DaemonAssumption DEF StepKeeps, May, BeforeUid, BeforeGid, BeforeGroups
  <2>5. Step("setgid", "setuid", Ident.gid # None, May("setgid") \/ creds.gid = Ident.gid, c)
    BY <1>4 DEF ApplyGid
  <2> HIDE DEF c
  <2> QED BY <2>2, <2>3, <2>4, <2>5, StepStep DEF Steps
<1>5. CASE ApplyUid
  <2> DEFINE c == SetUid(creds, Ident.uid)
  <2>1. cpc = "setuid" /\ StepKeeps("setuid", creds)
    BY <1>5, StepFinds DEF ApplyUid, Step, Steps
  <2>2. Ident.uid # None => StepKeeps("capset", c)
    <3> SUFFICES ASSUME Ident.uid # None PROVE StepKeeps("capset", c)
      OBVIOUS
    <3>1. Ident.uid \in Nat
      BY <2>1, IdentFacts DEF ChildInv, Identity, Steps
    <3>2. CASE creds.uid = 0 /\ Ident.uid # 0
      <4> DEFINE p == IF creds.keep THEN creds.permitted ELSE {}
      <4>1. c = [creds EXCEPT !.uid = Ident.uid, !.effective = {}, !.ambient = {}, !.permitted = p]
        BY <3>2 DEF SetUid
      <4>2. p \in SUBSET CapNames /\ (creds.keep => p = creds.permitted)
        BY <2>1 DEF StepKeeps, Credentials
      <4> HIDE DEF p, c
      <4>3. /\ c \in Credentials /\ c.uid = Ident.uid /\ c.effective = {} /\ c.ambient = {} /\ c.permitted = p
            /\ c.groups = creds.groups /\ c.gid = creds.gid
        BY <2>1, <3>1, <4>1, <4>2 DEF StepKeeps, Credentials
      <4> QED BY <2>1, <4>2, <4>3 DEF StepKeeps, BeforeUid, BeforeGid, BeforeGroups
    <3>3. CASE ~(creds.uid = 0 /\ Ident.uid # 0)
      <4>1. c = [creds EXCEPT !.uid = Ident.uid]
        BY <3>3 DEF SetUid
      <4> HIDE DEF c
      <4>2. /\ c \in Credentials /\ c.uid = Ident.uid /\ c.effective = creds.effective
            /\ c.ambient = creds.ambient /\ c.permitted = creds.permitted
            /\ c.groups = creds.groups /\ c.gid = creds.gid
        BY <2>1, <3>1, <4>1 DEF StepKeeps, Credentials
      <4> QED BY <2>1, <4>2 DEF StepKeeps, BeforeUid, BeforeGid, BeforeGroups
    <3> QED BY <3>2, <3>3
  <2>3. Ident.uid = None => StepKeeps("capset", creds)
    BY <2>1 DEF StepKeeps, BeforeUid, BeforeGid, BeforeGroups
  <2>4. daemon.effective = CapNames => May("setuid")
    BY <2>1, DaemonAssumption DEF StepKeeps, May, BeforeUid, BeforeGid, BeforeGroups
  <2>5. Step("setuid", "capset", Ident.uid # None, May("setuid") \/ creds.uid = Ident.uid, c)
    BY <1>5 DEF ApplyUid
  <2> HIDE DEF c
  <2> QED BY <2>2, <2>3, <2>4, <2>5, StepStep DEF Steps
<1>6. CASE SetCapabilities
  <2> DEFINE c == [creds EXCEPT !.permitted = Ident.caps, !.effective = Ident.caps, !.inheritable = Ident.caps,
                                !.ambient = Ident.caps]
  <2>1. cpc = "capset" /\ StepKeeps("capset", creds)
    BY <1>6, StepFinds DEF SetCapabilities, Step, Steps
  <2>2. Ident.caps \subseteq CapNames /\ (WantCaps \/ DropsIdentity)
    BY <2>1, IdentFacts DEF ChildInv, Steps
  <2>3. StepKeeps("privs", c)
    <3>1. /\ c \in Credentials /\ c.permitted = Ident.caps /\ c.effective = Ident.caps /\ c.ambient = Ident.caps
          /\ c.uid = creds.uid /\ c.gid = creds.gid /\ c.groups = creds.groups
      BY <2>1, <2>2 DEF StepKeeps, Credentials
    <3> HIDE DEF c
    <3> QED BY <2>1, <3>1 DEF StepKeeps, BeforeUid, BeforeGid, BeforeGroups
  <2>4. daemon.effective = CapNames => Ident.caps \subseteq creds.permitted
    <3>1. CASE WantCaps
      <4>1. creds.permitted = daemon.permitted /\ daemon.effective \subseteq daemon.permitted
        BY <2>1, <3>1, DaemonFacts DEF StepKeeps, ChildInv, ChildType
      <4> QED BY <2>2, <4>1
    <3>2. CASE ~WantCaps
      BY <3>2 DEF WantCaps
    <3> QED BY <3>1, <3>2
  <2>5. Step("capset", "privs", WantCaps \/ DropsIdentity, Ident.caps \subseteq creds.permitted, c)
    BY <1>6 DEF SetCapabilities
  <2> HIDE DEF c
  <2> QED BY <2>2, <2>3, <2>4, <2>5, StepStep DEF Steps
<1>7. CASE NoNewPrivs
  <2> DEFINE c == [creds EXCEPT !.nnp = TRUE]
  <2>1. cpc = "privs" /\ StepKeeps("privs", creds)
    BY <1>7, StepFinds DEF NoNewPrivs, Step, Steps
  <2>2. StepKeeps("exec", c)
    BY <2>1 DEF StepKeeps, Credentials, BeforeUid, BeforeGid, BeforeGroups
  <2>3. Step("privs", "exec", TRUE, TRUE, c)
    BY <1>7 DEF NoNewPrivs
  <2> HIDE DEF c
  <2> QED BY <2>2, <2>3, StepStep DEF Steps
<1> QED BY <1>1, <1>2, <1>3, <1>4, <1>5, <1>6, <1>7

\* A child begins with a definition of the configuration in use and the
\* credentials of microinit.
LEMMA CloneStep ==
    ASSUME ChildInv, LoadInv, CloneService
    PROVE  ChildInv'
<1>1. PICK i \in DOMAIN config : svc' = config[i]
  BY DEF CloneService
<1>2. Sound(svc')
  BY <1>1 DEF CloneService, LoadInv, ConfigInv
<1>3. cpc' = "cloned" /\ creds' = daemon /\ daemon' = daemon /\ refused' = FALSE /\ faults' = faults /\ spawns' = spawns + 1
  BY DEF CloneService
<1>4. ChildType'
  <2>1. ChildType /\ svc' \in ServiceDef
    BY <1>2 DEF ChildInv, Sound
  <2>2. /\ daemon \in Credentials /\ daemon.effective \subseteq daemon.permitted
        /\ daemon.ambient \subseteq daemon.permitted
    BY <2>1, DaemonFacts DEF ChildType
  <2>3. spawns' \in Nat /\ faults' \in Nat
    BY <1>3, <2>1 DEF ChildType
  <2>4. refused' \in BOOLEAN
    BY <1>3, Zenon
  <2> QED BY <1>3, <2>1, <2>2, <2>3, <2>4 DEF ChildType
<1> QED BY <1>2, <1>3, <1>4 DEF ChildInv, SvcInv, OwnInv, IdInv, CapInv, OrderWorks, Steps

\* build_shell_command leaves the credentials alone and decides whether any
\* are to be changed.
LEMMA BuildStep ==
    ASSUME ChildInv, BuildCommand
    PROVE  ChildInv'
<1>1. /\ cpc = "cloned" /\ creds = daemon /\ Sound(svc)
      /\ cpc' = (IF Unchanged THEN "exec" ELSE "keepcaps")
      /\ UNCHANGED <<daemon, svc, creds, refused, faults, spawns>>
  BY DEF BuildCommand, ChildInv, OwnInv, SvcInv
<1>2. Unchanged' <=> Unchanged
  BY <1>1 DEF Unchanged, WantCaps, Ident
<1>3. ChildType' /\ SvcInv' /\ OrderWorks'
  BY <1>1 DEF ChildInv, ChildType, SvcInv, OrderWorks, Steps
<1>4. OwnInv'
  BY <1>1, <1>2 DEF OwnInv, Steps
<1>5. cpc' = "keepcaps" \/ Unchanged'
  BY <1>1, <1>2
<1>6. IdInv' /\ CapInv'
  BY <1>1, <1>5 DEF IdInv, CapInv, BeforeUid, BeforeGid, BeforeGroups
<1> QED BY <1>3, <1>4, <1>6 DEF ChildInv

----------------------------------------------------------------------------
(* The theorems.                                                            *)

\* Load and child together.
SetupInv == LoadInv /\ ChildInv

\* The invariant holds at first and is kept by every step.
LEMMA SetupInductive ==
    /\ Init => SetupInv
    /\ SetupInv /\ [Next]_vars => SetupInv'
<1>1. ASSUME Init PROVE SetupInv
  <2>1. LoadType
    BY <1>1, DiskAssumption DEF Init, LoadInit, LoadType
  <2>2. KeptInv /\ CheckInv /\ ConfigInv
    BY <1>1 DEF Init, LoadInit, KeptInv, KeepOld, CheckInv, ConfigInv
  <2>3. ChildType
    BY <1>1, DaemonFacts DEF Init, ChildType
  <2>4. SvcInv /\ OwnInv /\ IdInv /\ CapInv /\ OrderWorks
    BY <1>1 DEF Init, SvcInv, OwnInv, IdInv, CapInv, OrderWorks, Steps
  <2> QED BY <2>1, <2>2, <2>3, <2>4 DEF SetupInv, LoadInv, ChildInv
<1>2. ASSUME SetupInv, [Next]_vars PROVE SetupInv'
  <2>1. CASE (Load \/ Change) /\ UNCHANGED <<daemon, childVars>>
    BY <1>2, <2>1, LoadStep, ChildStutter DEF SetupInv
  <2>2. CASE CloneService
    BY <1>2, <2>2, LoadStutter, CloneStep DEF SetupInv, CloneService
  <2>3. CASE BuildCommand
    BY <1>2, <2>3, LoadStutter, BuildStep DEF SetupInv, BuildCommand
  <2>4. CASE KeepCaps \/ DropBounding \/ ApplyGroups \/ ApplyGid \/ ApplyUid \/ SetCapabilities \/ NoNewPrivs
    <3>1. UNCHANGED loadVars
      BY <2>4 DEF KeepCaps, DropBounding, ApplyGroups, ApplyGid, ApplyUid, SetCapabilities, NoNewPrivs, Step
    <3> QED BY <1>2, <2>4, <3>1, LoadStutter, ApplySteps DEF SetupInv
  <2>5. CASE UNCHANGED vars
    BY <1>2, <2>5, LoadStutter, ChildStutter DEF SetupInv, vars
  <2> QED BY <1>2, <2>1, <2>2, <2>3, <2>4, <2>5 DEF Next, Child
<1> QED BY <1>1, <1>2

\* Every variable of the load and of the child stays in its type; the effective
\* and ambient capabilities of a child are permitted ones (the kernel's rule).
THEOREM TypeCorrect == Spec => []TypeOK
<1>1. SetupInv => TypeOK
  BY DEF SetupInv, LoadInv, ChildInv, TypeOK
<1> QED BY <1>1, SetupInductive, PTL DEF Spec

\* A load that fails, at whatever step and whatever changed under it, leaves
\* the configuration and, but for a failed identity, the environment as they
\* were (load_or_create_with_dropins).
THEOREM KeepOldHolds == Spec => []KeepOld
<1>1. SetupInv => KeepOld
  BY DEF SetupInv, LoadInv, KeptInv
<1> QED BY <1>1, SetupInductive, PTL DEF Spec

\* Every service of a configuration that was taken has a command to start, a
\* probe of one kind if any, and dependencies that are services
\* (Config::validate, and what is done to a configuration after it).
THEOREM AcceptedRunsHolds == Spec => []AcceptedRuns
<1>1. ASSUME SetupInv PROVE AcceptedRuns
  <2> SUFFICES ASSUME config # None, NEW i \in DOMAIN config
               PROVE  /\ ResolveStart(config[i]) # None
                      /\ config[i].probe # None => ProbeKind(config[i].probe) # None
                      /\ config[i].deps \subseteq Named(config)
    BY DEF AcceptedRuns
  <2> DEFINE s == config[i]
  <2>1. Sound(s) /\ s.deps \subseteq Named(config)
    BY <1>1 DEF SetupInv, LoadInv, ConfigInv
  <2>2. s.cmds \in SUBSET Commands /\ s.cmds # {} /\ s.probe \in {None} \cup ProbeDef
    BY <2>1 DEF Sound, ServiceDef, ServiceValid
  <2>4. ResolveStart(s) # None
    BY <2>2, NoneAssumption DEF ResolveStart, Commands
  <2>5. ASSUME s.probe # None PROVE ProbeKind(s.probe) # None
    <3>1. s.probe.kinds \in SUBSET ProbeKinds /\ Cardinality(s.probe.kinds) = 1
      BY <2>1, <2>2, <2>5 DEF Sound, ServiceValid, ProbeValid, ProbeDef
    <3>2. s.probe.kinds # {}
      BY <3>1, FS_EmptySet
    <3>3. (CHOOSE k \in s.probe.kinds : TRUE) \in ProbeKinds
      BY <3>1, <3>2
    <3> QED BY <3>1, <3>3, NoneAssumption DEF ProbeKind
  <2> QED BY <2>1, <2>4, <2>5
<1> QED BY <1>1, SetupInductive, PTL DEF Spec

\* A program runs with exactly the user, group, groups and capabilities its
\* definition asks for, whatever the load did since it was cloned, or with
\* those of microinit when it asks for nothing else (apply_pre_exec).
THEOREM ChildIdentityHolds == Spec => []ChildIdentity
<1>1. ASSUME SetupInv PROVE ChildIdentity
  <2> SUFFICES ASSUME cpc = "exec" PROVE ChildIdentity
    BY DEF ChildIdentity
  <2>1. /\ Sound(svc) /\ OwnInv /\ IdInv /\ CapInv /\ cpc \in Steps
    BY <1>1 DEF SetupInv, ChildInv, SvcInv, Steps
  <2>2. CASE svc.context = None \/ Unchanged
    <3>1. Unchanged /\ creds = daemon
      BY <2>1, <2>2 DEF Sound, OwnInv, Unchanged, Ident
    <3> QED BY <2>2, <3>1 DEF ChildIdentity
  <2>3. CASE ~(svc.context = None \/ Unchanged)
    <3> DEFINE ctx == svc.context
    <3>1. Meets(ctx, Ident) /\ ctx \in ContextDef
      BY <2>1, <2>3 DEF Sound, Unchanged, Ident, ServiceDef
    <3>2. /\ creds.groups = IF ~DropsIdentity THEN daemon.groups ELSE GroupsOf
          /\ creds.gid = IF Ident.gid = None THEN daemon.gid ELSE Ident.gid
          /\ creds.uid = IF Ident.uid = None THEN daemon.uid ELSE Ident.uid
      BY <2>1, <2>3 DEF IdInv, BeforeUid, BeforeGid, BeforeGroups
    <3>3. creds.permitted = Ident.caps /\ creds.effective = Ident.caps /\ creds.ambient = Ident.caps /\ creds.nnp
      BY <2>1, <2>3 DEF CapInv
    <3>4. Ident.uid = UidOf(ctx) /\ Ident.caps = ctx.caps
      BY <3>1 DEF Meets
    <3>5. ctx.user = None /\ ctx.group = None => creds.groups = daemon.groups
      BY <3>1, <3>2 DEF Meets, UidOf, DropsIdentity
    <3>6. ctx.user # None => Ident.uid # None
      <4> SUFFICES ASSUME ctx.user # None PROVE Ident.uid \in Nat
        BY NoneAssumption
      <4>1. CASE IsNumber(ctx.user)
        BY <3>4, <4>1, NumberAssumption DEF UidOf, IsNumber
      <4>2. CASE ~IsNumber(ctx.user)
        BY <3>1, <3>4, <4>2, UserAssumption DEF UidOf, Meets
      <4> QED BY <4>1, <4>2
    <3>7. ctx.user # None /\ IsNumber(ctx.user) => creds.groups = {}
      BY <3>1, <3>2, <3>6 DEF Meets, DropsIdentity, GroupsOf
    <3>8. ctx.user # None /\ ~IsNumber(ctx.user) => Passwd[ctx.user].groups \subseteq creds.groups
      BY <3>1, <3>2, <3>6 DEF Meets, DropsIdentity, GroupsOf
    <3> QED BY <2>3, <3>2, <3>3, <3>4, <3>5, <3>7, <3>8 DEF ChildIdentity, UidOf
  <2> QED BY <2>2, <2>3
<1> QED BY <1>1, SetupInductive, PTL DEF Spec

\* Begun with every capability, no step is refused for what an earlier one gave
\* up (the order of apply_pre_exec).
THEOREM OrderWorksHolds == Spec => []OrderWorks
<1>1. SetupInv => OrderWorks
  BY DEF SetupInv, ChildInv
<1> QED BY <1>1, SetupInductive, PTL DEF Spec

\* The last word on a name is one definition: describe's source is that one too
\* when no file has the name twice.
LEMMA WordIsLast ==
    ASSUME LoadInv, \A i \in Places : FileIn(disk, i) \in Seq(ServiceDef),
           NEW s \in ServiceDef, Word(disk, Len(DropinOrder), s)
    PROVE  /\ LastWord(s.name) = s
           /\ (\A i \in Places : Once(FileAt(i))) => Source(s.name) = s
<1> DEFINE n == s.name
<1>1. Len(DropinOrder) \in Nat /\ DOMAIN DropinOrder = 1..Len(DropinOrder)
  BY OrderAssumption
<1>2. \A i : FileAt(i) = FileIn(disk, i)
  BY DEF FileAt, FileIn
<1>3. PICK f \in Places : /\ Says(FileAt(f), Len(FileAt(f)), s)
                          /\ \A g \in Places : f < g => n \notin Named(FileAt(g))
  BY <1>2 DEF Word, Places
<1> DEFINE file == FileAt(f)
<1>4. file \in Seq(ServiceDef) /\ DOMAIN file = 1..Len(file) /\ Len(file) \in Nat
  BY <1>2, <1>3
<1>5. PICK p \in DOMAIN file : file[p] = s /\ \A q \in DOMAIN file : p < q => file[q].name # n
  BY <1>3, <1>4 DEF Says
<1>6. n \in Named(file)
  BY <1>5 DEF Named
<1>7. (CHOOSE i \in Having(n) : \A j \in Having(n) : j <= i) = f
  <2>1. f \in Having(n) /\ \A j \in Having(n) : j <= f
    BY <1>1, <1>3, <1>6 DEF Having, Places
  <2>2. \A i \in Having(n) : (\A j \in Having(n) : j <= i) => i = f
    BY <1>1, <1>3, <2>1 DEF Having, Places
  <2> QED BY <2>1, <2>2
<1>8. Final(file, n) = s
  <2> HIDE DEF file
  <2>1. \A i \in DOMAIN file : file[i].name = n /\ (\A j \in DOMAIN file : i < j => file[j].name # n) => i = p
    BY <1>4, <1>5
  <2>2. (CHOOSE i \in DOMAIN file : file[i].name = n /\ \A j \in DOMAIN file : i < j => file[j].name # n) = p
    BY <1>5, <2>1
  <2> QED BY <1>5, <2>2 DEF Final
<1>9. LastWord(n) = s
  BY <1>7, <1>8 DEF LastWord
<1>10. ASSUME \A i \in Places : Once(FileAt(i)) PROVE Source(n) = s
  <2>1. Get(file, n) = s
    <3>1. Once(file)
      BY <1>3, <1>10
    <3> HIDE DEF file
    <3>2. First(file, n) \in DOMAIN file /\ file[First(file, n)].name = n
      BY <1>4, <1>6, FirstFacts
    <3>3. First(file, n) = p
      BY <1>5, <3>1, <3>2 DEF Once
    <3> QED BY <1>5, <3>3 DEF Get
  <2>2. \A i \in Places : i # 0 => (Lists(disk.dropins[DropinOrder[i]], n) <=> n \in Named(FileAt(i)))
    <3> SUFFICES ASSUME NEW i \in Places, i # 0
                 PROVE  Lists(disk.dropins[DropinOrder[i]], n) <=> n \in Named(FileAt(i))
      OBVIOUS
    <3> DEFINE d == disk.dropins[DropinOrder[i]]
    <3>1. CASE d = None
      <4>1. Named(<<>>) = {}
        BY DEF Named
      <4> QED BY <3>1, <4>1 DEF Lists, FileAt
    <3>2. CASE d # None
      <4>1. FileAt(i) = d /\ d \in Seq(ServiceDef)
        BY <1>2, <3>2 DEF FileAt
      <4> QED BY <3>2, <4>1, MissingAssumption DEF Lists
    <3> QED BY <3>1, <3>2
  <2> DEFINE with == {i \in DOMAIN DropinOrder : Lists(disk.dropins[DropinOrder[i]], n)}
             last == CHOOSE i \in with : \A j \in with : j <= i
  <2>3. \A i : i \in with <=> i \in Places /\ i # 0 /\ n \in Named(FileAt(i))
    BY <1>1, <2>2 DEF Places
  <2>4. Source(n) = IF with # {} THEN Get(disk.dropins[DropinOrder[last]], n)
                    ELSE IF Lists(disk.main, n) THEN Get(disk.main, n) ELSE None
    BY DEF Source
  <2>5. CASE f = 0
    <3>1. with = {}
      <4>1. \A i \in Places : i # 0 => f < i
        BY <1>1, <2>5 DEF Places
      <4> QED BY <1>3, <2>3, <4>1
    <3>2. file = disk.main /\ disk.main \in Seq(ServiceDef)
      BY <1>4, <2>5 DEF FileAt
    <3>3. Lists(disk.main, n)
      BY <1>6, <3>2, MissingAssumption DEF Lists
    <3> QED BY <2>1, <2>4, <3>1, <3>2, <3>3
  <2>6. CASE f # 0
    <3>1. f \in with
      BY <1>3, <1>6, <2>3, <2>6
    <3>2. \A j \in with : j <= f
      BY <1>1, <1>3, <2>3 DEF Places
    <3>3. \A i \in with : (\A j \in with : j <= i) => i = f
      BY <1>1, <1>3, <2>3, <3>1, <3>2 DEF Places
    <3>4. last = f
      BY <3>1, <3>2, <3>3
    <3>5. Lists(disk.dropins[DropinOrder[f]], n)
      BY <3>1
    <3>6. file = disk.dropins[DropinOrder[f]]
      BY <2>6, <3>5 DEF FileAt, Lists
    <3> HIDE DEF with, last, file
    <3> QED BY <2>1, <2>4, <3>1, <3>4, <3>6
  <2> QED BY <2>5, <2>6
<1> QED BY <1>9, <1>10

\* A load during which nothing changes takes every service of the files once,
\* as the last file and the last place in it define it, enabled as the override
\* says; describe names that definition (merge_service_dropins,
\* apply_enabled_override, find_service_source).
THEOREM LaterWinsHolds == Spec => []LaterWins
<1>1. Init => GatherInv
  BY DEF Init, LoadInit, GatherInv, Ready
<1>2. ASSUME SetupInv, GatherInv, [Next]_vars PROVE GatherInv'
  <2>1. CASE Load \/ Change
    BY <1>2, <2>1, GatherStep DEF SetupInv
  <2>2. CASE UNCHANGED loadVars
    BY <1>2, <2>2 DEF GatherInv, Ready, loadVars
  <2>3. CASE Child
    <3>1. UNCHANGED loadVars
      BY <2>3 DEF Child, CloneService, BuildCommand, KeepCaps, DropBounding, ApplyGroups, ApplyGid, ApplyUid,
                  SetCapabilities, NoNewPrivs, Step
    <3> QED BY <2>2, <3>1
  <2> QED BY <1>2, <2>1, <2>2, <2>3 DEF Next, vars
<1>3. ASSUME SetupInv, GatherInv PROVE LaterWins
  <2> SUFFICES ASSUME Ready
               PROVE  /\ Once(config) /\ Named(config) = UNION {Named(FileAt(i)) : i \in Places}
                      /\ \A n \in Named(config) :
                            LET now == Get(config, n)
                            IN  now = [LastWord(n) EXCEPT !.enabled = Wanted(LastWord(n)),
                                                          !.identity = now.identity]
                      /\ (\A i \in Places : Once(FileAt(i))) => \A n \in Named(config) : Source(n) = LastWord(n)
    BY DEF LaterWins
  <2>1. Settled(disk, config) /\ Once(config)
    BY <1>3 DEF GatherInv, Ready
  <2>2. config \in Seq(ServiceDef) /\ LoadInv
    BY <1>3 DEF SetupInv, LoadInv, LoadType, Ready
  <2>3. Named(config) = UNION {Named(FileAt(i)) : i \in Places}
    BY <2>1 DEF Settled, UpTo, Places, FileAt, FileIn
  <2>4. ASSUME NEW n \in Named(config)
        PROVE  /\ Get(config, n) = [LastWord(n) EXCEPT !.enabled = Wanted(LastWord(n)),
                                                       !.identity = Get(config, n).identity]
               /\ (\A i \in Places : Once(FileAt(i))) => Source(n) = LastWord(n)
    <3> DEFINE now == Get(config, n)
    <3>1. First(config, n) \in DOMAIN config /\ now.name = n
      BY <2>2, FirstFacts DEF Get
    <3>2. PICK s \in ServiceDef : Word(disk, Len(DropinOrder), s) /\ Amended(disk, now, s)
      BY <2>1, <3>1 DEF Settled, Get
    <3> HIDE DEF now
    <3>3. now = [s EXCEPT !.enabled = Wanted(s), !.identity = now.identity]
      BY <3>2 DEF Amended, Wanted
    <3>4. s.name = n
      <4>1. \A e, y : [s EXCEPT !.enabled = e, !.identity = y].name = s.name
        BY DEF ServiceDef
      <4> QED BY <3>1, <3>3, <4>1, Zenon
    <3>5. LastWord(n) = s /\ ((\A i \in Places : Once(FileAt(i))) => Source(n) = s)
      BY <2>1, <2>2, <3>2, <3>4, WordIsLast DEF Settled
    <3> QED BY <3>3, <3>5, Zenon DEF now
  <2> QED BY <2>1, <2>3, <2>4
<1> QED BY <1>1, <1>2, <1>3, SetupInductive, PTL DEF Spec
====
