--------------------------- MODULE ConvergeProofs ---------------------------
(***************************************************************************)
(* Proofs about Net::converge, for any network, any order in which its     *)
(* hash maps are iterated, any number of calls, failures of netlink and    *)
(* changes of the topology.                                                *)
(*                                                                         *)
(* The search is breadth first: its queue is sorted by the distance from   *)
(* the source and spans at most two distances. Distances are never named;  *)
(* "a is as near as b" is: whatever number of hops reaches b reaches a.    *)
(***************************************************************************)
EXTENDS Converge, FiniteSetTheorems, WellFoundedInduction, TLAPS

\* What a topology is: a router is recorded at a LAN after the LAN at the
\* router.
TopologyOK(t) ==
    /\ IsFiniteSet(DOMAIN t.lans)
    /\ DOMAIN t.lans \subseteq RouterIds
    /\ DOMAIN t.routers \subseteq LanIds
    /\ t \in Topology(DOMAIN t.lans, DOMAIN t.routers)
    /\ \A l \in DOMAIN t.routers : \A r \in t.routers[l] : l \in t.lans[r]

\* The topology u has all that t has.
GrownFrom(t, u) ==
    /\ DOMAIN u.lans = DOMAIN t.lans /\ DOMAIN u.routers = DOMAIN t.routers
    /\ \A r \in DOMAIN t.lans : t.lans[r] \subseteq u.lans[r]
    /\ \A l \in DOMAIN t.routers : t.routers[l] \subseteq u.routers[l]

\* The address of another router on a LAN that r is attached to.
NextHop(t, r, gateway) ==
    /\ gateway \in (DOMAIN t.lans) \X (DOMAIN t.routers)
    /\ gateway[1] # r
    /\ gateway[2] \in t.lans[r]
    /\ gateway[1] \in t.routers[gateway[2]]

\* A route from r that brings every packet for l one hop nearer.
Shortens(t, r, l, gateway) ==
    \A n \in Nat : InReach(t, r, l, n) =>
        n # 0 /\ (l \in t.lans[gateway[1]] \/ InReach(t, gateway[1], l, n - 1))

Good(t, r, l, gateway) ==
    /\ NextHop(t, r, gateway)
    /\ l \notin t.lans[r]
    /\ Shortens(t, r, l, gateway)
    /\ \E n \in Nat : InReach(t, r, l, n)

Gateway == (Routers \X Lans) \cup {None}
Update == [router : Routers, lan : Lans, gateway : Gateway]

TypeOK ==
    /\ TopologyOK(topology) /\ TopologyOK(snapshot) /\ GrownFrom(snapshot, topology)
    /\ routes \in [Routers -> [Lans -> Gateway]]
    /\ stage \in {"idle", "search", "apply", "settled"}
    /\ sources \subseteq Routers
    /\ source \in (Routers \cup {None}) \ sources
    /\ updates \in Seq(SUBSET Update)
    /\ stage # "search" => sources = {} /\ source = None

\* Of a search.

SearchTypes ==
    /\ queue \in Seq(Routers)
    /\ \A i \in DOMAIN queue : queue[i] \in visited
    /\ visited \subseteq Routers /\ source \in visited
    /\ exploring \subseteq (IF queue = <<>> THEN {} ELSE snapshot.lans[queue[1]])
    /\ gateways \in [Routers -> Gateway]
    /\ reached \in [Lans -> Gateway]

\* The LAN l of the router q is still to be looked at.
Open(q, l) ==
    \/ \E i \in DOMAIN queue : i # 1 /\ queue[i] = q
    \/ queue # <<>> /\ q = queue[1] /\ l \in exploring

\* What lies behind the LANs that were looked at is found.
Explored ==
    \A q \in visited : \A l \in snapshot.lans[q] :
      Exports(q, l) /\ ~Open(q, l) =>
        /\ snapshot.routers[l] \subseteq visited
        /\ q # source /\ l \notin snapshot.lans[source] => reached[l] # None

\* a is as near to the source as b.
AsNear(a, b) ==
    \A n \in Nat : b \in RoutersWithin(snapshot, source)[n] => a \in RoutersWithin(snapshot, source)[n]

\* a is at most one hop farther from the source than b.
NextTo(a, b) ==
    \A n \in Nat : b \in RoutersWithin(snapshot, source)[n] => a \in RoutersWithin(snapshot, source)[n + 1]

BreadthFirst ==
    /\ \A q \in visited : \E n \in Nat : q \in RoutersWithin(snapshot, source)[n]
    /\ \A i, j \in DOMAIN queue : i <= j => AsNear(queue[i], queue[j])
    /\ \A i \in DOMAIN queue : NextTo(queue[i], queue[1])

\* The first hop to q leads there on a shortest way.
FirstHopTo(t, s, q, gateway) ==
    /\ NextHop(t, s, gateway)
    /\ \A n \in Nat : q \in RoutersWithin(t, s)[n] =>
         n # 0 /\ q \in RoutersWithin(t, gateway[1])[n - 1]

FirstHops ==
    /\ \A q \in visited \ {source} : FirstHopTo(snapshot, source, q, gateways[q])
    /\ \A l \in Lans : reached[l] # None => Good(snapshot, source, l, reached[l])

SearchInv == source # None => SearchTypes /\ Explored /\ BreadthFirst /\ FirstHops

\* Of the updates of a call.

\* No update of a router whose search is to come or under way.
OfSearched ==
    \A i \in DOMAIN updates : \A u \in updates[i] : u.router \notin sources \cup {source}

AddsGood ==
    \A i \in DOMAIN updates : \A u \in updates[i] :
      u.gateway # None => Good(snapshot, u.router, u.lan, u.gateway)

DeletesFirst ==
    \A i, j \in DOMAIN updates : \A u \in updates[i], v \in updates[j] :
      u.router = v.router /\ u.lan = v.lan /\ u.gateway = None /\ v.gateway # None => i < j

Added(r, l) ==
    \E i \in DOMAIN updates : \E u \in updates[i] : u.router = r /\ u.lan = l /\ u.gateway # None

Deleted(r, l) ==
    \E i \in DOMAIN updates : \E u \in updates[i] : u.router = r /\ u.lan = l /\ u.gateway = None

\* Once the updates are applied the route of r to l will be what it should.
Promised(r, l) ==
    IF \E n \in Nat : InReach(snapshot, r, l, n)
    THEN Added(r, l) \/ (~Deleted(r, l) /\ Good(snapshot, r, l, routes[r][l]))
    ELSE Deleted(r, l) \/ routes[r][l] = None

Promises ==
    stage # "idle" =>
      \A r \in Routers \ (sources \cup {source}) :
        \A l \in Lans \ snapshot.lans[r] : Promised(r, l)

UpdatesInv == OfSearched /\ AddsGood /\ DeletesFirst /\ Promises

AllApplied == stage = "settled" => updates = <<>>

IInv == TypeOK /\ SearchInv /\ UpdatesInv /\ AllApplied /\ OnLink
-----------------------------------------------------------------------------
(* Numbers, and functions defined by recursion.                            *)

\* A set of numbers that is not empty has a least one.
LEMMA LeastNumber ==
    ASSUME NEW S \in SUBSET Nat, S # {}
    PROVE  \E x \in S : \A y \in S : x <= y
<1>1. PICK x \in S : \A y \in S : ~ (<<y, x>> \in OpToRel(<, Nat))
  BY WFMin, NatLessThanWellFounded
<1>2. \A y \in S : ~ (y < x)
  BY <1>1 DEF OpToRel
<1> QED BY <1>2

\* Induction, with a set for the predicate.
LEMMA AllNumbers ==
    ASSUME NEW S \in SUBSET Nat, 0 \in S, \A n \in S : n + 1 \in S
    PROVE  S = Nat
<1> SUFFICES ASSUME Nat \ S # {} PROVE FALSE
  OBVIOUS
<1>1. PICK m \in Nat \ S : \A y \in Nat \ S : m <= y
  BY LeastNumber
<1>2. m # 0 /\ m \in Nat
  BY <1>1
<1>3. m - 1 \in Nat /\ ~(m <= m - 1)
  BY <1>2
<1>4. m - 1 \in S
  BY <1>1, <1>3
<1>5. (m - 1) + 1 = m
  BY <1>2
<1> QED BY <1>1, <1>4, <1>5

\* A function can be applied again and again: what is defined by this
\* recursion exists.
LEMMA Iterates ==
    ASSUME NEW S, NEW first \in S, NEW f \in [S -> S]
    PROVE  \E h \in [Nat -> S] :
             h = [n \in Nat |-> IF n = 0 THEN first ELSE f[h[n - 1]]]
<1> DEFINE Solves(g, m) == /\ g \in [0 .. m -> S] /\ g[0] = first
                           /\ \A i \in 0 .. m : i # 0 => g[i] = f[g[i - 1]]
           Solved == {m \in Nat : \E g : Solves(g, m)}
<1>1. Solved = Nat
  <2>1. 0 \in Solved
    <3>1. Solves([i \in 0 .. 0 |-> first], 0)
      OBVIOUS
    <3> HIDE DEF Solves
    <3> QED BY <3>1
  <2>2. ASSUME NEW m \in Solved PROVE m + 1 \in Solved
    <3>1. PICK g : Solves(g, m)
      <4> HIDE DEF Solves
      <4> QED OBVIOUS
    <3> DEFINE h == [i \in 0 .. m + 1 |-> IF i = m + 1 THEN f[g[m]] ELSE g[i]]
    <3>2. m \in Nat
      OBVIOUS
    <3>3. h \in [0 .. m + 1 -> S] /\ h[0] = first
      BY <3>1, <3>2
    <3>4. ASSUME NEW i \in 0 .. m + 1, i # 0 PROVE h[i] = f[h[i - 1]]
      <4>1. CASE i = m + 1
        BY <4>1, <3>1, <3>2
      <4>2. CASE i # m + 1
        BY <4>2, <3>1, <3>2, <3>4
      <4> QED BY <4>1, <4>2
    <3>5. Solves(h, m + 1)
      <4> HIDE DEF h
      <4> QED BY <3>3, <3>4
    <3> HIDE DEF Solves
    <3> QED BY <3>2, <3>5
  <2> HIDE DEF Solves
  <2> QED BY <2>1, <2>2, AllNumbers
\* Solutions agree where both are defined.
<1>2. ASSUME NEW a, NEW m \in Nat, Solves(a, m), NEW b, NEW n \in Nat, Solves(b, n)
      PROVE  \A i \in Nat : i <= m /\ i <= n => a[i] = b[i]
  <2> DEFINE Same == {i \in Nat : i <= m /\ i <= n => a[i] = b[i]}
  <2>1. 0 \in Same
    BY <1>2
  <2>2. ASSUME NEW i \in Same PROVE i + 1 \in Same
    <3> SUFFICES ASSUME i + 1 <= m, i + 1 <= n PROVE a[i + 1] = b[i + 1]
      OBVIOUS
    <3>1. a[i] = b[i]
      OBVIOUS
    <3>2. i + 1 \in 0 .. m /\ i + 1 \in 0 .. n /\ i + 1 # 0 /\ (i + 1) - 1 = i
      OBVIOUS
    <3>3. a[i + 1] = f[a[i]] /\ b[i + 1] = f[b[i]]
      BY <1>2, <3>2
    <3> QED BY <3>1, <3>3
  <2>3. Same = Nat
    <3> HIDE DEF Same
    <3>1. Same \in SUBSET Nat
      BY DEF Same
    <3> QED BY <2>1, <2>2, <3>1, AllNumbers
  <2> QED BY <2>3
<1> DEFINE Upto(m) == CHOOSE g : Solves(g, m)
           h == [n \in Nat |-> Upto(n)[n]]
<1>3. \A m \in Nat : Solves(Upto(m), m)
  <2> HIDE DEF Solves
  <2> QED BY <1>1
<1>4. h \in [Nat -> S]
  <2>1. ASSUME NEW n \in Nat PROVE Upto(n)[n] \in S
    <3>1. Solves(Upto(n), n)
      BY <1>3
    <3> HIDE DEF Upto
    <3> QED BY <3>1
  <2> HIDE DEF Upto
  <2> QED BY <2>1
<1>5. ASSUME NEW n \in Nat PROVE h[n] = IF n = 0 THEN first ELSE f[h[n - 1]]
  <2>1. Solves(Upto(n), n) /\ h[n] = Upto(n)[n]
    BY <1>3
  <2>2. CASE n = 0
    <3> HIDE DEF Upto, h
    <3> QED BY <2>1, <2>2
  <2>3. CASE n # 0
    <3>1. n - 1 \in Nat /\ n - 1 <= n /\ n - 1 <= n - 1 /\ n \in 0 .. n
      BY <2>3
    <3>2. Solves(Upto(n - 1), n - 1) /\ h[n - 1] = Upto(n - 1)[n - 1]
      BY <1>3, <3>1
    <3>3. Upto(n)[n - 1] = Upto(n - 1)[n - 1]
      <4> HIDE DEF Upto, Solves, h
      <4> QED BY <1>2, <2>1, <3>1, <3>2
    <3>4. Upto(n)[n] = f[Upto(n)[n - 1]]
      <4> HIDE DEF Upto, h
      <4> QED BY <2>1, <2>3, <3>1
    <3> HIDE DEF Upto, Solves, h
    <3> QED BY <2>1, <2>3, <3>2, <3>3, <3>4
  <2> QED BY <2>2, <2>3
<1> HIDE DEF h
<1>6. h = [n \in Nat |-> h[n]]
  BY <1>4
<1>7. h = [n \in Nat |-> IF n = 0 THEN first ELSE f[h[n - 1]]]
  BY <1>5, <1>6
<1> QED BY <1>4, <1>7
-----------------------------------------------------------------------------
(* Hops.                                                                   *)

\* The levels are what their recursion says.
LEMMA WithinLevels ==
    ASSUME NEW t, NEW s \in DOMAIN t.lans
    PROVE  /\ RoutersWithin(t, s) \in [Nat -> SUBSET DOMAIN t.lans]
           /\ RoutersWithin(t, s)[0] = {s}
           /\ \A n \in Nat : RoutersWithin(t, s)[n + 1] =
                RoutersWithin(t, s)[n] \cup
                {r \in DOMAIN t.lans : \E q \in RoutersWithin(t, s)[n] : Leads(t, s, q, r)}
<1> DEFINE R == DOMAIN t.lans
           Level(S) == S \cup {r \in R : \E q \in S : Leads(t, s, q, r)}
           f == [S \in SUBSET R |-> Level(S)]
           W == RoutersWithin(t, s)
<1>1. f \in [SUBSET R -> SUBSET R] /\ {s} \in SUBSET R
  OBVIOUS
<1>2. PICK h \in [Nat -> SUBSET R] :
        h = [n \in Nat |-> IF n = 0 THEN {s} ELSE f[h[n - 1]]]
  <2> DEFINE S == SUBSET R
             first == {s}
  <2>1. first \in S /\ f \in [S -> S]
    BY <1>1
  <2> HIDE DEF f, S, first
  <2>2. \E h \in [Nat -> S] : h = [n \in Nat |-> IF n = 0 THEN first ELSE f[h[n - 1]]]
    BY <2>1, Iterates
  <2> QED BY <2>2 DEF S, first
<1> HIDE DEF f
<1> HIDE DEF Level
<1>3. \A g \in [Nat -> SUBSET R] : \A n \in Nat : n # 0 => f[g[n - 1]] = Level(g[n - 1])
  BY DEF f
<1>4. h = [n \in Nat |-> IF n = 0 THEN {s} ELSE Level(h[n - 1])]
  BY <1>2, <1>3
<1>5. W = CHOOSE g : g = [n \in Nat |-> IF n = 0 THEN {s} ELSE Level(g[n - 1])]
  BY DEF RoutersWithin, Level
<1>6. W = [n \in Nat |-> IF n = 0 THEN {s} ELSE Level(W[n - 1])]
  <2> HIDE DEF W
  <2> QED BY <1>4, <1>5
<1> HIDE DEF W
<1>7. W[0] = {s}
  BY <1>6
<1>8. ASSUME NEW n \in Nat PROVE W[n + 1] = Level(W[n])
  <2>1. n + 1 \in Nat /\ n + 1 # 0 /\ (n + 1) - 1 = n
    OBVIOUS
  <2> QED BY <1>6, <2>1
<1>9. \A n \in Nat : W[n] \in SUBSET R
  <2> DEFINE S == {n \in Nat : W[n] \in SUBSET R}
  <2>1. 0 \in S
    BY <1>7
  <2>2. \A n \in S : n + 1 \in S
    BY <1>8 DEF Level
  <2>3. S = Nat
    <3>1. S \in SUBSET Nat
      OBVIOUS
    <3> HIDE DEF S
    <3> QED BY <2>1, <2>2, <3>1, AllNumbers
  <2> QED BY <2>3
<1>10. W \in [Nat -> SUBSET R]
  <2>1. W = [n \in Nat |-> W[n]]
    BY <1>6
  <2> QED BY <2>1, <1>9
<1> QED BY <1>7, <1>8, <1>10 DEF W, Level

\* One hop more.
LEMMA OneHop ==
    ASSUME NEW t, NEW s \in DOMAIN t.lans, NEW n \in Nat
    PROVE  /\ RoutersWithin(t, s)[n] \subseteq DOMAIN t.lans
           /\ RoutersWithin(t, s)[n] \subseteq RoutersWithin(t, s)[n + 1]
           /\ \A q \in RoutersWithin(t, s)[n], r \in DOMAIN t.lans :
                Leads(t, s, q, r) => r \in RoutersWithin(t, s)[n + 1]
           /\ \A r \in RoutersWithin(t, s)[n + 1] :
                \/ r \in RoutersWithin(t, s)[n]
                \/ \E q \in RoutersWithin(t, s)[n] : Leads(t, s, q, r)
BY WithinLevels

LEMMA MoreHops ==
    ASSUME NEW t, NEW s \in DOMAIN t.lans, NEW m \in Nat, NEW n \in Nat, m <= n
    PROVE  RoutersWithin(t, s)[m] \subseteq RoutersWithin(t, s)[n]
<1> DEFINE W == RoutersWithin(t, s)
           S == {k \in Nat : m <= k => W[m] \subseteq W[k]}
<1>1. \A k \in Nat : W[k] \subseteq W[k + 1]
  BY OneHop
<1> HIDE DEF W
<1>2. S \in SUBSET Nat
  OBVIOUS
<1>3. 0 \in S
  OBVIOUS
<1>4. ASSUME NEW k \in S PROVE k + 1 \in S
  <2>1. CASE m <= k
    BY <1>1, <2>1
  <2>2. CASE m = k + 1
    BY <2>2
  <2> QED BY <2>1, <2>2
<1>5. S = Nat
  <2> HIDE DEF S
  <2> QED BY <1>2, <1>3, <1>4, AllNumbers
<1> QED BY <1>5 DEF W

\* No router is farther away than there are routers.
LEMMA HopsAreBounded ==
    ASSUME NEW t, IsFiniteSet(DOMAIN t.lans), NEW s \in DOMAIN t.lans, NEW n \in Nat
    PROVE  RoutersWithin(t, s)[n] \subseteq RoutersWithin(t, s)[Cardinality(DOMAIN t.lans)]
<1> DEFINE R == DOMAIN t.lans
           W == RoutersWithin(t, s)
           Full(m) == W[m + 1] = W[m]
           Growing == {k \in Nat : (\E m \in Nat : m < k /\ Full(m)) \/ Cardinality(W[k]) >= k + 1}
<1>1. /\ W[0] = {s}
      /\ \A k \in Nat : W[k] \in SUBSET R /\ W[k] \subseteq W[k + 1]
      /\ \A k \in Nat : W[k + 1] = W[k] \cup {r \in R : \E q \in W[k] : Leads(t, s, q, r)}
  BY WithinLevels
<1>2. \A i, j \in Nat : i <= j => W[i] \subseteq W[j]
  BY MoreHops
<1> HIDE DEF W
<1>3. \A k \in Nat : IsFiniteSet(W[k]) /\ Cardinality(W[k]) \in Nat
                     /\ Cardinality(W[k]) <= Cardinality(R)
  BY <1>1, FS_Subset, FS_CardinalityType
<1>4. Growing = Nat
  <2>1. Growing \in SUBSET Nat
    OBVIOUS
  <2>2. 0 \in Growing
    <3>1. Cardinality(W[0]) = 1
      BY <1>1, FS_Singleton
    <3> QED BY <3>1
  <2>3. ASSUME NEW k \in Growing PROVE k + 1 \in Growing
    <3>1. CASE \E m \in Nat : m < k /\ Full(m)
      BY <3>1
    <3>2. CASE Full(k)
      BY <3>2
    <3>3. CASE ~Full(k) /\ Cardinality(W[k]) >= k + 1
      <4>1. /\ Cardinality(W[k]) <= Cardinality(W[k + 1])
            /\ Cardinality(W[k]) # Cardinality(W[k + 1])
        BY <1>1, <1>3, <3>3, FS_Subset
      <4>2. Cardinality(W[k]) \in Nat /\ Cardinality(W[k + 1]) \in Nat
        BY <1>3
      <4> QED BY <3>3, <4>1, <4>2
    <3> QED BY <3>1, <3>2, <3>3
  <2> HIDE DEF Growing
  <2> QED BY <2>1, <2>2, <2>3, AllNumbers
<1>5. Cardinality(R) \in Nat
  BY FS_CardinalityType
<1>6. PICK m \in Nat : m < Cardinality(R) /\ Full(m)
  <2>1. Cardinality(R) \in Growing
    BY <1>4, <1>5
  <2>2. ~(Cardinality(W[Cardinality(R)]) >= Cardinality(R) + 1)
    BY <1>3, <1>5
  <2> HIDE DEF Full
  <2> QED BY <2>1, <2>2
\* Once a level adds nothing, none does.
<1>7. W[n] \subseteq W[m]
  <2> DEFINE Within == {k \in Nat : W[k] \subseteq W[m]}
  <2>1. Within \in SUBSET Nat
    OBVIOUS
  <2>2. 0 \in Within
    BY <1>2
  <2>3. ASSUME NEW k \in Within PROVE k + 1 \in Within
    <3>1. W[k] \subseteq W[m] /\ k \in Nat
      OBVIOUS
    <3>2. W[k + 1] \subseteq W[m + 1]
      BY <1>1, <3>1
    <3> QED BY <1>6, <3>1, <3>2
  <2>4. Within = Nat
    <3> HIDE DEF Within
    <3> QED BY <2>1, <2>2, <2>3, AllNumbers
  <2> QED BY <2>4
<1> QED BY <1>2, <1>5, <1>6, <1>7 DEF W

\* So a LAN in reach is in reach within that many hops.
LEMMA ReachIsBounded ==
    ASSUME NEW t, IsFiniteSet(DOMAIN t.lans), NEW s \in DOMAIN t.lans, NEW l, NEW n \in Nat,
           InReach(t, s, l, n)
    PROVE  InReach(t, s, l, Cardinality(DOMAIN t.lans))
BY HopsAreBounded DEF InReach

\* A LAN that is not attached is never zero hops away.
LEMMA ReachIsNotHere ==
    ASSUME NEW t, NEW s \in DOMAIN t.lans, NEW l
    PROVE  ~InReach(t, s, l, 0)
BY WithinLevels DEF InReach
-----------------------------------------------------------------------------
(* The state.                                                              *)

\* The parts of a topology.
LEMMA TopologyParts ==
    ASSUME NEW t, TopologyOK(t)
    PROVE  /\ t.lans \in [DOMAIN t.lans -> SUBSET DOMAIN t.routers]
           /\ t.routers \in [DOMAIN t.routers -> SUBSET DOMAIN t.lans]
           /\ t.masquerade \in [DOMAIN t.lans -> SUBSET DOMAIN t.routers]
BY DEF TopologyOK, Topology

\* The topology and its snapshot have the same routers and LANs.
LEMMA SnapshotParts ==
    ASSUME TypeOK
    PROVE  /\ DOMAIN snapshot.lans = Routers /\ DOMAIN snapshot.routers = Lans
           /\ snapshot.lans \in [Routers -> SUBSET Lans]
           /\ snapshot.routers \in [Lans -> SUBSET Routers]
           /\ snapshot.masquerade \in [Routers -> SUBSET Lans]
           /\ \A l \in Lans : \A r \in snapshot.routers[l] : l \in snapshot.lans[r]
           /\ IsFiniteSet(Routers)
<1>1. TopologyOK(snapshot) /\ GrownFrom(snapshot, topology) /\ TopologyOK(topology)
  BY DEF TypeOK
<1>2. DOMAIN snapshot.lans = Routers /\ DOMAIN snapshot.routers = Lans
  BY <1>1 DEF GrownFrom, Routers, Lans
<1>3. IsFiniteSet(Routers) /\ \A l \in Lans : \A r \in snapshot.routers[l] : l \in snapshot.lans[r]
  BY <1>1, <1>2 DEF TopologyOK
<1> QED BY <1>1, <1>2, <1>3, TopologyParts

LEMMA NoneIsNone ==
    ASSUME TypeOK
    PROVE  None \notin Routers /\ None \notin Routers \X Lans
BY NoneAssumption DEF TypeOK, TopologyOK, Routers, Lans, Gateways

\* A sequence of a set's elements has all of them.
LEMMA SequenceOfAll ==
    ASSUME NEW S, IsFiniteSet(S), NEW order \in SetToSeqs(S)
    PROVE  /\ order \in Seq(S)
           /\ \A x \in S : \E i \in DOMAIN order : order[i] = x
<1> DEFINE D == 1 .. Cardinality(S)
<1>1. order \in [D -> S] /\ \A i, j \in D : i # j => order[i] # order[j]
  BY DEF SetToSeqs
<1>2. Cardinality(S) \in Nat
  BY FS_CardinalityType
<1>3. order \in Injection(D, S)
  BY <1>1 DEF Injection, IsInjective
<1>4. Cardinality(D) = Cardinality(S)
  BY <1>2, FS_Interval
<1>5. order \in Surjection(D, S)
  BY <1>3, <1>4, FS_Injection
<1>6. order \in Seq(S)
  BY <1>1, <1>2
<1> QED BY <1>1, <1>5, <1>6 DEF Surjection
-----------------------------------------------------------------------------
(* The search.                                                             *)

\* What no router of the queue is, is looked at to the end.
LEMMA OpenIsQueued ==
    ASSUME NEW q, NEW l, queue \in Seq(Routers), Open(q, l)
    PROVE  queue # <<>> /\ \E i \in DOMAIN queue : 1 <= i /\ queue[i] = q
BY DEF Open

\* The router looked at comes first in the queue, a router of the topology.
LEMMA CurrentIsFirst ==
    ASSUME TypeOK, source # None, SearchTypes, queue # <<>>
    PROVE  Current = queue[1] /\ 1 \in DOMAIN queue /\ Current \in visited /\ Current \in Routers
BY DEF SearchTypes, Current

\* A router that is not visited is farther away than the one looked at.
LEMMA UnvisitedAreFarther ==
    ASSUME TypeOK, source # None, SearchTypes, Explored, BreadthFirst,
           NEW n \in Nat, NEW r \in RoutersWithin(snapshot, source)[n], r \notin visited
    PROVE  queue # <<>> /\ n # 0 /\ queue[1] \in RoutersWithin(snapshot, source)[n - 1]
<1> DEFINE W == RoutersWithin(snapshot, source)
           S == {k \in Nat : \A q \in W[k] : q \notin visited =>
                               queue # <<>> /\ k # 0 /\ queue[1] \in W[k - 1]}
<1>1. source \in Routers /\ DOMAIN snapshot.lans = Routers
  BY SnapshotParts DEF TypeOK
<1>2. W[0] = {source}
  BY <1>1, WithinLevels
<1>3. \A k \in Nat : W[k] \subseteq W[k + 1] /\ W[k] \subseteq Routers
  BY <1>1, OneHop
<1>4. \A k \in Nat : \A q \in W[k + 1] : q \in W[k] \/ \E p \in W[k] : Leads(snapshot, source, p, q)
  BY <1>1, OneHop
<1>5. \A i \in DOMAIN queue : 1 <= i => \A k \in Nat : queue[i] \in W[k] => queue[1] \in W[k]
  BY DEF BreadthFirst, AsNear, SearchTypes
<1> HIDE DEF W
<1>6. 0 \in S
  BY <1>2 DEF SearchTypes
<1>7. ASSUME NEW k \in S PROVE k + 1 \in S
  <2> SUFFICES ASSUME NEW q \in W[k + 1], q \notin visited
               PROVE  queue # <<>> /\ queue[1] \in W[k]
    OBVIOUS
  <2>1. ASSUME NEW p \in W[k], p \notin visited
        PROVE  queue # <<>> /\ queue[1] \in W[k]
    <3>1. queue # <<>> /\ k # 0 /\ queue[1] \in W[k - 1]
      BY <2>1
    <3>2. k - 1 \in Nat /\ (k - 1) + 1 = k
      BY <3>1
    <3> QED BY <1>3, <3>1, <3>2
  <2>2. ASSUME NEW p \in W[k], p \in visited, Leads(snapshot, source, p, q)
        PROVE  queue # <<>> /\ queue[1] \in W[k]
    <3>1. PICK l \in snapshot.lans[p] :
            q \in snapshot.routers[l] /\ (p = source \/ l \notin snapshot.masquerade[p])
      BY <2>2 DEF Leads
    <3>2. Open(p, l)
      BY <2>2, <3>1 DEF Explored, Exports
    <3> QED BY <1>5, <2>2, <3>2, OpenIsQueued DEF SearchTypes
  <2> QED BY <1>4, <2>1, <2>2
<1>8. S = Nat
  <2>1. S \in SUBSET Nat
    OBVIOUS
  <2> HIDE DEF S
  <2> QED BY <1>6, <1>7, <2>1, AllNumbers
<1>9. n \in S /\ r \in W[n]
  BY <1>8 DEF W
<1>10. queue # <<>> /\ n # 0 /\ queue[1] \in W[n - 1]
  BY <1>9
<1> QED BY <1>10 DEF W
\* Once the queue is empty all that is in reach was reached, and nothing else.
LEMMA SearchFindsAll ==
    ASSUME TypeOK, SearchInv, source # None, queue = <<>>, NEW l \in Lans \ snapshot.lans[source]
    PROVE  reached[l] # None <=> \E n \in Nat : InReach(snapshot, source, l, n)
<1>1. source \in Routers /\ SearchTypes /\ Explored /\ BreadthFirst /\ FirstHops
  BY DEF TypeOK, SearchInv
<1>2. ASSUME NEW n \in Nat, InReach(snapshot, source, l, n)
      PROVE  reached[l] # None
  <2>1. PICK q \in RoutersWithin(snapshot, source)[n] :
          q # source /\ l \in snapshot.lans[q] \ snapshot.masquerade[q]
    BY <1>2 DEF InReach
  <2>2. q \in visited
    BY <1>1, <2>1, UnvisitedAreFarther
  <2>3. Exports(q, l) /\ ~Open(q, l)
    BY <2>1, <1>1, OpenIsQueued DEF Exports, SearchTypes
  <2> QED BY <1>1, <2>1, <2>2, <2>3 DEF Explored
<1>3. ASSUME reached[l] # None
      PROVE  \E n \in Nat : InReach(snapshot, source, l, n)
  BY <1>1, <1>3 DEF FirstHops, Good
<1> QED BY <1>2, <1>3

\* What Explore appends to the queue, in any order.
LEMMA QueueGrows ==
    ASSUME TypeOK, SearchTypes, queue # <<>>, NEW found \in SUBSET Routers,
           NEW order \in SetToSeqs(found), queue' = queue \o order
    PROVE  /\ queue' \in Seq(Routers) /\ queue' # <<>> /\ queue'[1] = queue[1]
           /\ \A i \in DOMAIN queue : i \in DOMAIN queue' /\ queue'[i] = queue[i]
           /\ \A x \in found : \E i \in DOMAIN queue' : i # 1 /\ queue'[i] = x
           /\ \A i, j \in DOMAIN queue' : i <= j =>
                \/ i \in DOMAIN queue /\ j \in DOMAIN queue
                \/ queue'[j] \in found /\ i \in DOMAIN queue
                \/ queue'[j] \in found /\ queue'[i] \in found
           /\ \A i \in DOMAIN queue' : i \in DOMAIN queue \/ queue'[i] \in found
<1>1. IsFiniteSet(found)
  BY SnapshotParts, FS_Subset
<1>2. order \in Seq(found) /\ \A x \in found : \E i \in DOMAIN order : order[i] = x
  BY <1>1, SequenceOfAll
<1>3. queue \in Seq(Routers)
  BY DEF SearchTypes
<1>4. order \in Seq(Routers)
  BY <1>2
<1>5. Len(queue) \in Nat /\ Len(queue) # 0 /\ Len(order) \in Nat
  BY <1>3, <1>4
<1>6. /\ queue' \in Seq(Routers) /\ DOMAIN queue' = 1 .. Len(queue) + Len(order)
      /\ DOMAIN queue = 1 .. Len(queue) /\ DOMAIN order = 1 .. Len(order)
      /\ \A i \in 1 .. Len(queue) : queue'[i] = queue[i]
      /\ \A i \in 1 .. Len(order) : queue'[Len(queue) + i] = order[i]
  BY <1>3, <1>4
<1>7. \A i \in DOMAIN queue' : i \in DOMAIN queue \/ queue'[i] \in found
  <2> SUFFICES ASSUME NEW i \in DOMAIN queue', i \notin DOMAIN queue PROVE queue'[i] \in found
    OBVIOUS
  <2> DEFINE k == i - Len(queue)
  <2>1. k \in 1 .. Len(order) /\ i = Len(queue) + k
    BY <1>5, <1>6
  <2>2. queue'[i] = order[k]
    BY <1>6, <2>1
  <2> QED BY <1>2, <1>6, <2>1, <2>2
<1>8. \A x \in found : \E i \in DOMAIN queue' : i # 1 /\ queue'[i] = x
  <2> SUFFICES ASSUME NEW x \in found PROVE \E i \in DOMAIN queue' : i # 1 /\ queue'[i] = x
    OBVIOUS
  <2>1. PICK k \in DOMAIN order : order[k] = x
    BY <1>2
  <2>2. Len(queue) + k \in DOMAIN queue' /\ Len(queue) + k # 1 /\ queue'[Len(queue) + k] = x
    BY <1>5, <1>6, <2>1
  <2> QED BY <2>2
<1>9. 1 \in DOMAIN queue /\ 1 \in DOMAIN queue' /\ queue'[1] = queue[1] /\ queue' # <<>>
  BY <1>5, <1>6
<1>10. \A i, j \in DOMAIN queue' : i <= j /\ j \in DOMAIN queue => i \in DOMAIN queue
  BY <1>5, <1>6
<1> QED BY <1>6, <1>7, <1>8, <1>9, <1>10

\* The LAN looked at leads from the current router to those found.
LEMMA FoundIsNextTo ==
    ASSUME TypeOK, SearchInv, source # None, queue # <<>>,
           NEW l \in exploring, Exports(Current, l), NEW r \in snapshot.routers[l]
    PROVE  /\ l \in Lans /\ l \in snapshot.lans[Current] /\ r \in Routers
           /\ Leads(snapshot, source, Current, r)
           /\ NextTo(r, Current)
<1>1. SearchTypes /\ source \in Routers
  BY DEF SearchInv, TypeOK
<1>2. l \in snapshot.lans[Current] /\ Current \in Routers
  BY <1>1, CurrentIsFirst DEF SearchTypes
<1>3. l \in Lans /\ r \in Routers
  BY <1>2, SnapshotParts
<1>4. Leads(snapshot, source, Current, r)
  BY <1>2 DEF Leads, Exports
<1>5. NextTo(r, Current)
  BY <1>1, <1>3, <1>4, OneHop, SnapshotParts DEF NextTo
<1> QED BY <1>2, <1>3, <1>4, <1>5

\* The first hop to the current router is the first hop to those it leads to.
LEMMA FirstHopToFound ==
    ASSUME TypeOK, SearchInv, source # None, queue # <<>>,
           NEW l \in exploring, Exports(Current, l), NEW r \in snapshot.routers[l] \ visited
    PROVE  FirstHopTo(snapshot, source, r, FirstHop(r, l)) /\ FirstHop(r, l) \in Gateway
<1>1. SearchTypes /\ Explored /\ BreadthFirst /\ FirstHops /\ source \in Routers
  BY DEF SearchInv, TypeOK
<1>2. /\ l \in Lans /\ l \in snapshot.lans[Current] /\ r \in Routers
      /\ Leads(snapshot, source, Current, r)
  BY FoundIsNextTo
<1>3. Current = queue[1] /\ Current \in visited /\ Current \in Routers
  BY <1>1, CurrentIsFirst
<1>4. \A n \in Nat : r \in RoutersWithin(snapshot, source)[n] =>
        n # 0 /\ Current \in RoutersWithin(snapshot, source)[n - 1]
  BY <1>1, <1>3, UnvisitedAreFarther
<1>5. DOMAIN snapshot.lans = Routers /\ DOMAIN snapshot.routers = Lans
  BY SnapshotParts
<1>6. CASE Current = source
  <2>1. FirstHop(r, l) = <<r, l>>
    BY <1>6 DEF FirstHop
  <2>2. r # source
    BY <1>1 DEF SearchTypes
  <2>3. NextHop(snapshot, source, <<r, l>>)
    BY <1>2, <1>5, <1>6, <2>2 DEF NextHop
  <2>4. ASSUME NEW n \in Nat, n # 0 PROVE r \in RoutersWithin(snapshot, r)[n - 1]
    <3>1. n - 1 \in Nat /\ 0 <= n - 1
      BY <2>4
    <3>2. r \in RoutersWithin(snapshot, r)[0]
      BY <1>2, <1>5, WithinLevels
    <3> QED BY <1>2, <1>5, <3>1, <3>2, MoreHops
  <2>5. <<r, l>>[1] = r /\ <<r, l>> \in Gateway
    BY <1>2 DEF Gateway
  <2> QED BY <2>1, <2>3, <2>4, <2>5, <1>4 DEF FirstHopTo
<1>7. CASE Current # source
  <2> DEFINE g == gateways[Current]
             hop == g[1]
  <2>1. FirstHop(r, l) = g
    BY <1>7 DEF FirstHop
  <2>2. FirstHopTo(snapshot, source, Current, g)
    BY <1>1, <1>3, <1>7 DEF FirstHops
  <2>3. NextHop(snapshot, source, g) /\ g \in Gateway /\ hop \in Routers
    BY <2>2, <1>5 DEF FirstHopTo, NextHop, Gateway
  <2>4. Leads(snapshot, hop, Current, r)
    BY <1>2, <1>7 DEF Leads
  <2>5. ASSUME NEW n \in Nat, r \in RoutersWithin(snapshot, source)[n]
        PROVE  n # 0 /\ r \in RoutersWithin(snapshot, hop)[n - 1]
    <3>1. n # 0 /\ n - 1 \in Nat /\ Current \in RoutersWithin(snapshot, source)[n - 1]
      BY <1>4, <2>5
    <3>2. n - 1 # 0 /\ Current \in RoutersWithin(snapshot, hop)[(n - 1) - 1]
      BY <2>2, <3>1 DEF FirstHopTo
    <3>3. (n - 1) - 1 \in Nat /\ ((n - 1) - 1) + 1 = n - 1
      BY <3>1, <3>2
    <3>4. r \in RoutersWithin(snapshot, hop)[((n - 1) - 1) + 1]
      BY <1>2, <1>5, <2>3, <2>4, <3>2, <3>3, OneHop
    <3> QED BY <3>1, <3>3, <3>4
  <2> QED BY <2>1, <2>3, <2>5 DEF FirstHopTo
<1> QED BY <1>6, <1>7

\* The first router that exports a LAN is as near as any other that does.
LEMMA FirstExporterIsNearest ==
    ASSUME TypeOK, SearchInv, source # None, queue # <<>>,
           NEW l \in exploring, Exports(Current, l), Current # source,
           l \notin snapshot.lans[source], reached[l] = None
    PROVE  Good(snapshot, source, l, gateways[Current])
<1>1. SearchTypes /\ Explored /\ BreadthFirst /\ FirstHops /\ source \in Routers
  BY DEF SearchInv, TypeOK
<1>2. Current = queue[1] /\ 1 \in DOMAIN queue /\ Current \in visited /\ Current \in Routers
  BY <1>1, CurrentIsFirst
<1>3. l \in snapshot.lans[Current] \ snapshot.masquerade[Current]
  BY <1>1, <1>2 DEF SearchTypes, Exports
<1>4. DOMAIN snapshot.lans = Routers /\ DOMAIN snapshot.routers = Lans
  BY SnapshotParts
<1> DEFINE g == gateways[Current]
           hop == g[1]
<1>5. FirstHopTo(snapshot, source, Current, g)
  BY <1>1, <1>2 DEF FirstHops
<1>6. NextHop(snapshot, source, g) /\ hop \in Routers
  BY <1>4, <1>5 DEF FirstHopTo, NextHop
<1>7. ASSUME NEW n \in Nat, InReach(snapshot, source, l, n)
      PROVE  Current \in RoutersWithin(snapshot, source)[n]
  <2>1. PICK q \in RoutersWithin(snapshot, source)[n] :
          q # source /\ l \in snapshot.lans[q] \ snapshot.masquerade[q]
    BY <1>7 DEF InReach
  <2>2. CASE q \in visited
    <3>1. Open(q, l)
      BY <1>1, <2>1, <2>2 DEF Explored, Exports
    <3>2. PICK i \in DOMAIN queue : 1 <= i /\ queue[i] = q
      BY <1>1, <3>1, OpenIsQueued DEF SearchTypes
    <3>3. AsNear(queue[1], queue[i])
      BY <1>1, <1>2, <3>2 DEF BreadthFirst
    <3> QED BY <1>2, <2>1, <3>2, <3>3 DEF AsNear
  <2>3. CASE q \notin visited
    <3>1. n # 0 /\ queue[1] \in RoutersWithin(snapshot, source)[n - 1]
      BY <1>1, <2>1, <2>3, UnvisitedAreFarther
    <3>2. n - 1 \in Nat /\ (n - 1) + 1 = n
      BY <3>1
    <3> QED BY <1>1, <1>2, <1>4, <3>1, <3>2, OneHop
  <2> QED BY <2>2, <2>3
<1>8. Shortens(snapshot, source, l, g)
  <2> SUFFICES ASSUME NEW n \in Nat, InReach(snapshot, source, l, n)
               PROVE  n # 0 /\ (l \in snapshot.lans[hop] \/ InReach(snapshot, hop, l, n - 1))
    BY DEF Shortens
  <2>1. n # 0 /\ Current \in RoutersWithin(snapshot, hop)[n - 1]
    BY <1>5, <1>7 DEF FirstHopTo
  <2>2. CASE l \notin snapshot.lans[hop]
    BY <1>3, <2>1, <2>2 DEF InReach
  <2> QED BY <2>1, <2>2
<1>9. \E n \in Nat : InReach(snapshot, source, l, n)
  BY <1>1, <1>2, <1>3 DEF BreadthFirst, InReach
<1> QED BY <1>6, <1>8, <1>9 DEF Good
\* A LAN that the router does not export is passed over.
LEMMA SkipKeepsSearch ==
    ASSUME TypeOK, SearchInv, NEW l \in Lans, Explore(l), ~Exports(Current, l),
           UNCHANGED <<queue, visited, gateways, reached>>
    PROVE  SearchInv'
<1>1. /\ source # None /\ queue # <<>> /\ l \in exploring /\ exploring' = exploring \ {l}
      /\ UNCHANGED <<topology, snapshot, source>>
  BY DEF Explore
<1>2. SearchTypes /\ Explored /\ BreadthFirst /\ FirstHops
  BY <1>1 DEF SearchInv
<1>3. SearchTypes'
  BY <1>1, <1>2 DEF SearchTypes, Routers, Lans, Gateway
<1>4. BreadthFirst' /\ FirstHops'
  BY <1>1, <1>2 DEF BreadthFirst, AsNear, NextTo, FirstHops, Lans
<1>5. Explored'
  <2> SUFFICES ASSUME NEW q \in visited, NEW m \in snapshot.lans[q],
                      Exports(q, m), ~Open(q, m)'
               PROVE  /\ snapshot.routers[m] \subseteq visited
                      /\ q # source /\ m \notin snapshot.lans[source] => reached[m] # None
    BY <1>1 DEF Explored, Exports
  <2>1. ~Open(q, m)
    BY <1>1, <1>2, CurrentIsFirst DEF Open
  <2> QED BY <1>2, <2>1 DEF Explored
<1> QED BY <1>3, <1>4, <1>5 DEF SearchInv

\* A LAN that the router exports is looked at.
LEMMA ExploreKeepsSearch ==
    ASSUME TypeOK, SearchInv, NEW l \in Lans, Explore(l)
    PROVE  SearchInv'
<1>1. /\ source # None /\ queue # <<>> /\ l \in exploring /\ exploring' = exploring \ {l}
      /\ UNCHANGED <<topology, snapshot, source>>
  BY DEF Explore
<1>2. SearchTypes /\ Explored /\ BreadthFirst /\ FirstHops /\ source \in Routers
  BY <1>1 DEF SearchInv, TypeOK
<1> SUFFICES ASSUME Exports(Current, l) PROVE SearchInv'
  BY SkipKeepsSearch DEF Explore
<1> DEFINE found == snapshot.routers[l] \ visited
<1>3. PICK order \in SetToSeqs(found) :
        /\ Reach(l)
        /\ visited' = visited \cup found
        /\ gateways' = [r \in Routers |-> IF r \in found THEN FirstHop(r, l) ELSE gateways[r]]
        /\ queue' = queue \o order
  BY DEF Explore, Visit
<1>4. /\ DOMAIN snapshot.lans = Routers /\ DOMAIN snapshot.routers = Lans
      /\ found \in SUBSET Routers
      /\ Routers' = Routers /\ Lans' = Lans /\ Gateway' = Gateway
  BY <1>1, SnapshotParts DEF Routers, Lans, Gateway
<1>5. /\ queue' \in Seq(Routers) /\ queue' # <<>> /\ queue'[1] = queue[1]
      /\ \A i \in DOMAIN queue : i \in DOMAIN queue' /\ queue'[i] = queue[i]
      /\ \A x \in found : \E i \in DOMAIN queue' : i # 1 /\ queue'[i] = x
      /\ \A i, j \in DOMAIN queue' : i <= j =>
           \/ i \in DOMAIN queue /\ j \in DOMAIN queue
           \/ queue'[j] \in found /\ i \in DOMAIN queue
           \/ queue'[j] \in found /\ queue'[i] \in found
      /\ \A i \in DOMAIN queue' : i \in DOMAIN queue \/ queue'[i] \in found
  BY <1>1, <1>2, <1>3, <1>4, QueueGrows
<1>6. Current = queue[1] /\ 1 \in DOMAIN queue /\ Current \in visited /\ Current \in Routers
  BY <1>1, <1>2, CurrentIsFirst
<1>7. \A r \in found : NextTo(r, Current) /\ Leads(snapshot, source, Current, r)
  BY <1>1, FoundIsNextTo
<1>8. \A r \in found : FirstHopTo(snapshot, source, r, FirstHop(r, l)) /\ FirstHop(r, l) \in Gateway
  BY <1>1, FirstHopToFound
<1>9. Current # source => gateways[Current] \in Gateway \ {None}
  <2> SUFFICES ASSUME Current # source PROVE gateways[Current] \in Gateway \ {None}
    OBVIOUS
  <2>1. gateways[Current] \in Routers \X Lans
    BY <1>2, <1>4, <1>6 DEF FirstHops, FirstHopTo, NextHop
  <2> QED BY <2>1, NoneIsNone DEF Gateway
<1>10. /\ reached' \in [Lans -> Gateway]
       /\ \A m \in Lans : reached[m] # None => reached'[m] = reached[m]
       /\ \A m \in Lans : reached'[m] # reached[m] =>
            /\ m = l /\ reached[m] = None /\ Current # source /\ m \notin snapshot.lans[source]
            /\ reached'[m] = gateways[Current]
       /\ Current # source /\ l \notin snapshot.lans[source] => reached'[l] # None
  BY <1>2, <1>3, <1>9 DEF Reach, SearchTypes
<1> HIDE DEF found
<1>11. SearchTypes'
  <2>1. visited' \subseteq Routers /\ source \in visited'
    BY <1>2, <1>3, <1>4 DEF SearchTypes
  <2>2. \A i \in DOMAIN queue' : queue'[i] \in visited'
    BY <1>2, <1>3, <1>5 DEF SearchTypes
  <2>3. exploring' \subseteq snapshot.lans[queue'[1]]
    BY <1>1, <1>2, <1>5 DEF SearchTypes
  <2>4. gateways' \in [Routers -> Gateway]
    BY <1>2, <1>3, <1>8 DEF SearchTypes
  <2> QED BY <2>1, <2>2, <2>3, <2>4, <1>1, <1>4, <1>5, <1>10 DEF SearchTypes
<1>12. Explored'
  <2> SUFFICES ASSUME NEW q \in visited', NEW m \in snapshot.lans[q],
                      Exports(q, m), ~Open(q, m)'
               PROVE  /\ snapshot.routers[m] \subseteq visited'
                      /\ q # source /\ m \notin snapshot.lans[source] => reached'[m] # None
    BY <1>1 DEF Explored, Exports
  <2>0. q \in Routers /\ m \in Lans
    BY <1>1, <1>4, <1>11, SnapshotParts DEF SearchTypes
  <2>1. q \notin found
    BY <1>5 DEF Open
  <2>2. q \in visited
    BY <2>1, <1>3
  <2>3. CASE ~Open(q, m)
    BY <2>0, <2>2, <2>3, <1>2, <1>3, <1>10 DEF Explored
  <2>4. CASE Open(q, m)
    <3>1. q = Current /\ m = l
      <4>1. ~ \E i \in DOMAIN queue : i # 1 /\ queue[i] = q
        BY <1>5 DEF Open
      <4>2. q = queue[1] /\ m \in exploring /\ m \notin exploring'
        BY <2>4, <4>1, <1>5 DEF Open
      <4> QED BY <4>2, <1>1, <1>6
    <3>2. snapshot.routers[l] \subseteq visited \cup found
      BY DEF found
    <3> QED BY <3>1, <3>2, <1>3, <1>10
  <2> QED BY <2>3, <2>4
<1>13. BreadthFirst'
  <2> DEFINE W == RoutersWithin(snapshot, source)
  <2>1. W' = W
    BY <1>1
  <2>2. \A r \in found : \A n \in Nat : Current \in W[n] => r \in W[n + 1]
    BY <1>7 DEF NextTo
  <2>3. \A r \in found : \A n \in Nat : r \in W[n] => n # 0 /\ Current \in W[n - 1]
    <3>1. \A r \in found : r \notin visited
      BY DEF found
    <3> QED BY <3>1, <1>1, <1>2, <1>6, UnvisitedAreFarther
  <2>4. /\ \A q \in visited : \E n \in Nat : q \in W[n]
        /\ \A i, j \in DOMAIN queue : i <= j => \A n \in Nat : queue[j] \in W[n] => queue[i] \in W[n]
        /\ \A i \in DOMAIN queue : \A n \in Nat : Current \in W[n] => queue[i] \in W[n + 1]
    BY <1>2, <1>6 DEF BreadthFirst, AsNear, NextTo
  <2> HIDE DEF W
  <2>5. \A q \in visited' : \E n \in Nat : q \in W[n]
    <3>1. PICK n \in Nat : Current \in W[n]
      BY <2>4, <1>6
    <3>2. n + 1 \in Nat /\ \A r \in found : r \in W[n + 1]
      BY <2>2, <3>1
    <3> QED BY <2>4, <3>2, <1>3
  <2>6. ASSUME NEW i \in DOMAIN queue', NEW j \in DOMAIN queue', i <= j,
               NEW n \in Nat, queue'[j] \in W[n]
        PROVE  queue'[i] \in W[n]
    <3>1. CASE i \in DOMAIN queue /\ j \in DOMAIN queue
      BY <2>4, <2>6, <3>1, <1>5
    <3>2. CASE queue'[j] \in found
      <4>1. n # 0 /\ n - 1 \in Nat /\ (n - 1) + 1 = n /\ Current \in W[n - 1]
        BY <2>3, <2>6, <3>2
      <4>2. i \in DOMAIN queue \/ queue'[i] \in found
        BY <1>5
      <4>3. CASE i \in DOMAIN queue
        <5>1. queue[i] \in W[(n - 1) + 1]
          BY <2>4, <4>1, <4>3
        <5> QED BY <5>1, <4>1, <4>3, <1>5
      <4>4. CASE queue'[i] \in found
        <5>1. queue'[i] \in W[(n - 1) + 1]
          BY <2>2, <4>1, <4>4
        <5> QED BY <5>1, <4>1
      <4> QED BY <4>2, <4>3, <4>4
    <3> QED BY <3>1, <3>2, <2>6, <1>5
  <2>7. ASSUME NEW i \in DOMAIN queue', NEW n \in Nat, queue'[1] \in W[n]
        PROVE  queue'[i] \in W[n + 1]
    BY <2>2, <2>4, <2>7, <1>5, <1>6
  <2> QED BY <2>1, <2>5, <2>6, <2>7 DEF BreadthFirst, AsNear, NextTo, W
<1>14. FirstHops'
  <2>1. \A q \in visited' \ {source} : FirstHopTo(snapshot, source, q, gateways'[q])
    <3> SUFFICES ASSUME NEW q \in visited', q # source
                 PROVE  FirstHopTo(snapshot, source, q, gateways'[q])
      OBVIOUS
    <3>1. q \in Routers
      BY <1>4, <1>11 DEF SearchTypes
    <3>2. CASE q \in found
      <4>1. gateways'[q] = FirstHop(q, l)
        BY <3>1, <3>2, <1>3
      <4> QED BY <4>1, <3>2, <1>8
    <3>3. CASE q \notin found
      <4>1. gateways'[q] = gateways[q] /\ q \in visited
        BY <3>1, <3>3, <1>3
      <4> QED BY <4>1, <1>2 DEF FirstHops
    <3> QED BY <3>2, <3>3
  <2>2. ASSUME NEW m \in Lans, reached'[m] # None
        PROVE  Good(snapshot, source, m, reached'[m])
    <3>1. CASE reached'[m] = reached[m]
      BY <2>2, <3>1, <1>2 DEF FirstHops
    <3>2. CASE reached'[m] # reached[m]
      <4>1. /\ m = l /\ reached[m] = None /\ Current # source /\ m \notin snapshot.lans[source]
            /\ reached'[m] = gateways[Current]
        BY <3>2, <1>10
      <4> QED BY <4>1, <1>1, FirstExporterIsNearest
    <3> QED BY <3>1, <3>2
  <2> QED BY <2>1, <2>2, <1>1, <1>4 DEF FirstHops
<1> QED BY <1>11, <1>12, <1>13, <1>14 DEF SearchInv

\* The next router of the queue.
LEMMA NextRouterKeepsSearch ==
    ASSUME TypeOK, SearchInv, NextRouter
    PROVE  SearchInv'
<1>1. /\ source # None /\ queue # <<>> /\ exploring = {}
      /\ queue' = Tail(queue)
      /\ exploring' = IF Len(queue) = 1 THEN {} ELSE snapshot.lans[queue[2]]
      /\ UNCHANGED <<topology, snapshot, source, visited, gateways, reached>>
  BY DEF NextRouter
<1>2. SearchTypes /\ Explored /\ BreadthFirst /\ FirstHops
  BY <1>1 DEF SearchInv
<1>3. queue \in Seq(Routers) /\ Len(queue) \in Nat /\ Len(queue) # 0
  BY <1>1, <1>2 DEF SearchTypes
<1>4. /\ queue' \in Seq(Routers) /\ DOMAIN queue' = 1 .. Len(queue) - 1
      /\ DOMAIN queue = 1 .. Len(queue)
      /\ \A i \in DOMAIN queue' : i + 1 \in DOMAIN queue /\ queue'[i] = queue[i + 1]
  BY <1>1, <1>3
<1>5. Routers' = Routers /\ Lans' = Lans /\ Gateway' = Gateway
  BY <1>1 DEF Routers, Lans, Gateway
<1>6. SearchTypes'
  <2>1. exploring' \subseteq (IF queue' = <<>> THEN {} ELSE snapshot.lans[queue'[1]])
    <3>1. CASE Len(queue) = 1
      BY <1>1, <3>1
    <3>2. CASE Len(queue) # 1
      <4>1. 1 \in DOMAIN queue'
        BY <1>3, <1>4, <3>2
      <4>2. queue'[1] = queue[2] /\ queue' # <<>>
        BY <1>4, <4>1
      <4> QED BY <1>1, <3>2, <4>2
    <3> QED BY <3>1, <3>2
  <2> QED BY <2>1, <1>1, <1>2, <1>4, <1>5 DEF SearchTypes
<1>7. Explored'
  <2> SUFFICES ASSUME NEW q \in visited, NEW m \in snapshot.lans[q],
                      Exports(q, m), ~Open(q, m)'
               PROVE  /\ snapshot.routers[m] \subseteq visited
                      /\ q # source /\ m \notin snapshot.lans[source] => reached[m] # None
    BY <1>1 DEF Explored, Exports
  <2>1. ~Open(q, m)
    <3> SUFFICES ASSUME NEW i \in DOMAIN queue, i # 1, queue[i] = q PROVE FALSE
      BY <1>1 DEF Open
    <3>1. i - 1 \in DOMAIN queue' /\ queue'[i - 1] = q
      BY <1>3, <1>4
    <3>2. CASE i - 1 # 1
      BY <3>1, <3>2 DEF Open
    <3>3. CASE i - 1 = 1
      <4>1. Len(queue) # 1 /\ i = 2
        BY <1>3, <1>4, <3>3
      <4>2. m \in exploring'
        BY <1>1, <4>1
      <4>3. queue' # <<>> /\ q = queue'[1]
        BY <1>3, <1>4, <3>1, <3>3
      <4> QED BY <4>2, <4>3 DEF Open
    <3> QED BY <3>2, <3>3
  <2> QED BY <1>2, <2>1 DEF Explored
<1>8. BreadthFirst'
  <2> DEFINE W == RoutersWithin(snapshot, source)
  <2>1. W' = W
    BY <1>1
  <2>2. /\ \A q \in visited : \E n \in Nat : q \in W[n]
        /\ \A i, j \in DOMAIN queue : i <= j => \A n \in Nat : queue[j] \in W[n] => queue[i] \in W[n]
        /\ \A i \in DOMAIN queue : \A n \in Nat : queue[1] \in W[n] => queue[i] \in W[n + 1]
    BY <1>2 DEF BreadthFirst, AsNear, NextTo
  <2> HIDE DEF W
  <2>3. ASSUME NEW i \in DOMAIN queue', NEW j \in DOMAIN queue', i <= j,
               NEW n \in Nat, queue'[j] \in W[n]
        PROVE  queue'[i] \in W[n]
    <3>1. i + 1 \in DOMAIN queue /\ j + 1 \in DOMAIN queue /\ i + 1 <= j + 1
      BY <1>3, <1>4, <2>3
    <3> QED BY <1>4, <2>2, <2>3, <3>1
  <2>4. ASSUME NEW i \in DOMAIN queue', NEW n \in Nat, queue'[1] \in W[n]
        PROVE  queue'[i] \in W[n + 1]
    <3>1. 1 \in DOMAIN queue /\ 2 \in DOMAIN queue /\ 1 <= 2 /\ queue'[1] = queue[2]
      BY <1>3, <1>4
    <3>2. queue[1] \in W[n]
      BY <2>2, <2>4, <3>1
    <3>3. i + 1 \in DOMAIN queue /\ queue'[i] = queue[i + 1]
      BY <1>4
    <3> QED BY <2>2, <3>2, <3>3
  <2> QED BY <2>1, <2>2, <2>3, <2>4, <1>1 DEF BreadthFirst, AsNear, NextTo, W
<1>9. FirstHops'
  BY <1>1, <1>2, <1>5 DEF FirstHops
<1> QED BY <1>6, <1>7, <1>8, <1>9 DEF SearchInv

\* A search begins at its source.
LEMMA SearchBegins ==
    ASSUME TypeOK, NEW r \in Routers, Search(r)
    PROVE  SearchInv'
<1>1. /\ source' = r /\ queue' = <<r>> /\ exploring' = snapshot.lans[r] /\ visited' = {r}
      /\ gateways' = NoGateway(Routers) /\ reached' = NoGateway(Lans)
      /\ UNCHANGED <<topology, snapshot>>
  BY DEF Search
<1>2. /\ queue' \in Seq(Routers) /\ DOMAIN queue' = {1} /\ queue'[1] = r /\ queue' # <<>>
  BY <1>1
<1>3. Routers' = Routers /\ Lans' = Lans /\ Gateway' = Gateway
  BY <1>1 DEF Routers, Lans, Gateway
<1>4. SearchTypes'
  BY <1>1, <1>2, <1>3 DEF SearchTypes, NoGateway, Gateway
<1>5. Explored'
  <2>1. \A l \in snapshot.lans[r] : Open(r, l)'
    BY <1>1, <1>2 DEF Open
  <2> QED BY <1>1, <2>1 DEF Explored
<1>6. BreadthFirst'
  <2>1. r \in RoutersWithin(snapshot, r)[0]
    BY WithinLevels, SnapshotParts
  <2>2. NextTo(r, r)'
    BY <1>1, OneHop, SnapshotParts DEF NextTo
  <2> QED BY <1>1, <1>2, <2>1, <2>2 DEF BreadthFirst, AsNear
<1>7. FirstHops'
  BY <1>1, <1>3 DEF FirstHops, NoGateway
<1> QED BY <1>4, <1>5, <1>6, <1>7 DEF SearchInv
-----------------------------------------------------------------------------
(* Types.                                                                  *)

\* A topology grows by a LAN of a router, or by a router of a LAN that it is
\* attached to, or a router begins to masquerade a LAN.
LEMMA ChangeTypes ==
    ASSUME TypeOK, NEW r \in Routers, NEW l \in Lans,
           RememberLan(r, l) \/ RememberRouter(r, l) \/ RememberMasqueradeLan(r, l)
    PROVE  TopologyOK(topology') /\ GrownFrom(topology, topology')
<1>1. TopologyOK(topology)
  BY DEF TypeOK
<1>2. /\ topology.lans \in [Routers -> SUBSET Lans]
      /\ topology.routers \in [Lans -> SUBSET Routers]
      /\ topology.masquerade \in [Routers -> SUBSET Lans]
      /\ topology = [lans |-> topology.lans, routers |-> topology.routers,
                     masquerade |-> topology.masquerade]
      /\ \A m \in Lans : \A q \in topology.routers[m] : m \in topology.lans[q]
      /\ IsFiniteSet(Routers) /\ Routers \subseteq RouterIds /\ Lans \subseteq LanIds
  BY <1>1 DEF TopologyOK, Topology, Routers, Lans
<1> DEFINE lans == topology'.lans
           routers == topology'.routers
           masquerade == topology'.masquerade
<1>3. /\ topology' = [lans |-> lans, routers |-> routers, masquerade |-> masquerade]
      /\ lans \in [Routers -> SUBSET Lans]
      /\ routers \in [Lans -> SUBSET Routers]
      /\ masquerade \in [Routers -> SUBSET Lans]
      /\ \A q \in Routers : topology.lans[q] \subseteq lans[q]
      /\ \A m \in Lans : topology.routers[m] \subseteq routers[m]
      /\ \A m \in Lans : \A q \in routers[m] : m \in lans[q]
  <2>1. CASE RememberLan(r, l)
    <3>1. topology' = [topology EXCEPT !.lans[r] = @ \cup {l}]
      BY <2>1 DEF RememberLan, Change
    <3>2. /\ lans = [topology.lans EXCEPT ![r] = @ \cup {l}]
          /\ routers = topology.routers /\ masquerade = topology.masquerade
          /\ topology' = [lans |-> lans, routers |-> routers, masquerade |-> masquerade]
      BY <3>1, <1>2
    <3> HIDE DEF lans, routers, masquerade
    <3> QED BY <3>2, <1>2
  <2>2. CASE RememberRouter(r, l)
    <3>1. topology' = [topology EXCEPT !.routers[l] = @ \cup {r}] /\ l \in topology.lans[r]
      BY <2>2 DEF RememberRouter, Change
    <3>2. /\ routers = [topology.routers EXCEPT ![l] = @ \cup {r}]
          /\ lans = topology.lans /\ masquerade = topology.masquerade
          /\ topology' = [lans |-> lans, routers |-> routers, masquerade |-> masquerade]
      BY <3>1, <1>2
    <3> HIDE DEF lans, routers, masquerade
    <3> QED BY <3>1, <3>2, <1>2
  <2>3. CASE RememberMasqueradeLan(r, l)
    <3>1. topology' = [topology EXCEPT !.masquerade[r] = @ \cup {l}]
      BY <2>3 DEF RememberMasqueradeLan, Change
    <3>2. /\ masquerade = [topology.masquerade EXCEPT ![r] = @ \cup {l}]
          /\ routers = topology.routers /\ lans = topology.lans
          /\ topology' = [lans |-> lans, routers |-> routers, masquerade |-> masquerade]
      BY <3>1, <1>2
    <3> HIDE DEF lans, routers, masquerade
    <3> QED BY <3>2, <1>2
  <2> QED BY <2>1, <2>2, <2>3
<1> HIDE DEF lans, routers, masquerade
<1>4. /\ topology'.lans = lans /\ topology'.routers = routers
      /\ DOMAIN lans = Routers /\ DOMAIN routers = Lans
  BY <1>3 DEF lans, routers
<1>5. topology' \in Topology(Routers, Lans)
  BY <1>3 DEF Topology
<1>6. TopologyOK(topology')
  BY <1>2, <1>3, <1>4, <1>5 DEF TopologyOK
<1>7. GrownFrom(topology, topology')
  BY <1>3, <1>4 DEF GrownFrom, Routers, Lans
<1> QED BY <1>6, <1>7

LEMMA GrowingIsTransitive ==
    ASSUME NEW t, NEW u, NEW v, GrownFrom(t, u), GrownFrom(u, v)
    PROVE  GrownFrom(t, v)
<1>1. /\ DOMAIN v.lans = DOMAIN t.lans /\ DOMAIN v.routers = DOMAIN t.routers
      /\ DOMAIN u.lans = DOMAIN t.lans /\ DOMAIN u.routers = DOMAIN t.routers
  BY DEF GrownFrom
<1>2. \A r \in DOMAIN t.lans : t.lans[r] \subseteq u.lans[r] /\ u.lans[r] \subseteq v.lans[r]
  BY <1>1 DEF GrownFrom
<1>3. \A l \in DOMAIN t.routers : t.routers[l] \subseteq u.routers[l] /\ u.routers[l] \subseteq v.routers[l]
  BY <1>1 DEF GrownFrom
<1> QED BY <1>1, <1>2, <1>3 DEF GrownFrom

\* Every topology has grown from itself.
LEMMA GrowingIsReflexive ==
    ASSUME NEW t
    PROVE  GrownFrom(t, t)
BY DEF GrownFrom

\* The updates of a search that is over.
LEMMA PlanTypes ==
    ASSUME TypeOK, SearchInv, Plan
    PROVE  Deletes(source) \in SUBSET Update /\ Adds(source) \in SUBSET Update
<1>1. source \in Routers /\ reached \in [Lans -> Gateway]
  BY DEF Plan, TypeOK, SearchInv, SearchTypes
<1> QED BY <1>1 DEF Deletes, Adds, Update, Gateway

LEMMA NextTypeOK == TypeOK /\ SearchInv /\ [Next]_vars => TypeOK'
<1> SUFFICES ASSUME TypeOK, SearchInv, [Next]_vars PROVE TypeOK'
  OBVIOUS
<1>0. None \notin Routers
  BY NoneIsNone
<1>1. CASE UNCHANGED vars
  BY <1>1 DEF vars, search, TypeOK, Routers, Lans, Gateway, Update
<1>2. ASSUME NEW r \in Routers, NEW l \in Lans,
             RememberLan(r, l) \/ RememberRouter(r, l) \/ RememberMasqueradeLan(r, l)
      PROVE  TypeOK'
  <2>1. TopologyOK(topology') /\ GrownFrom(topology, topology')
    BY <1>2, ChangeTypes
  <2>2. UNCHANGED <<routes, stage, snapshot, sources, source, updates>>
    BY <1>2 DEF RememberLan, RememberRouter, RememberMasqueradeLan, Change, search
  <2>3. GrownFrom(snapshot', topology')
    BY <2>1, <2>2, GrowingIsTransitive DEF TypeOK
  <2>4. Routers' = Routers /\ Lans' = Lans /\ Gateway' = Gateway /\ Update' = Update
    BY <2>1 DEF GrownFrom, Routers, Lans, Gateway, Update
  <2> QED BY <2>1, <2>2, <2>3, <2>4 DEF TypeOK
<1>3. CASE TakeSnapshot
  <2>1. snapshot' = topology /\ UNCHANGED topology
    BY <1>3 DEF TakeSnapshot
  <2>2. GrownFrom(snapshot', topology') /\ TopologyOK(snapshot')
    BY <2>1, GrowingIsReflexive DEF TypeOK
  <2>3. source' = None /\ stage' = "search" /\ sources' = Routers /\ updates' = <<>> /\ routes' = routes
    BY <1>3 DEF TakeSnapshot, TypeOK, search
  <2>4. Routers' = Routers /\ Lans' = Lans /\ Gateway' = Gateway /\ Update' = Update
    BY <2>1 DEF Routers, Lans, Gateway, Update
  <2>5. updates' \in Seq(SUBSET Update) /\ source' \in (Routers \cup {None}) \ sources'
    BY <2>3, <1>0
  <2> QED BY <2>1, <2>2, <2>3, <2>4, <2>5 DEF TypeOK
<1>4. ASSUME NEW r \in Routers, Search(r) PROVE TypeOK'
  BY <1>4 DEF Search, TypeOK, Routers, Lans, Gateway, Update
<1>5. CASE NextRouter \/ \E l \in Lans : Explore(l)
  BY <1>5 DEF NextRouter, Explore, TypeOK, Routers, Lans, Gateway, Update
<1>6. CASE Plan
  <2>1. updates' \in Seq(SUBSET Update)
    <3>1. updates' = updates \o <<Deletes(source), Adds(source)>>
      BY <1>6 DEF Plan
    <3>2. <<Deletes(source), Adds(source)>> \in Seq(SUBSET Update)
      BY <1>6, PlanTypes
    <3> QED BY <3>1, <3>2 DEF TypeOK
  <2> QED BY <1>0, <1>6, <2>1 DEF Plan, TypeOK, Routers, Lans, Gateway, Update
<1>7. CASE BeginUpdates \/ Return
  BY <1>7 DEF BeginUpdates, Return, search, TypeOK, Routers, Lans, Gateway, Update
<1>8. ASSUME NEW u, Apply(u) PROVE TypeOK'
  <2>1. 1 \in DOMAIN updates /\ u \in updates[1] /\ updates[1] \in SUBSET Update
    BY <1>8 DEF Apply, TypeOK
  <2>2. u \in Update /\ u.router \in Routers /\ u.lan \in Lans /\ u.gateway \in Gateway
    BY <2>1 DEF Update
  <2>3. routes' \in [Routers -> [Lans -> Gateway]]
    BY <1>8, <2>2 DEF Apply, TypeOK
  <2>4. updates' \in Seq(SUBSET Update)
    BY <1>8, <2>1 DEF Apply, TypeOK
  <2> QED BY <1>8, <2>3, <2>4 DEF Apply, search, TypeOK, Routers, Lans, Gateway, Update
<1>9. CASE NextUpdates
  <2>1. updates' \in Seq(SUBSET Update)
    BY <1>9 DEF NextUpdates, TypeOK
  <2> QED BY <1>9, <2>1 DEF NextUpdates, search, TypeOK, Routers, Lans, Gateway, Update
<1>10. CASE Fail
  <2>1. updates' \in Seq(SUBSET Update)
    BY <1>10 DEF Fail
  <2> QED BY <1>10, <2>1 DEF Fail, search, TypeOK, Routers, Lans, Gateway, Update
<1> QED BY <1>1, <1>2, <1>3, <1>4, <1>5, <1>6, <1>7, <1>8, <1>9, <1>10 DEF Next

\* Only the search itself changes what the search knows.
LEMMA NextSearchInv == TypeOK /\ SearchInv /\ [Next]_vars => SearchInv'
<1> SUFFICES ASSUME TypeOK, SearchInv, [Next]_vars PROVE SearchInv'
  OBVIOUS
<1>1. CASE UNCHANGED <<topology, snapshot, search>>
  BY <1>1 DEF search, SearchInv, SearchTypes, Explored, Exports, Open, BreadthFirst, AsNear, NextTo,
              FirstHops, Routers, Lans, Gateway
<1>2. CASE source' = None
  BY <1>2 DEF SearchInv
<1>3. ASSUME NEW r \in Routers, NEW l \in Lans,
             RememberLan(r, l) \/ RememberRouter(r, l) \/ RememberMasqueradeLan(r, l)
      PROVE  SearchInv'
  BY <1>2, <1>3 DEF RememberLan, RememberRouter, RememberMasqueradeLan, Change, search, TypeOK
<1>4. CASE TakeSnapshot
  BY <1>2, <1>4 DEF TakeSnapshot, search, TypeOK
<1>5. CASE BeginUpdates \/ NextUpdates \/ Fail \/ Return \/ \E u : Apply(u)
  BY <1>1, <1>5 DEF BeginUpdates, NextUpdates, Fail, Return, Apply
<1>6. CASE Plan
  BY <1>2, <1>6 DEF Plan
<1>7. CASE UNCHANGED vars
  BY <1>1, <1>7 DEF vars
<1> QED BY <1>3, <1>4, <1>5, <1>6, <1>7, NextRouterKeepsSearch, ExploreKeepsSearch, SearchBegins
        DEF Next
-----------------------------------------------------------------------------
(* The updates.                                                            *)

\* A gateway that is good is one, on a LAN of its router.
LEMMA GoodIsGateway ==
    ASSUME TypeOK, NEW r \in Routers, NEW l, NEW g, Good(snapshot, r, l, g)
    PROVE  g # None /\ g[1] # r /\ g[2] \in topology.lans[r] /\ g[1] \in topology.routers[g[2]]
<1>1. /\ g \in Routers \X Lans /\ g[1] # r
      /\ g[2] \in snapshot.lans[r] /\ g[1] \in snapshot.routers[g[2]]
  BY SnapshotParts DEF Good, NextHop
<1>2. g[2] \in Lans
  BY <1>1
<1>3. snapshot.lans[r] \subseteq topology.lans[r]
      /\ snapshot.routers[g[2]] \subseteq topology.routers[g[2]]
  BY <1>2, SnapshotParts DEF TypeOK, GrownFrom
<1> QED BY <1>1, <1>3, NoneIsNone

\* A search that is over promises what it found, and breaks no promise.
LEMMA PlanKeepsUpdates ==
    ASSUME TypeOK, SearchInv, UpdatesInv, Plan
    PROVE  UpdatesInv'
<1>1. /\ source # None /\ queue = <<>>
      /\ updates' = updates \o <<Deletes(source), Adds(source)>>
      /\ source' = None
      /\ UNCHANGED <<topology, routes, stage, snapshot, sources>>
  BY DEF Plan
<1>2. /\ source \in Routers /\ source \notin sources
      /\ Routers' = Routers /\ Lans' = Lans
      /\ None \notin Routers
  BY <1>1, NoneIsNone DEF TypeOK, Routers, Lans
<1> DEFINE n == Len(updates)
<1>3. n \in Nat /\ DOMAIN updates = 1 .. n
  BY DEF TypeOK
<1>4. /\ DOMAIN updates' = 1 .. n + 2
      /\ \A i \in 1 .. n : updates'[i] = updates[i]
      /\ updates'[n + 1] = Deletes(source) /\ updates'[n + 2] = Adds(source)
  <2>1. updates \in Seq(SUBSET Update)
    BY DEF TypeOK
  <2>2. <<Deletes(source), Adds(source)>> \in Seq(SUBSET Update)
    BY PlanTypes
  <2> QED BY <2>1, <2>2, <1>1
<1>5. \A i \in DOMAIN updates' : i \in DOMAIN updates \/ i = n + 1 \/ i = n + 2
  BY <1>3, <1>4
<1>6. /\ \A u \in Deletes(source) : u.router = source /\ u.gateway = None
      /\ \A u \in Adds(source) : u.router = source /\ u.gateway # None
                                 /\ u.lan \in Lans /\ u.gateway = reached[u.lan]
  BY DEF Deletes, Adds
<1> HIDE DEF n
<1>7. \A i \in DOMAIN updates : \A u \in updates[i] : u.router \notin sources \cup {source}
  BY DEF UpdatesInv, OfSearched
<1>8. OfSearched'
  <2> SUFFICES ASSUME NEW i \in DOMAIN updates', NEW u \in updates'[i]
               PROVE  u.router \notin sources \cup {None}
    BY <1>1 DEF OfSearched
  <2>1. CASE i \in DOMAIN updates
    <3>1. u \in updates[i] /\ updates[i] \in SUBSET Update
      BY <2>1, <1>3, <1>4 DEF TypeOK
    <3>2. u.router \in Routers
      BY <3>1 DEF Update
    <3> QED BY <1>2, <1>7, <2>1, <3>1, <3>2
  <2>2. CASE i = n + 1 \/ i = n + 2
    BY <2>2, <1>1, <1>2, <1>4, <1>6
  <2> QED BY <2>1, <2>2, <1>5
<1>9. AddsGood'
  <2> SUFFICES ASSUME NEW i \in DOMAIN updates', NEW u \in updates'[i], u.gateway # None
               PROVE  Good(snapshot, u.router, u.lan, u.gateway)
    BY <1>1 DEF AddsGood
  <2>1. CASE i \in DOMAIN updates
    BY <2>1, <1>3, <1>4 DEF UpdatesInv, AddsGood
  <2>2. CASE i = n + 1
    BY <2>2, <1>4, <1>6
  <2>3. CASE i = n + 2
    BY <2>3, <1>1, <1>4, <1>6 DEF SearchInv, FirstHops
  <2> QED BY <2>1, <2>2, <2>3, <1>5
<1>10. DeletesFirst'
  <2> SUFFICES ASSUME NEW i \in DOMAIN updates', NEW j \in DOMAIN updates',
                      NEW u \in updates'[i], NEW v \in updates'[j],
                      u.router = v.router, u.lan = v.lan, u.gateway = None, v.gateway # None
               PROVE  i < j
    BY DEF DeletesFirst
  <2>1. CASE i \in DOMAIN updates /\ j \in DOMAIN updates
    BY <2>1, <1>3, <1>4 DEF UpdatesInv, DeletesFirst
  <2>2. \A k \in {n + 1, n + 2} : \A w \in updates'[k] : w.router = source
    BY <1>4, <1>6
  <2>3. CASE i \in DOMAIN updates /\ j \notin DOMAIN updates
    BY <2>2, <2>3, <1>3, <1>4, <1>5, <1>7
  <2>4. CASE i \notin DOMAIN updates /\ j \in DOMAIN updates
    BY <2>2, <2>4, <1>3, <1>4, <1>5, <1>7
  <2>5. CASE i \notin DOMAIN updates /\ j \notin DOMAIN updates
    <3>1. i # n + 2 /\ j # n + 1
      BY <1>4, <1>6
    <3> QED BY <2>5, <3>1, <1>3, <1>5
  <2> QED BY <2>1, <2>3, <2>4, <2>5
<1>11. Promises'
  <2> SUFFICES ASSUME stage # "idle", NEW r \in Routers \ sources, NEW l \in Lans \ snapshot.lans[r]
               PROVE  Promised(r, l)'
    BY <1>1, <1>2 DEF Promises
  <2>1. CASE r # source
    <3>1. Promised(r, l)
      BY <2>1 DEF UpdatesInv, Promises
    <3>2. Added(r, l)' <=> Added(r, l)
      <4>1. \A i \in {n + 1, n + 2} : \A u \in updates'[i] : u.router # r
        BY <2>1, <1>4, <1>6
      <4> QED BY <4>1, <1>3, <1>4, <1>5 DEF Added
    <3>3. Deleted(r, l)' <=> Deleted(r, l)
      <4>1. \A i \in {n + 1, n + 2} : \A u \in updates'[i] : u.router # r
        BY <2>1, <1>4, <1>6
      <4> QED BY <4>1, <1>3, <1>4, <1>5 DEF Deleted
    <3> QED BY <3>1, <3>2, <3>3, <1>1 DEF Promised
  <2>2. CASE r = source
    <3>1. Deleted(r, l)'
      <4>1. [router |-> source, lan |-> l, gateway |-> None] \in updates'[n + 1]
        BY <2>2, <1>4 DEF Deletes
      <4>2. n + 1 \in DOMAIN updates'
        BY <1>3, <1>4
      <4> QED BY <2>2, <4>1, <4>2 DEF Deleted
    <3>2. ASSUME reached[l] # None PROVE Added(r, l)'
      <4>1. [router |-> source, lan |-> l, gateway |-> reached[l]] \in updates'[n + 2]
        BY <3>2, <1>4 DEF Adds
      <4>2. n + 2 \in DOMAIN updates'
        BY <1>3, <1>4
      <4> QED BY <2>2, <3>2, <4>1, <4>2 DEF Added
    <3>3. reached[l] # None <=> \E k \in Nat : InReach(snapshot, source, l, k)
      BY <2>2, <1>1, SearchFindsAll
    <3> QED BY <2>2, <3>1, <3>2, <3>3, <1>1 DEF Promised
  <2> QED BY <2>1, <2>2
<1> QED BY <1>8, <1>9, <1>10, <1>11 DEF UpdatesInv

\* An update that is applied is a promise kept.
LEMMA ApplyKeepsUpdates ==
    ASSUME TypeOK, UpdatesInv, NEW u, Apply(u)
    PROVE  UpdatesInv'
<1>1. /\ stage = "apply" /\ updates # <<>> /\ u \in Head(updates)
      /\ routes' = [routes EXCEPT ![u.router][u.lan] = u.gateway]
      /\ updates' = [updates EXCEPT ![1] = @ \ {u}]
      /\ UNCHANGED <<topology, stage, snapshot, sources, source>>
  BY DEF Apply, search
<1>2. /\ updates \in Seq(SUBSET Update) /\ 1 \in DOMAIN updates
      /\ Head(updates) = updates[1] /\ \A i \in DOMAIN updates : 1 <= i /\ i \in Nat
  BY <1>1 DEF TypeOK
<1>3. u \in updates[1] /\ u.router \in Routers /\ u.lan \in Lans
  BY <1>1, <1>2 DEF Update
<1>4. /\ DOMAIN updates' = DOMAIN updates
      /\ \A i \in DOMAIN updates : updates'[i] = IF i = 1 THEN updates[1] \ {u} ELSE updates[i]
  BY <1>1, <1>2
<1>5. \A i \in DOMAIN updates : \A v : v \in updates[i] => v \in updates'[i] \/ (i = 1 /\ v = u)
  BY <1>4
<1>6. \A i \in DOMAIN updates' : i \in DOMAIN updates /\ updates'[i] \subseteq updates[i]
  BY <1>4
<1>7. OfSearched' /\ AddsGood' /\ DeletesFirst'
  <2>1. OfSearched'
    BY <1>1, <1>6 DEF UpdatesInv, OfSearched
  <2>2. AddsGood'
    BY <1>1, <1>6 DEF UpdatesInv, AddsGood
  <2>3. DeletesFirst'
    BY <1>6 DEF UpdatesInv, DeletesFirst
  <2> QED BY <2>1, <2>2, <2>3
<1>8. Promises'
  <2> SUFFICES ASSUME NEW r \in Routers \ (sources \cup {source}), NEW l \in Lans \ snapshot.lans[r]
               PROVE  Promised(r, l)'
    BY <1>1 DEF Promises, Routers, Lans
  <2>1. Promised(r, l)
    BY <1>1 DEF UpdatesInv, Promises
  <2>2. routes'[r][l] = IF r = u.router /\ l = u.lan THEN u.gateway ELSE routes[r][l]
    BY <1>1, <1>3 DEF TypeOK
  <2>3. (Added(r, l)' => Added(r, l)) /\ (Deleted(r, l)' => Deleted(r, l))
    BY <1>6 DEF Added, Deleted
  <2>4. CASE ~(r = u.router /\ l = u.lan)
    <3>1. Added(r, l) => Added(r, l)'
      BY <2>4, <1>4, <1>5 DEF Added
    <3>2. Deleted(r, l) => Deleted(r, l)'
      BY <2>4, <1>4, <1>5 DEF Deleted
    <3> QED BY <2>1, <2>2, <2>3, <2>4, <3>1, <3>2, <1>1 DEF Promised
  <2>5. CASE r = u.router /\ l = u.lan /\ u.gateway = None
    <3>1. Deleted(r, l)
      BY <2>5, <1>2, <1>3 DEF Deleted
    <3>2. Added(r, l) => Added(r, l)'
      BY <2>5, <1>4, <1>5 DEF Added
    <3> QED BY <2>1, <2>2, <2>5, <3>1, <3>2, <1>1 DEF Promised
  <2>6. CASE r = u.router /\ l = u.lan /\ u.gateway # None
    <3>1. Good(snapshot, r, l, u.gateway)
      BY <2>6, <1>2, <1>3 DEF UpdatesInv, AddsGood
    <3>2. ~Deleted(r, l)
      BY <2>6, <1>2, <1>3 DEF UpdatesInv, DeletesFirst, Deleted
    <3>3. \E k \in Nat : InReach(snapshot, r, l, k)
      BY <3>1 DEF Good
    <3> QED BY <2>2, <2>3, <2>6, <3>1, <3>2, <3>3, <1>1 DEF Promised
  <2> QED BY <2>4, <2>5, <2>6
<1> QED BY <1>7, <1>8 DEF UpdatesInv

\* A set of updates that is done promises nothing more.
LEMMA NextUpdatesKeepsUpdates ==
    ASSUME TypeOK, UpdatesInv, NextUpdates
    PROVE  UpdatesInv'
<1>1. /\ stage = "apply" /\ updates # <<>> /\ Head(updates) = {} /\ updates' = Tail(updates)
      /\ UNCHANGED <<topology, routes, stage, snapshot, sources, source>>
  BY DEF NextUpdates, search
<1>2. updates \in Seq(SUBSET Update) /\ Len(updates) \in Nat /\ Len(updates) # 0
  BY <1>1 DEF TypeOK
<1>3. /\ DOMAIN updates = 1 .. Len(updates) /\ DOMAIN updates' = 1 .. Len(updates) - 1
      /\ \A i \in DOMAIN updates' : i + 1 \in DOMAIN updates /\ updates'[i] = updates[i + 1]
      /\ updates[1] = {}
  BY <1>1, <1>2
<1>4. \A i \in DOMAIN updates : updates[i] = {} \/ (i - 1 \in DOMAIN updates' /\ updates'[i - 1] = updates[i])
  <2> SUFFICES ASSUME NEW i \in DOMAIN updates, i # 1
               PROVE  i - 1 \in DOMAIN updates' /\ updates'[i - 1] = updates[i]
    BY <1>3
  <2>1. i - 1 \in DOMAIN updates' /\ (i - 1) + 1 = i
    BY <1>2, <1>3
  <2> QED BY <1>3, <2>1
<1>5. OfSearched'
  BY <1>1, <1>3 DEF UpdatesInv, OfSearched
<1>6. AddsGood'
  BY <1>1, <1>3 DEF UpdatesInv, AddsGood
<1>7. DeletesFirst'
  <2> SUFFICES ASSUME NEW i \in DOMAIN updates', NEW j \in DOMAIN updates',
                      NEW v \in updates'[i], NEW w \in updates'[j],
                      v.router = w.router, v.lan = w.lan, v.gateway = None, w.gateway # None
               PROVE  i < j
    BY DEF DeletesFirst
  <2>1. v \in updates[i + 1] /\ w \in updates[j + 1]
        /\ i + 1 \in DOMAIN updates /\ j + 1 \in DOMAIN updates
    BY <1>3
  <2>2. i + 1 < j + 1
    BY <2>1 DEF UpdatesInv, DeletesFirst
  <2> QED BY <2>2, <1>2, <1>3
<1>8. Promises'
  <2> SUFFICES ASSUME NEW r \in Routers \ (sources \cup {source}), NEW l \in Lans \ snapshot.lans[r]
               PROVE  Promised(r, l)'
    BY <1>1 DEF Promises, Routers, Lans
  <2>1. Promised(r, l)
    BY <1>1 DEF UpdatesInv, Promises
  <2>2. Added(r, l)' <=> Added(r, l)
    BY <1>3, <1>4 DEF Added
  <2>3. Deleted(r, l)' <=> Deleted(r, l)
    BY <1>3, <1>4 DEF Deleted
  <2> QED BY <2>1, <2>2, <2>3, <1>1 DEF Promised
<1> QED BY <1>5, <1>6, <1>7, <1>8 DEF UpdatesInv

LEMMA NextUpdatesInv == TypeOK /\ SearchInv /\ UpdatesInv /\ [Next]_vars => UpdatesInv'
<1> SUFFICES ASSUME TypeOK, SearchInv, UpdatesInv, [Next]_vars PROVE UpdatesInv'
  OBVIOUS
<1>0. None \notin Routers
  BY NoneIsNone
\* Nothing that the updates are about changes.
<1>1. CASE UNCHANGED <<routes, snapshot, sources, source, updates>> /\ (stage' # "idle" => stage # "idle")
           /\ Routers' = Routers /\ Lans' = Lans
  BY <1>1 DEF UpdatesInv, OfSearched, AddsGood, DeletesFirst, Promises, Promised, Added, Deleted
<1>2. ASSUME NEW r \in Routers, NEW l \in Lans,
             RememberLan(r, l) \/ RememberRouter(r, l) \/ RememberMasqueradeLan(r, l)
      PROVE  UpdatesInv'
  <2>1. UNCHANGED <<routes, stage, snapshot, sources, source, updates>>
    BY <1>2 DEF RememberLan, RememberRouter, RememberMasqueradeLan, Change, search
  <2>2. Routers' = Routers /\ Lans' = Lans
    BY <1>2, ChangeTypes DEF GrownFrom, Routers, Lans
  <2> QED BY <1>1, <2>1, <2>2
<1>3. CASE TakeSnapshot \/ Fail
  <2>1. updates' = <<>> /\ topology' = topology
    BY <1>3 DEF TakeSnapshot, Fail
  <2>2. stage' # "idle" => sources' = Routers'
    BY <1>3 DEF TakeSnapshot, Fail, Routers
  <2>3. OfSearched' /\ AddsGood' /\ DeletesFirst'
    BY <2>1 DEF OfSearched, AddsGood, DeletesFirst
  <2>4. Promises'
    BY <2>2 DEF Promises
  <2> QED BY <2>3, <2>4 DEF UpdatesInv
<1>4. ASSUME NEW r \in Routers, Search(r) PROVE UpdatesInv'
  <2>1. /\ UNCHANGED <<topology, routes, stage, snapshot, updates>>
        /\ sources' \cup {source'} \subseteq sources \cup {source}
             \cup {r} /\ r \in sources /\ source = None /\ source' = r /\ sources' = sources \ {r}
    BY <1>4 DEF Search
  <2>2. sources' \cup {source'} = sources /\ sources \subseteq Routers
    BY <2>1 DEF TypeOK
  <2>3. Routers \ (sources' \cup {source'}) = Routers \ (sources \cup {source})
    BY <2>1, <2>2, <1>0
  <2>4. Routers' = Routers /\ Lans' = Lans
    BY <2>1 DEF Routers, Lans
  <2>5. OfSearched' /\ AddsGood' /\ DeletesFirst'
    BY <2>1, <2>2 DEF UpdatesInv, OfSearched, AddsGood, DeletesFirst
  <2>6. Promises'
    <3> SUFFICES ASSUME stage # "idle", NEW q \in Routers \ (sources \cup {source}),
                        NEW l \in Lans \ snapshot.lans[q]
                 PROVE  Promised(q, l)'
      BY <2>1, <2>3, <2>4 DEF Promises
    <3>1. Promised(q, l)
      BY DEF UpdatesInv, Promises
    <3> QED BY <3>1, <2>1 DEF Promised, Added, Deleted
  <2> QED BY <2>5, <2>6 DEF UpdatesInv
<1>5. CASE NextRouter \/ BeginUpdates \/ Return \/ \E l \in Lans : Explore(l)
  <2>1. UNCHANGED <<topology, routes, snapshot, sources, source, updates>>
        /\ (stage' # "idle" => stage # "idle")
    BY <1>5 DEF NextRouter, BeginUpdates, Return, Explore, search
  <2> QED BY <1>1, <2>1 DEF Routers, Lans
<1>6. CASE UNCHANGED vars
  BY <1>1, <1>6 DEF vars, search, Routers, Lans
<1> QED BY <1>2, <1>3, <1>4, <1>5, <1>6, PlanKeepsUpdates, ApplyKeepsUpdates, NextUpdatesKeepsUpdates
        DEF Next

LEMMA NextAllApplied == TypeOK /\ AllApplied /\ [Next]_vars => AllApplied'
<1> SUFFICES ASSUME TypeOK, AllApplied, [Next]_vars PROVE AllApplied'
  OBVIOUS
<1>1. CASE stage' # "settled"
  BY <1>1 DEF AllApplied
<1>2. CASE UNCHANGED <<stage, updates>>
  BY <1>2 DEF AllApplied
<1>3. ASSUME NEW r \in Routers, NEW l \in Lans,
             RememberLan(r, l) \/ RememberRouter(r, l) \/ RememberMasqueradeLan(r, l)
      PROVE  AllApplied'
  BY <1>2, <1>3 DEF RememberLan, RememberRouter, RememberMasqueradeLan, Change
<1>4. CASE Plan
  BY <1>1, <1>4 DEF Plan, TypeOK
<1>5. CASE Return
  BY <1>5 DEF Return, AllApplied
<1>6. CASE TakeSnapshot \/ BeginUpdates \/ Fail \/ NextUpdates \/ \E u : Apply(u)
  BY <1>1, <1>6 DEF TakeSnapshot, BeginUpdates, Fail, NextUpdates, Apply
<1>7. CASE NextRouter \/ (\E r \in Routers : Search(r)) \/ (\E l \in Lans : Explore(l)) \/ UNCHANGED vars
  BY <1>2, <1>7 DEF NextRouter, Search, Explore, vars
<1> QED BY <1>3, <1>4, <1>5, <1>6, <1>7 DEF Next

LEMMA NextOnLink == TypeOK /\ UpdatesInv /\ OnLink /\ [Next]_vars => OnLink'
<1> SUFFICES ASSUME TypeOK, UpdatesInv, OnLink, [Next]_vars PROVE OnLink'
  OBVIOUS
<1>1. CASE UNCHANGED <<topology, routes>>
  BY <1>1 DEF OnLink, Routers, Lans
<1>2. ASSUME NEW r \in Routers, NEW l \in Lans,
             RememberLan(r, l) \/ RememberRouter(r, l) \/ RememberMasqueradeLan(r, l)
      PROVE  OnLink'
  <2>1. routes' = routes /\ GrownFrom(topology, topology')
    BY <1>2, ChangeTypes DEF RememberLan, RememberRouter, RememberMasqueradeLan, Change
  <2>2. Routers' = Routers /\ Lans' = Lans
    BY <2>1 DEF GrownFrom, Routers, Lans
  <2> SUFFICES ASSUME NEW q \in Routers, NEW m \in Lans, routes[q][m] # None
               PROVE  LET hop == routes[q][m] IN
                      hop[1] # q /\ hop[2] \in topology'.lans[q] /\ hop[1] \in topology'.routers[hop[2]]
    BY <2>1, <2>2 DEF OnLink
  <2> DEFINE hop == routes[q][m]
  <2>3. hop[1] # q /\ hop[2] \in topology.lans[q] /\ hop[1] \in topology.routers[hop[2]]
    BY DEF OnLink
  <2>4. hop \in Routers \X Lans
    BY DEF TypeOK, Gateway
  <2>5. hop[2] \in Lans
    BY <2>4
  <2> HIDE DEF hop
  <2>6. hop[2] \in topology'.lans[q] /\ hop[1] \in topology'.routers[hop[2]]
    BY <2>1, <2>3, <2>5 DEF GrownFrom, Routers, Lans
  <2> QED BY <2>3, <2>6 DEF hop
<1>3. ASSUME NEW u, Apply(u) PROVE OnLink'
  <2>1. /\ updates # <<>> /\ u \in Head(updates) /\ topology' = topology
        /\ routes' = [routes EXCEPT ![u.router][u.lan] = u.gateway]
    BY <1>3 DEF Apply
  <2>2. 1 \in DOMAIN updates /\ u \in updates[1] /\ updates[1] \in SUBSET Update
    BY <2>1 DEF TypeOK
  <2>3. u.router \in Routers
    BY <2>2 DEF Update
  <2>4. u.gateway # None => Good(snapshot, u.router, u.lan, u.gateway)
    BY <2>2 DEF UpdatesInv, AddsGood
  <2>5. u.gateway # None =>
          /\ u.gateway[1] # u.router /\ u.gateway[2] \in topology.lans[u.router]
          /\ u.gateway[1] \in topology.routers[u.gateway[2]]
    BY <2>3, <2>4, GoodIsGateway
  <2>6. ASSUME NEW r \in Routers, NEW l \in Lans
        PROVE  routes'[r][l] = routes[r][l] \/ (r = u.router /\ routes'[r][l] = u.gateway)
    BY <2>1 DEF TypeOK
  <2> QED BY <2>1, <2>5, <2>6 DEF OnLink, Routers, Lans
<1>4. CASE TakeSnapshot \/ NextRouter \/ Plan \/ BeginUpdates \/ NextUpdates \/ Fail \/ Return
           \/ (\E r \in Routers : Search(r)) \/ (\E l \in Lans : Explore(l)) \/ UNCHANGED vars
  BY <1>1, <1>4 DEF TakeSnapshot, NextRouter, Plan, BeginUpdates, NextUpdates, Fail, Return, Search,
                    Explore, vars
<1> QED BY <1>2, <1>3, <1>4 DEF Next

LEMMA InitIInv == Init => IInv
<1> SUFFICES ASSUME Init PROVE IInv
  OBVIOUS
<1>1. PICK w \in Workloads : topology = w.topology
  BY DEF Init
<1>2. PICK routers \in SUBSET RouterIds, lans \in SUBSET LanIds :
        /\ topology \in Topology(routers, lans)
        /\ \A r \in routers : topology.lans[r] = {l \in lans : r \in topology.routers[l]}
  BY <1>1, WorkloadsAssumption
<1>3. /\ Routers = routers /\ Lans = lans
      /\ topology.routers \in [lans -> SUBSET routers]
  BY <1>2 DEF Topology, Routers, Lans
<1>4. TopologyOK(topology)
  <2>1. IsFiniteSet(routers)
    BY RoutersAssumption, FS_Subset
  <2>2. \A l \in lans : \A r \in topology.routers[l] : l \in topology.lans[r]
    BY <1>2, <1>3
  <2> QED BY <1>2, <1>3, <2>1, <2>2 DEF TopologyOK, Routers, Lans
<1>5. None \notin Routers
  BY <1>2, <1>3, NoneAssumption
<1>6. TypeOK
  <2>1. snapshot = topology /\ source = None /\ sources = {} /\ updates = <<>> /\ stage = "idle"
        /\ routes = [r \in Routers |-> [l \in Lans |-> None]]
    BY DEF Init, NoGateway
  <2> QED BY <1>4, <2>1, GrowingIsReflexive DEF TypeOK, Gateway
<1>7. SearchInv /\ AllApplied
  BY DEF Init, SearchInv, AllApplied
<1>8. UpdatesInv
  BY DEF Init, UpdatesInv, OfSearched, AddsGood, DeletesFirst, Promises
<1>9. OnLink
  BY DEF Init, OnLink, NoGateway
<1> QED BY <1>6, <1>7, <1>8, <1>9 DEF IInv

\* The invariant holds in every reachable state.
THEOREM IInvariant == Spec => []IInv
<1>1. IInv /\ [Next]_vars => IInv'
  BY NextTypeOK, NextSearchInv, NextUpdatesInv, NextAllApplied, NextOnLink DEF IInv
<1> QED BY <1>1, InitIInv, PTL DEF Spec
-----------------------------------------------------------------------------
(* What a call promises.                                                   *)

\* Once settled, the routes are good and there are no others.
LEMMA SettledRoutes ==
    ASSUME IInv, Settled, NEW r \in Routers, NEW l \in Lans \ topology.lans[r]
    PROVE  IF \E n \in Nat : InReach(topology, r, l, n)
           THEN routes[r][l] # None /\ Good(topology, r, l, routes[r][l])
           ELSE routes[r][l] = None
<1>1. /\ TypeOK /\ Promises /\ updates = <<>> /\ snapshot = topology
      /\ stage = "settled" /\ sources = {} /\ source = None
  BY DEF IInv, UpdatesInv, AllApplied, Settled, TypeOK
<1>2. None \notin Routers
  BY <1>1, NoneIsNone
<1>3. Promised(r, l)
  BY <1>1, <1>2 DEF Promises
<1>4. ~Added(r, l) /\ ~Deleted(r, l)
  BY <1>1 DEF Added, Deleted
<1>5. Good(topology, r, l, routes[r][l]) => routes[r][l] # None
  BY <1>1, GoodIsGateway
<1> QED BY <1>1, <1>3, <1>4, <1>5 DEF Promised

\* A packet on its way.
LEMMA PacketHops ==
    ASSUME TypeOK, NEW r \in Routers, NEW l \in Lans
    PROVE  /\ Packet(r, l)[0] = r
           /\ \A n \in Nat : Packet(r, l)[n + 1] = Forward(Packet(r, l)[n], l)
<1> DEFINE S == Routers \cup {None}
           f == [at \in S |-> Forward(at, l)]
           first == r
           P == Packet(r, l)
<1>1. f \in [S -> S]
  <2> SUFFICES ASSUME NEW at \in S PROVE Forward(at, l) \in S
    OBVIOUS
  <2>1. at # None => routes[at][l] \in Gateway
    BY DEF TypeOK
  <2> QED BY <2>1 DEF Forward, Gateway
<1>2. first \in S
  OBVIOUS
<1>3. \A g \in [Nat -> S] : \A n \in Nat : n # 0 => f[g[n - 1]] = Forward(g[n - 1], l)
  OBVIOUS
<1> HIDE DEF f, S, first
<1>4. PICK h \in [Nat -> S] : h = [n \in Nat |-> IF n = 0 THEN first ELSE f[h[n - 1]]]
  BY <1>1, <1>2, Iterates
<1>5. h = [n \in Nat |-> IF n = 0 THEN r ELSE Forward(h[n - 1], l)]
  BY <1>3, <1>4 DEF first
<1>6. P = CHOOSE g : g = [n \in Nat |-> IF n = 0 THEN r ELSE Forward(g[n - 1], l)]
  BY DEF Packet
<1>7. P = [n \in Nat |-> IF n = 0 THEN r ELSE Forward(P[n - 1], l)]
  <2> HIDE DEF P
  <2> QED BY <1>5, <1>6
<1> HIDE DEF P
<1>8. \A n \in Nat : n + 1 \in Nat /\ n + 1 # 0 /\ (n + 1) - 1 = n
  OBVIOUS
<1>9. P[0] = r /\ \A n \in Nat : P[n + 1] = Forward(P[n], l)
  BY <1>7, <1>8
<1> QED BY <1>9 DEF P

\* Whatever a call installs, and whether it succeeds or not, the gateway of a
\* route is the address of another router on a LAN that the router itself is
\* attached to (net.rs:219-225).
THEOREM GatewaysAreOnLink == Spec => []OnLink
<1>1. IInv => OnLink
  BY DEF IInv
<1> QED BY <1>1, IInvariant, PTL

\* Once a call has succeeded and nothing has changed since, a router has a
\* route exactly to the LANs that others export to it, in any network and
\* however the calls before ended (net.rs:199-208, 231-239).
THEOREM RoutesAreExact == Spec => []RoutesExactly
<1>1. ASSUME IInv PROVE RoutesExactly
  <2> SUFFICES ASSUME Settled, NEW r \in Routers, NEW l \in Lans, l \notin topology.lans[r]
               PROVE  routes[r][l] # None <=> InReach(topology, r, l, Cardinality(Routers))
    BY DEF RoutesExactly
  <2>1. IsFiniteSet(Routers)
    BY <1>1, SnapshotParts DEF IInv
  <2>2. Cardinality(Routers) \in Nat
    BY <2>1, FS_CardinalityType
  <2>3. (\E n \in Nat : InReach(topology, r, l, n)) <=> InReach(topology, r, l, Cardinality(Routers))
    BY <2>1, <2>2, ReachIsBounded DEF Routers
  <2> QED BY <1>1, <2>3, SettledRoutes
<1> QED BY <1>1, IInvariant, PTL

\* Once a call has succeeded and nothing has changed since, a packet that
\* follows the routes from router to router arrives at the LAN, within the
\* distance of the nearest router that exports it: the searches of different
\* routers agree although each has an order of its own (net.rs:195-229).
THEOREM PathsAreShortest == Spec => []ShortestPaths
<1>1. ASSUME IInv PROVE ShortestPaths
  <2> SUFFICES ASSUME Settled, NEW r \in Routers, NEW l \in Lans, NEW n \in 1 .. Cardinality(Routers),
                      InReach(topology, r, l, n)
               PROVE  Packet(r, l)[n] # None /\ l \in topology.lans[Packet(r, l)[n]]
    BY DEF ShortestPaths
  <2> DEFINE P == Packet(r, l)
             Nearer(k) == /\ P[k] \in Routers
                          /\ l \in topology.lans[P[k]] \/ InReach(topology, P[k], l, n - k)
             S == {k \in Nat : k <= n => Nearer(k)}
  <2>1. TypeOK /\ n \in Nat
    <3>1. Cardinality(Routers) \in Nat
      BY <1>1, SnapshotParts, FS_CardinalityType DEF IInv
    <3> QED BY <1>1, <3>1 DEF IInv
  <2>2. None \notin Routers
    BY <2>1, NoneIsNone
  <2>3. P[0] = r /\ \A k \in Nat : P[k + 1] = Forward(P[k], l)
    BY <2>1, PacketHops
  <2> HIDE DEF P
  <2>4. 0 \in S
    BY <2>1, <2>3
  <2>5. ASSUME NEW k \in S PROVE k + 1 \in S
    <3> SUFFICES ASSUME k + 1 <= n PROVE Nearer(k + 1)
      OBVIOUS
    <3>1. k \in Nat /\ k <= n /\ n - k \in Nat /\ (n - k) - 1 = n - (k + 1)
      BY <2>1
    <3>2. Nearer(k)
      BY <3>1
    <3> DEFINE at == P[k]
               hop == routes[at][l][1]
    <3>3. CASE l \in topology.lans[at]
      BY <2>3, <3>1, <3>2, <3>3 DEF Forward
    <3>4. CASE l \notin topology.lans[at]
      <4>1. at \in Routers /\ InReach(topology, at, l, n - k)
        BY <3>2, <3>4
      <4>2. routes[at][l] # None /\ Good(topology, at, l, routes[at][l])
        BY <1>1, <3>1, <3>4, <4>1, SettledRoutes
      <4>3. hop \in Routers
        BY <4>2 DEF Good, NextHop, Routers
      <4>4. l \in topology.lans[hop] \/ InReach(topology, hop, l, (n - k) - 1)
        BY <3>1, <4>1, <4>2 DEF Good, Shortens
      <4>5. P[k + 1] = hop
        BY <2>2, <2>3, <3>1, <3>4, <4>1, <4>2 DEF Forward
      <4> HIDE DEF hop, at
      <4> QED BY <3>1, <4>3, <4>4, <4>5
    <3> QED BY <3>3, <3>4
  <2>6. S = Nat
    <3>1. S \in SUBSET Nat
      OBVIOUS
    <3> HIDE DEF S
    <3> QED BY <2>4, <2>5, <3>1, AllNumbers
  <2>7. Nearer(n)
    <3>1. n \in S /\ n <= n
      BY <2>1, <2>6
    <3> QED BY <3>1
  <2>8. n - n = 0
    BY <2>1
  <2>9. ~InReach(topology, P[n], l, 0)
    BY <2>7, ReachIsNotHere DEF Routers
  <2>10. P[n] \in Routers /\ l \in topology.lans[P[n]]
    BY <2>7, <2>8, <2>9
  <2> QED BY <2>2, <2>10 DEF P
<1> QED BY <1>1, IInvariant, PTL
=============================================================================
