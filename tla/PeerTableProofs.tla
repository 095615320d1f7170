-------------------------- MODULE PeerTableProofs --------------------------
(* Proofs about PeerTable: when indexes collide, the stages of paths, the  *)
(* selection of one endpoint, and what a peer keeps, for any peers, lists  *)
(* of endpoints, and lengths and orders of snapshots.                      *)
EXTENDS PeerTable, FiniteSetTheorems, WellFoundedInduction, TLAPS

-----------------------------------------------------------------------------
(* The inductive invariant.                                                *)

PathMaps == UNION {[D -> Path] : D \in SUBSET Endpoints}

\* A peer was told of at least one endpoint.
PeerEntry == [index : Nat, tunnel : Nat, info : {info \in Info : info.endpoints # <<>>},
              paths : PathMaps]

TypeOK ==
    /\ Known \subseteq Keys
    /\ peers \in [Known -> PeerEntry]
    /\ tunnels \in Nat
    /\ clock \in 0 .. MaxClock

\* PathStages, of one path; and no probe was recorded in the future.
Stage(path, e) ==
    LET measured == path.latency # None /\ path.last_seen # None
    IN  /\ path \in Path /\ path.endpoint = e
        /\ IF path.reachable THEN measured
           ELSE ~measured /\ path.last_seen = None /\ path.last_probe # None

PathsOK(peer, now) ==
    \A e \in DOMAIN peer.paths : Stage(peer.paths[e], e) /\ peer.paths[e].last_probe <= now

StagesInv == \A k \in Known : PathsOK(peers[k], clock)

\* Indexes have a greatest one, which next_peer_index needs.
IndexBound == \E b \in Nat : \A k \in Known : peers[k].index <= b

Inv == TypeOK /\ StagesInv /\ IndexBound

\* What a step may not take from a peer that stays: PeersKeepSessionsAndPaths.
Kept(peer, later) ==
    /\ later.index = peer.index
    /\ later.tunnel = peer.tunnel
    /\ DOMAIN peer.paths \subseteq DOMAIN later.paths
    /\ \A e \in DOMAIN peer.paths : peer.paths[e].reachable => later.paths[e].reachable

AllKept == \A k \in Known \cap DOMAIN peers' : Kept(peers[k], peers'[k])

\* Two peers that share an index after a step: they did before, or a snapshot
\* named the new one first.
Excused(j, k) ==
    \/ {j, k} \subseteq Known /\ peers[j].index = peers[k].index
    \/ \E infos \in Snapshots :
         /\ Replace(infos)
         /\ \E new \in {j, k} \ Known, known \in {j, k} \cap Known :
              At(infos, new) < At(infos, known)

AllExcused ==
    \A j, k \in DOMAIN peers' :
      j # k /\ peers'[j].index = peers'[k].index => Excused(j, k)
-----------------------------------------------------------------------------
(* Numbers.                                                                *)

\* A set of numbers that is not empty has a least one.
LEMMA LeastNumber ==
    ASSUME NEW S \in SUBSET Nat, S # {}
    PROVE  \E x \in S : \A y \in S : x <= y
<1>1. PICK x \in S : \A y \in S : ~ (<<y, x>> \in OpToRel(<, Nat))
  BY WFMin, NatLessThanWellFounded
<1>2. \A y \in S : ~ (y < x)
  BY <1>1 DEF OpToRel
<1>3. QED
  BY <1>2

\* And a greatest one, if it is bounded.
LEMMA GreatestNumber ==
    ASSUME NEW S \in SUBSET Nat, S # {}, NEW b \in Nat, \A x \in S : x <= b
    PROVE  \E x \in S : \A y \in S : x >= y
<1> DEFINE T == {b - x : x \in S}
<1>1. T \in SUBSET Nat /\ T # {}
  OBVIOUS
<1>2. PICK t \in T : \A y \in T : t <= y
  BY <1>1, LeastNumber
<1>3. PICK x \in S : t = b - x
  BY <1>2
<1>4. ASSUME NEW y \in S
      PROVE  x >= y
  <2>1. t <= b - y
    BY <1>2
  <2>2. QED
    BY <1>3, <2>1
<1>5. QED
  BY <1>4

\* The index that next_peer_index returns follows all that are in use.
LEMMA NextIndexFollows ==
    ASSUME NEW used \in SUBSET Nat, NEW b \in Nat, \A x \in used : x <= b
    PROVE  /\ NextPeerIndex(used) \in Nat /\ NextPeerIndex(used) <= b + 1
           /\ \A x \in used : x < NextPeerIndex(used)
<1> DEFINE S == {0} \cup used
<1>1. S \in SUBSET Nat /\ S # {} /\ \A x \in S : x <= b
  OBVIOUS
<1>2. \E x \in S : \A y \in S : x >= y
  BY <1>1, GreatestNumber
<1>3. Max(S) \in S /\ \A y \in S : Max(S) >= y
  BY <1>2 DEF Max
<1>4. Max(S) \in Nat /\ Max(S) <= b
  BY <1>1, <1>3
<1>5. NextPeerIndex(used) = 1 + Max(S) /\ \A x \in used : x \in S /\ x \in Nat
  BY DEF NextPeerIndex
<1> HIDE DEF S
<1>6. \A x \in used : x <= Max(S)
  BY <1>3, <1>4, <1>5
<1>7. QED
  BY <1>4, <1>5, <1>6
-----------------------------------------------------------------------------
(* The indexes of a snapshot's peers.                                      *)

\* The loop of `replace` gives each info one index: the recursive definition has
\* a solution.
LEMMA IndexesSolve ==
    ASSUME NEW n \in Nat, NEW infos, DOMAIN infos = 1 .. n
    PROVE  /\ DOMAIN Indexes(infos) = 1 .. n
           /\ \A i \in 1 .. n :
                Indexes(infos)[i] =
                  IF infos[i].public_key \in Known THEN peers[infos[i].public_key].index
                  ELSE NextPeerIndex({Indexes(infos)[j] : j \in 1 .. i - 1})
<1> DEFINE Turn(g, i) == IF infos[i].public_key \in Known THEN peers[infos[i].public_key].index
                         ELSE NextPeerIndex({g[j] : j \in 1 .. i - 1})
           Solves(g, m) == DOMAIN g = 1 .. m /\ g = [i \in 1 .. m |-> Turn(g, i)]
           Bad == {m \in Nat : ~ \E g : Solves(g, m)}
<1>1. ASSUME NEW m \in Nat, NEW g, Solves(g, m)
      PROVE  \E h : Solves(h, m + 1)
  <2> DEFINE h == [i \in 1 .. m + 1 |-> IF i <= m THEN g[i] ELSE Turn(g, m + 1)]
  <2>1. ASSUME NEW i \in 1 .. m + 1
        PROVE  h[i] = Turn(h, i)
    <3>1. \A j \in 1 .. i - 1 : h[j] = g[j]
      OBVIOUS
    <3>2. {h[j] : j \in 1 .. i - 1} = {g[j] : j \in 1 .. i - 1}
      <4> HIDE DEF h
      <4>1. QED
        BY <3>1
    <3>3. Turn(h, i) = Turn(g, i)
      <4> HIDE DEF h
      <4>1. QED
        BY <3>2
    <3>4. CASE i <= m
      <4>1. h[i] = g[i] /\ i \in 1 .. m
        BY <3>4
      <4>2. g[i] = Turn(g, i)
        <5> HIDE DEF Turn, h
        <5>1. QED
          BY <1>1, <4>1
      <4>3. QED
        BY <3>3, <4>1, <4>2
    <3>5. CASE i = m + 1
      <4>1. h[i] = Turn(g, m + 1)
        <5> HIDE DEF Turn
        <5>1. QED
          BY <3>5
      <4>2. QED
        BY <3>3, <3>5, <4>1
    <3>6. QED
      BY <3>4, <3>5
  <2>2. DOMAIN h = 1 .. m + 1
    OBVIOUS
  <2>3. h = [i \in 1 .. m + 1 |-> h[i]]
    OBVIOUS
  <2> HIDE DEF h, Turn
  <2>4. h = [i \in 1 .. m + 1 |-> Turn(h, i)]
    BY <2>1, <2>3
  <2>5. QED
    BY <2>2, <2>4
<1>2. \E g : Solves(g, 0)
  <2> DEFINE g == [i \in {} |-> i]
  <2>1. Solves(g, 0)
    OBVIOUS
  <2>2. QED
    BY <2>1
<1>3. Bad = {}
  <2>1. SUFFICES ASSUME Bad # {} PROVE FALSE
    OBVIOUS
  <2>2. PICK m \in Bad : \A y \in Bad : m <= y
    <3> HIDE DEF Solves
    <3>1. Bad \in SUBSET Nat
      OBVIOUS
    <3>2. QED
      BY <2>1, <3>1, LeastNumber
  <2> HIDE DEF Solves, Turn
  <2>3. m \in Nat /\ ~ \E g : Solves(g, m)
    BY <2>2
  <2>4. m # 0
    BY <1>2, <2>3
  <2>5. m - 1 \in Nat /\ m - 1 \notin Bad
    <3>1. m - 1 \in Nat /\ ~(m <= m - 1)
      BY <2>3, <2>4
    <3>2. QED
      BY <2>2, <3>1
  <2>6. PICK g : Solves(g, m - 1)
    BY <2>5
  <2>7. \E h : Solves(h, (m - 1) + 1)
    BY <1>1, <2>5, <2>6
  <2>8. (m - 1) + 1 = m
    BY <2>3
  <2>9. QED
    BY <2>3, <2>7, <2>8
<1>4. PICK g : Solves(g, n)
  <2> HIDE DEF Solves
  <2>1. QED
    BY <1>3
<1>5. Indexes(infos) = CHOOSE f : f = [i \in DOMAIN infos |-> Turn(f, i)]
  BY DEF Indexes
<1>6. Indexes(infos) = [i \in 1 .. n |-> Turn(Indexes(infos), i)]
  <2> DEFINE F(f) == f = [i \in 1 .. n |-> Turn(f, i)]
  <2>1. F(g)
    BY <1>4
  <2>2. Indexes(infos) = CHOOSE f : F(f)
    BY <1>5
  <2> HIDE DEF F
  <2>3. F(Indexes(infos))
    BY <2>1, <2>2
  <2>4. QED
    BY <2>3 DEF F
<1> HIDE DEF Turn
<1>7. DOMAIN Indexes(infos) = 1 .. n
  BY <1>6
<1>8. \A i \in 1 .. n : Indexes(infos)[i] = Turn(Indexes(infos), i)
  BY <1>6
<1>9. QED
  BY <1>7, <1>8 DEF Turn

\* The lists that the coordinator may send.
LEMMA SnapshotsNamed ==
    ASSUME NEW infos \in Snapshots
    PROVE  /\ \E n \in Nat : DOMAIN infos = 1 .. n /\ infos \in [1 .. n -> Info] /\ Len(infos) = n
           /\ \A i, j \in DOMAIN infos : infos[i].public_key = infos[j].public_key => i = j
<1>1. PICK n \in 0 .. MaxPeers : infos \in [1 .. n -> Info]
  BY DEF Snapshots
<1>2. n \in Nat /\ infos \in Seq(Info)
  BY <1>1
<1>3. DOMAIN infos = 1 .. n /\ Len(infos) = n
  BY <1>1, <1>2
<1>4. QED
  BY <1>1, <1>2, <1>3 DEF Snapshots

\* Where a key of a snapshot is.
LEMMA AtFinds ==
    ASSUME NEW infos \in Snapshots, NEW k \in Named(infos)
    PROVE  /\ At(infos, k) \in Taken(infos) /\ At(infos, k) \in DOMAIN infos
           /\ infos[At(infos, k)].public_key = k
<1>1. PICK i \in Taken(infos) : infos[i].public_key = k
  BY DEF Named
<1>2. i \in DOMAIN infos
  BY DEF Taken
<1>3. At(infos, k) \in DOMAIN infos /\ infos[At(infos, k)].public_key = k
  BY <1>1, <1>2 DEF At
<1>4. At(infos, k) = i
  BY <1>1, <1>2, <1>3, SnapshotsNamed
<1>5. QED
  BY <1>1, <1>3, <1>4

\* What is taken from a snapshot has an endpoint.
LEMMA TakenInfos ==
    ASSUME NEW infos \in Snapshots, NEW i \in Taken(infos)
    PROVE  infos[i] \in Info /\ infos[i].endpoints # <<>> /\ infos[i].public_key \in Keys
<1>1. PICK n \in Nat : DOMAIN infos = 1 .. n /\ infos \in [1 .. n -> Info]
  BY SnapshotsNamed
<1>2. i \in 1 .. n /\ i \in 1 .. i
  BY <1>1 DEF Taken
<1>3. QED
  BY <1>1, <1>2 DEF Taken, Info

\* A new peer's index follows those of all that were moved before it, and the
\* indexes stay bounded.
LEMMA IndexesFollow ==
    ASSUME TypeOK, NEW infos \in Snapshots, NEW b \in Nat,
           \A k \in Known : peers[k].index <= b
    PROVE  /\ \A i \in DOMAIN infos :
                /\ Indexes(infos)[i] \in Nat
                /\ Indexes(infos)[i] <= b + i
                /\ infos[i].public_key \in Known =>
                     Indexes(infos)[i] = peers[infos[i].public_key].index
           /\ \A i, j \in DOMAIN infos :
                j < i /\ infos[i].public_key \notin Known => Indexes(infos)[j] < Indexes(infos)[i]
<1> DEFINE index == Indexes(infos)
           known(i) == infos[i].public_key \in Known
           Good(i) == index[i] \in Nat /\ index[i] <= b + i
<1>1. PICK n \in Nat : DOMAIN infos = 1 .. n
  BY SnapshotsNamed
<1>2. \A i \in 1 .. n : index[i] = IF known(i) THEN peers[infos[i].public_key].index
                                   ELSE NextPeerIndex({index[j] : j \in 1 .. i - 1})
  BY <1>1, IndexesSolve
<1>3. \A k \in Known : peers[k].index \in Nat /\ peers[k].index <= b
  BY DEF TypeOK, PeerEntry
<1>4. \A i \in 1 .. n : known(i) => Good(i) /\ index[i] = peers[infos[i].public_key].index
  <2>1. SUFFICES ASSUME NEW i \in 1 .. n, known(i)
                 PROVE  Good(i) /\ index[i] = peers[infos[i].public_key].index
    OBVIOUS
  <2>2. index[i] = peers[infos[i].public_key].index
    <3> HIDE DEF index
    <3>1. QED
      BY <1>2, <2>1
  <2>3. index[i] \in Nat /\ index[i] <= b
    BY <1>3, <2>1, <2>2
  <2> HIDE DEF index
  <2>4. index[i] <= b + i
    BY <2>3
  <2>5. QED
    BY <2>2, <2>3, <2>4
<1>5. ASSUME NEW i \in 1 .. n, ~known(i), \A j \in 1 .. i - 1 : Good(j)
      PROVE  Good(i) /\ \A j \in 1 .. i - 1 : index[j] < index[i]
  <2> DEFINE used == {index[j] : j \in 1 .. i - 1}
  <2>1. index[i] = NextPeerIndex(used)
    <3> HIDE DEF index
    <3>1. QED
      BY <1>2, <1>5
  <2> HIDE DEF index
  <2>2. used \in SUBSET Nat
    BY <1>5
  <2>3. i - 1 \in Nat /\ b + (i - 1) \in Nat
    OBVIOUS
  <2>4. ASSUME NEW x \in used
        PROVE  x <= b + (i - 1)
    <3>1. PICK j \in 1 .. i - 1 : x = index[j]
      OBVIOUS
    <3>2. index[j] \in Nat /\ index[j] <= b + j /\ j <= i - 1 /\ j \in Nat
      BY <1>5
    <3>3. QED
      BY <3>1, <3>2
  <2>5. /\ index[i] \in Nat /\ index[i] <= (b + (i - 1)) + 1
        /\ \A x \in used : x < index[i]
    BY <2>1, <2>2, <2>3, <2>4, NextIndexFollows
  <2>6. QED
    BY <2>5
<1> HIDE DEF index, known
<1>6. \A i \in 1 .. n : Good(i)
  <2> DEFINE Bad == {i \in 1 .. n : ~Good(i)}
  <2>1. SUFFICES ASSUME Bad # {} PROVE FALSE
    OBVIOUS
  <2>2. PICK i \in Bad : \A j \in Bad : i <= j
    <3> HIDE DEF Good
    <3>1. Bad \in SUBSET Nat
      OBVIOUS
    <3>2. QED
      BY <2>1, <3>1, LeastNumber
  <2> HIDE DEF Good
  <2>3. i \in 1 .. n /\ ~Good(i)
    BY <2>2
  <2>4. \A j \in 1 .. i - 1 : Good(j)
    <3>1. SUFFICES ASSUME NEW j \in 1 .. i - 1 PROVE Good(j)
      OBVIOUS
    <3>2. j \in 1 .. n /\ ~(i <= j)
      BY <2>3
    <3>3. QED
      BY <2>2, <3>2
  <2>5. QED
    BY <1>4, <1>5, <2>3, <2>4
<1>7. ASSUME NEW i \in 1 .. n, NEW j \in 1 .. n, j < i, ~known(i)
      PROVE  index[j] < index[i]
  <2>1. \A m \in 1 .. i - 1 : Good(m)
    <3> HIDE DEF Good
    <3>1. QED
      BY <1>6
  <2>2. j \in 1 .. i - 1
    BY <1>7
  <2>3. QED
    BY <1>5, <1>7, <2>1, <2>2
<1>8. QED
  BY <1>1, <1>4, <1>6, <1>7 DEF index, known

-----------------------------------------------------------------------------
(* Types, stages and what is kept.                                         *)

\* The paths of a peer, as a function.
LEMMA EntryPaths ==
    ASSUME NEW peer \in PeerEntry
    PROVE  /\ peer.paths \in PathMaps
           /\ DOMAIN peer.paths \subseteq Endpoints
           /\ \A e \in DOMAIN peer.paths : peer.paths[e] \in Path
           /\ peer.paths = [e \in DOMAIN peer.paths |-> peer.paths[e]]
BY DEF PeerEntry, PathMaps

\* No recorded path looks unused, so an update drops none.
LEMMA UpdateKeeps ==
    ASSUME NEW peer \in PeerEntry, NEW info \in Info, info.endpoints # <<>>,
           NEW now \in Nat, PathsOK(peer, now)
    PROVE  /\ Update(peer, info) \in PeerEntry
           /\ Update(peer, info).index = peer.index
           /\ Kept(peer, Update(peer, info))
           /\ PathsOK(Update(peer, info), now)
<1>1. \A e \in DOMAIN peer.paths : HasRuntimeState(peer.paths[e])
  BY DEF PathsOK, Stage, HasRuntimeState
<1>2. {e \in DOMAIN peer.paths : e \in Range(info.endpoints) \/ HasRuntimeState(peer.paths[e])}
        = DOMAIN peer.paths
  BY <1>1
<1>3. Update(peer, info) = [peer EXCEPT !.info = info,
                                        !.paths = [e \in DOMAIN peer.paths |-> peer.paths[e]]]
  BY <1>2 DEF Update
<1>4. Update(peer, info) = [peer EXCEPT !.info = info, !.paths = peer.paths]
  BY <1>3, EntryPaths
<1>5. /\ Update(peer, info).index = peer.index /\ Update(peer, info).tunnel = peer.tunnel
      /\ Update(peer, info).paths = peer.paths
      /\ Update(peer, info) \in PeerEntry
  BY <1>4 DEF PeerEntry
<1>6. QED
  BY <1>5 DEF Kept, PathsOK

\* A new peer has no path.
LEMMA NewPeer ==
    ASSUME NEW index \in Nat, NEW tunnel \in Nat, NEW info \in Info, info.endpoints # <<>>, NEW now
    PROVE  /\ FromInfo(index, tunnel, info) \in PeerEntry
           /\ FromInfo(index, tunnel, info).index = index
           /\ PathsOK(FromInfo(index, tunnel, info), now)
<1> DEFINE none == [e \in {} |-> e]
<1>1. none \in [{} -> Path] /\ DOMAIN none = {}
  OBVIOUS
<1>2. none \in PathMaps
  BY <1>1 DEF PathMaps
<1> HIDE DEF none
<1>3. FromInfo(index, tunnel, info)
        = [index |-> index, tunnel |-> tunnel, info |-> info, paths |-> none]
  BY DEF FromInfo, none
<1>4. QED
  BY <1>1, <1>2, <1>3 DEF PeerEntry, PathsOK

\* A path is recorded or confirmed.
LEMMA PathStep ==
    ASSUME TypeOK, StagesInv, NEW k \in Known, NEW e \in Endpoints, NEW path,
           NEW now \in 0 .. MaxClock, clock <= now, Stage(path, e), path.last_probe <= now,
           e \in DOMAIN peers[k].paths => (peers[k].paths[e].reachable => path.reachable),
           peers' = [peers EXCEPT ![k].paths = With(@, e, path)], clock' = now,
           UNCHANGED tunnels
    PROVE  /\ TypeOK' /\ StagesInv' /\ AllKept
           /\ DOMAIN peers' = Known
           /\ \A q \in Known : peers'[q].index = peers[q].index
<1> DEFINE more == With(peers[k].paths, e, path)
<1>1. peers[k] \in PeerEntry /\ path \in Path
  BY DEF TypeOK, Stage
<1>2. /\ DOMAIN more = DOMAIN peers[k].paths \cup {e} /\ more[e] = path
      /\ \A x \in DOMAIN peers[k].paths : x # e => more[x] = peers[k].paths[x]
  BY DEF With
<1>3. more \in PathMaps
  <2>1. more \in [DOMAIN peers[k].paths \cup {e} -> Path]
    BY <1>1, EntryPaths DEF With
  <2>2. DOMAIN peers[k].paths \cup {e} \in SUBSET Endpoints
    BY <1>1, EntryPaths
  <2> HIDE DEF more
  <2>3. QED
    BY <2>1, <2>2 DEF PathMaps
<1>4. peers' = [peers EXCEPT ![k] = [@ EXCEPT !.paths = more]]
  OBVIOUS
<1> HIDE DEF more
<1>5. /\ DOMAIN peers' = Known
      /\ peers'[k] = [peers[k] EXCEPT !.paths = more]
      /\ \A q \in Known : q # k => peers'[q] = peers[q]
  BY <1>4 DEF Known
<1>6. /\ peers'[k] \in PeerEntry /\ peers'[k].paths = more
      /\ peers'[k].index = peers[k].index /\ peers'[k].tunnel = peers[k].tunnel
  BY <1>1, <1>3, <1>5 DEF PeerEntry
<1>7. \A q \in Known : peers'[q].index = peers[q].index
  BY <1>5, <1>6
<1>8. TypeOK'
  <2>1. \A q \in Known : peers'[q] \in PeerEntry
    BY <1>5, <1>6 DEF TypeOK
  <2>2. peers' \in [Known -> PeerEntry]
    BY <1>4, <1>5, <2>1 DEF TypeOK
  <2>3. QED
    BY <1>5, <2>2 DEF TypeOK, Known
<1>9. StagesInv'
  <2>1. SUFFICES ASSUME NEW q \in Known, NEW x \in DOMAIN peers'[q].paths
                 PROVE  Stage(peers'[q].paths[x], x) /\ peers'[q].paths[x].last_probe <= now
    BY <1>5 DEF StagesInv, PathsOK, Known
  <2>2. CASE q = k /\ x = e
    BY <1>2, <1>6, <2>2
  <2>3. CASE q # k \/ x # e
    <3>1. x \in DOMAIN peers[q].paths /\ peers'[q].paths[x] = peers[q].paths[x]
      BY <1>2, <1>5, <1>6, <2>1, <2>3
    <3>2. Stage(peers[q].paths[x], x) /\ peers[q].paths[x].last_probe <= clock
      BY <3>1 DEF StagesInv, PathsOK
    <3>3. peers[q].paths[x].last_probe \in Int /\ clock \in Int /\ now \in Int
      BY <3>2 DEF Stage, Path, OptionalTime, None, TypeOK
    <3>4. QED
      BY <3>1, <3>2, <3>3
  <2>4. QED
    BY <2>2, <2>3
<1>10. AllKept
  <2>1. Kept(peers[k], peers'[k])
    BY <1>2, <1>6 DEF Kept
  <2>2. \A q \in Known : q # k => Kept(peers[q], peers'[q])
    BY <1>5 DEF Kept
  <2>3. QED
    BY <2>1, <2>2 DEF AllKept
<1>11. QED
  BY <1>5, <1>7, <1>8, <1>9, <1>10

\* A probe is recorded.
LEMMA RecordStep ==
    ASSUME TypeOK, StagesInv, NEW k \in Known, NEW e \in Endpoints, RecordEndpointProbe(k, e)
    PROVE  /\ TypeOK' /\ StagesInv' /\ AllKept /\ DOMAIN peers' = Known
           /\ \A q \in Known : peers'[q].index = peers[q].index
<1> DEFINE path == IF e \in DOMAIN peers[k].paths THEN peers[k].paths[e] ELSE NewPath(e)
<1>1. PICK now \in Readings :
        /\ peers' = [peers EXCEPT ![k].paths = With(@, e, [path EXCEPT !.last_probe = now])]
        /\ clock' = now /\ UNCHANGED tunnels
  BY DEF RecordEndpointProbe
<1>2. now \in 0 .. MaxClock /\ clock <= now
  BY DEF Readings, TypeOK
<1>3. /\ path \in Path /\ path.endpoint = e
      /\ path.reachable => path.latency # None /\ path.last_seen # None
      /\ ~path.reachable => ~(path.latency # None /\ path.last_seen # None) /\ path.last_seen = None
  <2>1. CASE e \in DOMAIN peers[k].paths
    BY <2>1 DEF StagesInv, PathsOK, Stage
  <2>2. CASE e \notin DOMAIN peers[k].paths
    BY <2>2 DEF NewPath, Path, OptionalTime
  <2>3. QED
    BY <2>1, <2>2
<1>4. e \in DOMAIN peers[k].paths => path = peers[k].paths[e]
  OBVIOUS
<1> HIDE DEF path
<1>5. PICK probed : probed = [path EXCEPT !.last_probe = now]
  OBVIOUS
<1>6. now # None /\ now \in OptionalTime
  BY <1>2 DEF None, OptionalTime
<1>7. /\ probed \in Path /\ probed.endpoint = e /\ probed.last_probe = now
      /\ probed.reachable = path.reachable /\ probed.latency = path.latency
      /\ probed.last_seen = path.last_seen
  BY <1>3, <1>5, <1>6 DEF Path
<1>8. Stage(probed, e) /\ probed.last_probe <= now
  BY <1>2, <1>3, <1>6, <1>7 DEF Stage
<1>9. e \in DOMAIN peers[k].paths => (peers[k].paths[e].reachable => probed.reachable)
  BY <1>4, <1>7
<1>10. peers' = [peers EXCEPT ![k].paths = With(@, e, probed)]
  BY <1>1, <1>5
<1>11. QED
  BY <1>1, <1>2, <1>8, <1>9, <1>10, PathStep

\* An endpoint is confirmed: the latency is never negative.
LEMMA ConfirmStep ==
    ASSUME TypeOK, StagesInv, NEW k \in Known, NEW e \in Endpoints, ConfirmEndpoint(k, e)
    PROVE  /\ TypeOK' /\ StagesInv' /\ AllKept /\ DOMAIN peers' = Known
           /\ \A q \in Known : peers'[q].index = peers[q].index
<1> DEFINE path == peers[k].paths[e]
<1>1. PICK now \in Readings :
        /\ peers' = [peers EXCEPT ![k].paths[e] =
             [path EXCEPT !.reachable = TRUE, !.last_seen = now, !.last_probe = None,
                          !.latency = IF path.last_probe = None THEN @
                                      ELSE now - path.last_probe]]
        /\ clock' = now /\ UNCHANGED tunnels
  BY DEF ConfirmEndpoint
<1>2. now \in 0 .. MaxClock /\ clock <= now /\ e \in DOMAIN peers[k].paths
  BY DEF Readings, TypeOK, ConfirmEndpoint
<1>3. PICK latency : latency = IF path.last_probe = None THEN path.latency
                               ELSE now - path.last_probe
  OBVIOUS
<1>4. PICK answered :
        answered = [path EXCEPT !.reachable = TRUE, !.last_seen = now, !.last_probe = None,
                                !.latency = IF path.last_probe = None THEN @
                                            ELSE now - path.last_probe]
  OBVIOUS
<1>5. Stage(path, e) /\ path.last_probe <= clock
  BY <1>2 DEF StagesInv, PathsOK
<1>6. latency \in 0 .. MaxClock
  <2>1. CASE path.last_probe = None
    <3>1. path.latency # None
      BY <1>5, <2>1 DEF Stage
    <3>2. path.latency \in 0 .. MaxClock \cup {None}
      BY <1>5 DEF Stage, Path, OptionalTime
    <3>3. QED
      BY <1>3, <2>1, <3>1, <3>2
  <2>2. CASE path.last_probe # None
    <3>1. path.last_probe \in 0 .. MaxClock
      BY <1>5, <2>2 DEF Stage, Path, OptionalTime
    <3>2. now - path.last_probe \in 0 .. MaxClock
      <4>1. clock \in Nat /\ MaxClock \in Nat
        BY TableBoundsAssumption DEF TypeOK
      <4> HIDE DEF path
      <4>2. QED
        BY <1>2, <1>5, <3>1, <4>1
    <3>3. QED
      BY <1>3, <2>2, <3>2
  <2>3. QED
    BY <2>1, <2>2
<1>7. {now, latency, None} \subseteq OptionalTime /\ now # None /\ latency # None
  BY <1>2, <1>6 DEF OptionalTime, None
<1>8. /\ answered \in Path /\ answered.endpoint = e
      /\ answered.reachable = TRUE /\ answered.latency = latency
      /\ answered.last_seen = now /\ answered.last_probe = None
  BY <1>3, <1>4, <1>5, <1>7 DEF Stage, Path
<1>9. Stage(answered, e) /\ answered.last_probe <= now
  BY <1>2, <1>7, <1>8 DEF Stage, None
<1>10. With(peers[k].paths, e, answered) = [peers[k].paths EXCEPT ![e] = answered]
  <2>1. peers[k].paths = [x \in DOMAIN peers[k].paths |-> peers[k].paths[x]]
    BY EntryPaths DEF TypeOK
  <2>2. DOMAIN peers[k].paths \cup {e} = DOMAIN peers[k].paths
    BY <1>2
  <2>3. QED
    BY <2>1, <2>2 DEF With
<1>11. peers' = [peers EXCEPT ![k].paths[e] = answered]
  BY <1>1, <1>4
<1>12. peers' = [peers EXCEPT ![k].paths = With(@, e, answered)]
  BY <1>10, <1>11
<1>13. QED
  BY <1>1, <1>2, <1>8, <1>9, <1>12, PathStep

\* The places of new peers are finitely many.
LEMMA CreationsCounted ==
    ASSUME NEW infos \in Snapshots, NEW i
    PROVE  Cardinality(Creations(infos, i)) \in Nat
<1>1. PICK n \in Nat : DOMAIN infos = 1 .. n
  BY SnapshotsNamed
<1>2. IsFiniteSet(1 .. n)
  BY FS_Interval
<1>3. Creations(infos, i) \subseteq 1 .. n
  BY <1>1 DEF Creations, Taken
<1>4. QED
  BY <1>2, <1>3, FS_Subset, FS_CardinalityType

\* The index that was given to each peer of a snapshot.
LEMMA MovedPeers ==
    ASSUME Inv, NEW infos \in Snapshots, NEW k \in Named(infos)
    PROVE  /\ k \in Known => /\ Updated(infos, k) \in PeerEntry
                             /\ Updated(infos, k).index = peers[k].index
                             /\ Kept(peers[k], Updated(infos, k))
                             /\ PathsOK(Updated(infos, k), clock)
                             /\ Indexes(infos)[At(infos, k)] = peers[k].index
           /\ k \notin Known => LET new == Admitted(infos, At(infos, k))
                                IN  /\ new \in PeerEntry
                                    /\ new.index = Indexes(infos)[At(infos, k)]
                                    /\ PathsOK(new, clock)
<1> DEFINE i == At(infos, k)
<1>1. i \in Taken(infos) /\ i \in DOMAIN infos /\ infos[i].public_key = k
  BY AtFinds
<1>2. infos[i] \in Info /\ infos[i].endpoints # <<>>
  BY <1>1, TakenInfos
<1>3. PICK b \in Nat : \A q \in Known : peers[q].index <= b
  BY DEF Inv, IndexBound
<1>4. Indexes(infos)[i] \in Nat /\ (k \in Known => Indexes(infos)[i] = peers[k].index)
  BY <1>1, <1>3, IndexesFollow DEF Inv
<1> HIDE DEF i
<1>5. ASSUME k \in Known
      PROVE  /\ Updated(infos, k) \in PeerEntry
             /\ Updated(infos, k).index = peers[k].index
             /\ Kept(peers[k], Updated(infos, k))
             /\ PathsOK(Updated(infos, k), clock)
  <2>1. Updated(infos, k) = Update(peers[k], infos[i])
    BY DEF Updated, i
  <2>2. peers[k] \in PeerEntry /\ clock \in Nat /\ PathsOK(peers[k], clock)
    BY <1>5 DEF Inv, TypeOK, StagesInv
  <2>3. QED
    BY <1>2, <2>1, <2>2, UpdateKeeps
<1>6. ASSUME k \notin Known
      PROVE  /\ Admitted(infos, i) \in PeerEntry
             /\ Admitted(infos, i).index = Indexes(infos)[i]
             /\ PathsOK(Admitted(infos, i), clock)
  <2>1. tunnels + Cardinality(Creations(infos, i)) \in Nat
    BY CreationsCounted DEF Inv, TypeOK
  <2>2. QED
    BY <1>2, <1>4, <2>1, NewPeer DEF Admitted
<1>7. QED
  BY <1>4, <1>5, <1>6 DEF i

\* A snapshot names keys of peers.
LEMMA NamedKeys ==
    ASSUME NEW infos \in Snapshots
    PROVE  Named(infos) \subseteq Keys
BY TakenInfos DEF Named

\* A snapshot replaces the table.
LEMMA ReplaceStep ==
    ASSUME Inv, NEW infos \in Snapshots, Replace(infos)
    PROVE  /\ Inv' /\ AllKept
           /\ DOMAIN peers' = Named(infos)
           /\ \A k \in Named(infos) : peers'[k].index = Indexes(infos)[At(infos, k)]
<1>1. /\ DOMAIN peers' = Named(infos)
      /\ \A k \in Named(infos) :
           peers'[k] = IF k \in Known THEN Updated(infos, k) ELSE Admitted(infos, At(infos, k))
      /\ tunnels' = tunnels + Cardinality(Creations(infos, Len(infos))) /\ clock' = clock
      /\ peers' = [k \in Named(infos) |->
                     IF k \in Known THEN Updated(infos, k) ELSE Admitted(infos, At(infos, k))]
  BY DEF Replace
<1>2. \A k \in Named(infos) : /\ peers'[k] \in PeerEntry
                              /\ PathsOK(peers'[k], clock)
                              /\ peers'[k].index = Indexes(infos)[At(infos, k)]
                              /\ k \in Known => Kept(peers[k], peers'[k])
  BY <1>1, MovedPeers
<1>3. tunnels' \in Nat
  BY <1>1, CreationsCounted DEF Inv, TypeOK
<1>4. TypeOK'
  <2>1. peers' \in [Named(infos) -> PeerEntry]
    BY <1>1, <1>2
  <2>2. QED
    BY <1>1, <1>3, <2>1, NamedKeys DEF Inv, TypeOK, Known
<1>5. StagesInv'
  BY <1>1, <1>2 DEF StagesInv, Known, PathsOK
<1>6. IndexBound'
  <2>1. PICK b \in Nat : \A k \in Known : peers[k].index <= b
    BY DEF Inv, IndexBound
  <2>2. PICK n \in Nat : DOMAIN infos = 1 .. n
    BY SnapshotsNamed
  <2>3. \A i \in DOMAIN infos : Indexes(infos)[i] \in Nat /\ Indexes(infos)[i] <= b + i
    BY <2>1, IndexesFollow DEF Inv
  <2>4. ASSUME NEW k \in Named(infos)
        PROVE  peers'[k].index <= b + n
    <3>1. At(infos, k) \in 1 .. n
      BY <2>2, AtFinds
    <3>2. PICK i \in 1 .. n : i = At(infos, k)
      BY <3>1
    <3>3. peers'[k].index = Indexes(infos)[i]
      BY <1>2, <3>2
    <3>4. Indexes(infos)[i] \in Nat /\ Indexes(infos)[i] <= b + i
      BY <2>2, <2>3
    <3>5. QED
      BY <3>3, <3>4
  <2>5. b + n \in Nat /\ \A k \in DOMAIN peers' : peers'[k].index <= b + n
    BY <1>1, <2>4
  <2>6. QED
    BY <2>5 DEF IndexBound, Known
<1>7. AllKept
  BY <1>1, <1>2 DEF AllKept
<1>8. QED
  BY <1>1, <1>2, <1>4, <1>5, <1>6, <1>7 DEF Inv

\* What is known keeps its keys and indexes in all other steps, a new peer apart.
LEMMA SameIndexes ==
    ASSUME IndexBound, DOMAIN peers' = Known,
           \A k \in Known : peers'[k].index = peers[k].index
    PROVE  IndexBound' /\ AllExcused
<1>1. IndexBound'
  BY DEF IndexBound, Known
<1>2. AllExcused
  BY DEF AllExcused, Excused
<1>3. QED
  BY <1>1, <1>2

\* A snapshot is refused after some updates.
LEMMA ReplaceStopsStep ==
    ASSUME Inv, NEW infos \in Snapshots, ReplaceStops(infos)
    PROVE  /\ Inv' /\ AllKept /\ DOMAIN peers' = Known
           /\ \A k \in Known : peers'[k].index = peers[k].index
<1>1. /\ DOMAIN peers' = Known
      /\ \A k \in Known : peers'[k] = Updated(infos, k)
      /\ tunnels' = tunnels + Cardinality(Creations(infos, Len(infos))) /\ clock' = clock
      /\ peers' = [k \in Known |-> Updated(infos, k)]
  BY DEF ReplaceStops
<1>2. ASSUME NEW k \in Known
      PROVE  /\ peers'[k] \in PeerEntry /\ PathsOK(peers'[k], clock)
             /\ peers'[k].index = peers[k].index /\ Kept(peers[k], peers'[k])
  <2>1. CASE k \in Named(infos)
    BY <1>1, <2>1, MovedPeers
  <2>2. CASE k \notin Named(infos)
    BY <1>1, <2>2 DEF Updated, Inv, TypeOK, StagesInv, Kept
  <2>3. QED
    BY <2>1, <2>2
<1>3. tunnels' \in Nat
  BY <1>1, CreationsCounted DEF Inv, TypeOK
<1>4. TypeOK'
  <2>1. peers' \in [Known -> PeerEntry]
    BY <1>1, <1>2
  <2>2. QED
    BY <1>1, <1>3, <2>1 DEF Inv, TypeOK, Known
<1>5. StagesInv'
  BY <1>1, <1>2 DEF StagesInv, Known, PathsOK
<1>6. QED
  BY <1>1, <1>2, <1>4, <1>5, SameIndexes DEF Inv, AllKept

\* An update of a known peer.
LEMMA UpsertKnownStep ==
    ASSUME Inv, NEW info \in Info, UpsertKnown(info)
    PROVE  /\ Inv' /\ AllKept /\ DOMAIN peers' = Known
           /\ \A k \in Known : peers'[k].index = peers[k].index
<1> DEFINE p == info.public_key
<1>1. /\ p \in Known /\ info.endpoints # <<>>
      /\ peers' = [peers EXCEPT ![p] = Update(peers[p], info)]
      /\ tunnels' = tunnels /\ clock' = clock
  BY DEF UpsertKnown
<1>2. /\ DOMAIN peers' = Known /\ peers'[p] = Update(peers[p], info)
      /\ \A k \in Known : k # p => peers'[k] = peers[k]
  BY <1>1 DEF Known
<1>3. ASSUME NEW k \in Known
      PROVE  /\ peers'[k] \in PeerEntry /\ PathsOK(peers'[k], clock)
             /\ peers'[k].index = peers[k].index /\ Kept(peers[k], peers'[k])
  <2>1. peers[k] \in PeerEntry /\ PathsOK(peers[k], clock) /\ clock \in Nat
    BY DEF Inv, TypeOK, StagesInv
  <2>2. CASE k = p
    BY <1>1, <1>2, <2>1, <2>2, UpdateKeeps
  <2>3. CASE k # p
    BY <1>2, <2>1, <2>3 DEF Kept
  <2>4. QED
    BY <2>2, <2>3
<1>4. TypeOK'
  <2>1. peers' \in [Known -> PeerEntry]
    BY <1>1, <1>2, <1>3 DEF Inv, TypeOK
  <2>2. QED
    BY <1>1, <1>2, <2>1 DEF Inv, TypeOK, Known
<1>5. StagesInv'
  BY <1>1, <1>2, <1>3 DEF StagesInv, Known, PathsOK
<1>6. QED
  BY <1>2, <1>3, <1>4, <1>5, SameIndexes DEF Inv, AllKept

\* A new peer gets an index after all others.
LEMMA UpsertNewStep ==
    ASSUME Inv, NEW info \in Info, UpsertNew(info)
    PROVE  Inv' /\ AllKept /\ AllExcused
<1> DEFINE p == info.public_key
           used == {peers[k].index : k \in Known}
           new == FromInfo(NextPeerIndex(used), tunnels + 1, info)
<1>1. /\ p \notin Known /\ info.endpoints # <<>>
      /\ peers' = With(peers, p, new) /\ tunnels' = tunnels + 1 /\ clock' = clock
  BY DEF UpsertNew
<1>2. p \in Keys /\ tunnels + 1 \in Nat
  BY DEF Info, Inv, TypeOK
<1>3. PICK b \in Nat : \A k \in Known : peers[k].index <= b
  BY DEF Inv, IndexBound
<1>4. \A k \in Known : peers[k].index \in Nat
  BY DEF Inv, TypeOK, PeerEntry
<1>5. /\ NextPeerIndex(used) \in Nat /\ NextPeerIndex(used) <= b + 1
      /\ \A x \in used : x < NextPeerIndex(used)
  BY <1>3, <1>4, NextIndexFollows
<1>6. new \in PeerEntry /\ new.index = NextPeerIndex(used) /\ PathsOK(new, clock)
  BY <1>1, <1>2, <1>5, NewPeer
<1>7. \A k \in Known : peers[k].index < new.index
  BY <1>5, <1>6
<1>8. new.index \in Nat /\ new.index <= b + 1
  BY <1>5, <1>6
<1> HIDE DEF new, used, p
<1>9. /\ DOMAIN peers' = Known \cup {p} /\ peers'[p] = new
      /\ \A k \in Known : peers'[k] = peers[k]
      /\ peers' = [k \in Known \cup {p} |-> IF k = p THEN new ELSE peers[k]]
  BY <1>1 DEF With, Known
<1>10. \A k \in Known : peers[k] \in PeerEntry /\ PathsOK(peers[k], clock)
  BY DEF Inv, TypeOK, StagesInv
<1>11. TypeOK'
  <2>1. peers' \in [Known \cup {p} -> PeerEntry]
    BY <1>6, <1>9, <1>10
  <2>2. QED
    BY <1>1, <1>2, <1>9, <2>1 DEF Inv, TypeOK, Known
<1>12. StagesInv'
  BY <1>1, <1>6, <1>9, <1>10 DEF StagesInv, Known, PathsOK
<1>13. IndexBound'
  <2>1. \A k \in DOMAIN peers' : peers'[k].index <= b + 1
    BY <1>3, <1>4, <1>8, <1>9
  <2>2. QED
    BY <2>1 DEF IndexBound, Known
<1>14. AllKept
  BY <1>1, <1>9 DEF AllKept, Kept
<1>15. AllExcused
  <2>1. SUFFICES ASSUME NEW j \in Known \cup {p}, NEW k \in Known \cup {p},
                        j # k, peers'[j].index = peers'[k].index
                 PROVE  {j, k} \subseteq Known /\ peers[j].index = peers[k].index
    BY <1>9 DEF AllExcused, Excused
  <2>2. ASSUME NEW q \in Known
        PROVE  peers'[q].index # new.index
    BY <1>4, <1>7, <1>8, <1>9
  <2>3. j \in Known /\ k \in Known
    BY <1>9, <2>1, <2>2
  <2>4. QED
    BY <1>9, <2>1, <2>3
<1>16. QED
  BY <1>11, <1>12, <1>13, <1>14, <1>15 DEF Inv

\* The empty table.
LEMMA InvInit ==
    ASSUME Init
    PROVE  Inv
<1>1. Known = {} /\ peers \in [{} -> PeerEntry]
  BY DEF Init, Known
<1>2. TypeOK
  BY <1>1, TableBoundsAssumption DEF Init, TypeOK
<1>3. QED
  BY <1>1, <1>2 DEF Inv, StagesInv, IndexBound

\* Every operation keeps the invariant, and what a peer has.
LEMMA InvStep ==
    ASSUME Inv, [Next]_vars
    PROVE  Inv' /\ (Next => AllKept)
<1>1. ASSUME NEW infos \in Snapshots, Replace(infos)
      PROVE  Inv' /\ AllKept
  BY <1>1, ReplaceStep
<1>2. ASSUME NEW infos \in Snapshots, ReplaceStops(infos)
      PROVE  Inv' /\ AllKept
  BY <1>2, ReplaceStopsStep
<1>3. ASSUME NEW info \in Info, UpsertKnown(info)
      PROVE  Inv' /\ AllKept
  BY <1>3, UpsertKnownStep
<1>4. ASSUME NEW info \in Info, UpsertNew(info)
      PROVE  Inv' /\ AllKept
  BY <1>4, UpsertNewStep
<1>5. ASSUME NEW k \in Known, NEW e \in Endpoints, RecordEndpointProbe(k, e)
      PROVE  Inv' /\ AllKept
  BY <1>5, RecordStep, SameIndexes DEF Inv
<1>6. ASSUME NEW k \in Known, NEW e \in Endpoints, ConfirmEndpoint(k, e)
      PROVE  Inv' /\ AllKept
  BY <1>6, ConfirmStep, SameIndexes DEF Inv
<1>7. CASE UNCHANGED vars
  <2>1. Inv'
    BY <1>7 DEF vars, Inv, TypeOK, StagesInv, IndexBound, Known, PathsOK
  <2>2. AllKept
    BY <1>7 DEF vars, AllKept, Kept
  <2>3. QED
    BY <2>1, <2>2
<1>8. QED
  BY <1>1, <1>2, <1>3, <1>4, <1>5, <1>6, <1>7 DEF Next

-----------------------------------------------------------------------------
(* Theorems.                                                               *)

\* Of two infos of a snapshot with the same index the earlier one is of a new
\* peer and the later one of a known peer, or both are of known peers that have
\* had that index before.
LEMMA SnapshotIndexes ==
    ASSUME Inv, NEW infos \in Snapshots,
           NEW i \in DOMAIN infos, NEW j \in DOMAIN infos, i < j,
           Indexes(infos)[i] = Indexes(infos)[j]
    PROVE  /\ infos[j].public_key \in Known
           /\ infos[i].public_key \in Known =>
                peers[infos[i].public_key].index = peers[infos[j].public_key].index
<1>1. PICK b \in Nat : \A k \in Known : peers[k].index <= b
  BY DEF Inv, IndexBound
<1>2. infos[j].public_key \in Known
  <2>1. SUFFICES ASSUME infos[j].public_key \notin Known PROVE FALSE
    OBVIOUS
  <2>2. Indexes(infos)[i] < Indexes(infos)[j]
    BY <1>1, <2>1, IndexesFollow DEF Inv
  <2>3. Indexes(infos)[i] \in Nat
    BY <1>1, IndexesFollow DEF Inv
  <2>4. QED
    BY <2>2, <2>3
<1>3. ASSUME infos[i].public_key \in Known
      PROVE  peers[infos[i].public_key].index = peers[infos[j].public_key].index
  BY <1>1, <1>2, <1>3, IndexesFollow DEF Inv
<1>4. QED
  BY <1>2, <1>3

\* So two peers of a snapshot that share an index are excused, the one that is
\* named first being j.
LEMMA SnapshotExcuses ==
    ASSUME Inv, NEW infos \in Snapshots, Replace(infos),
           NEW j \in Named(infos), NEW k \in Named(infos), At(infos, j) < At(infos, k),
           Indexes(infos)[At(infos, j)] = Indexes(infos)[At(infos, k)]
    PROVE  Excused(j, k) /\ Excused(k, j)
<1>1. /\ At(infos, j) \in DOMAIN infos /\ infos[At(infos, j)].public_key = j
      /\ At(infos, k) \in DOMAIN infos /\ infos[At(infos, k)].public_key = k
  BY AtFinds
<1>2. k \in Known /\ (j \in Known => peers[j].index = peers[k].index)
  BY <1>1, SnapshotIndexes
<1>3. CASE j \in Known
  BY <1>2, <1>3 DEF Excused
<1>4. CASE j \notin Known
  <2>1. j \in {j, k} \ Known /\ k \in {j, k} \cap Known
    BY <1>2, <1>4
  <2>2. j \in {k, j} \ Known /\ k \in {k, j} \cap Known
    BY <1>2, <1>4
  <2>3. QED
    BY <2>1, <2>2 DEF Excused
<1>5. QED
  BY <1>3, <1>4

\* No operation makes other peers share an index.
LEMMA ExcusedStep ==
    ASSUME Inv, Next
    PROVE  AllExcused
<1>1. ASSUME NEW infos \in Snapshots, Replace(infos)
      PROVE  AllExcused
  <2>1. /\ DOMAIN peers' = Named(infos)
        /\ \A k \in Named(infos) : peers'[k].index = Indexes(infos)[At(infos, k)]
    BY <1>1, ReplaceStep
  <2>2. SUFFICES ASSUME NEW j \in Named(infos), NEW k \in Named(infos), j # k,
                        peers'[j].index = peers'[k].index
                 PROVE  Excused(j, k)
    BY <2>1 DEF AllExcused
  <2>3. PICK n \in Nat : DOMAIN infos = 1 .. n
    BY SnapshotsNamed
  <2>4. At(infos, j) \in 1 .. n /\ At(infos, k) \in 1 .. n /\ At(infos, j) # At(infos, k)
    BY <2>2, <2>3, AtFinds
  <2>5. At(infos, j) < At(infos, k) \/ At(infos, k) < At(infos, j)
    BY <2>4
  <2>6. Indexes(infos)[At(infos, j)] = Indexes(infos)[At(infos, k)]
    BY <2>1, <2>2
  <2>7. QED
    BY <1>1, <2>5, <2>6, SnapshotExcuses
<1>2. ASSUME NEW infos \in Snapshots, ReplaceStops(infos)
      PROVE  AllExcused
  BY <1>2, ReplaceStopsStep, SameIndexes DEF Inv
<1>3. ASSUME NEW info \in Info, UpsertKnown(info)
      PROVE  AllExcused
  BY <1>3, UpsertKnownStep, SameIndexes DEF Inv
<1>4. ASSUME NEW info \in Info, UpsertNew(info)
      PROVE  AllExcused
  BY <1>4, UpsertNewStep
<1>5. ASSUME NEW k \in Known, NEW e \in Endpoints, RecordEndpointProbe(k, e)
      PROVE  AllExcused
  BY <1>5, RecordStep, SameIndexes DEF Inv
<1>6. ASSUME NEW k \in Known, NEW e \in Endpoints, ConfirmEndpoint(k, e)
      PROVE  AllExcused
  BY <1>6, ConfirmStep, SameIndexes DEF Inv
<1>7. QED
  BY <1>1, <1>2, <1>3, <1>4, <1>5, <1>6 DEF Next

\* Two peers come to share an index only in a snapshot that names the new one
\* before the known one, whatever snapshots, updates and failed snapshots came
\* before (peer.rs:306-361).
THEOREM OnlyOrderCollides == Spec => CollisionsNeedOrder
<1>1. Inv /\ [Next]_vars => Inv'
  BY InvStep
<1>2. Inv /\ [Next]_vars =>
        [\A j, k \in DOMAIN peers' :
           j # k /\ peers'[j].index = peers'[k].index =>
             \/ {j, k} \subseteq Known /\ peers[j].index = peers[k].index
             \/ \E infos \in Snapshots :
                  /\ Replace(infos)
                  /\ \E new \in {j, k} \ Known, known \in {j, k} \cap Known :
                       At(infos, new) < At(infos, known)]_vars
  BY ExcusedStep DEF AllExcused, Excused
<1>3. QED
  BY <1>1, <1>2, InvInit, PTL DEF Spec, CollisionsNeedOrder

\* Every path goes through its stages, for any times at which probes and
\* confirmations are recorded (peer.rs:154-179, 229-234).
THEOREM PathsGoThroughStages == Spec => []PathStages
<1>1. Inv /\ [Next]_vars => Inv'
  BY InvStep
<1>2. Inv => PathStages
  BY DEF Inv, StagesInv, PathsOK, Stage, PathStages
<1>3. QED
  BY <1>1, <1>2, InvInit, PTL DEF Spec

\* A reachable path was measured and seen.
LEMMA ReachableMeasured ==
    ASSUME NEW peer \in PeerEntry, NEW now, PathsOK(peer, now), NEW p \in Reachable(peer)
    PROVE  /\ p.endpoint \in DOMAIN peer.paths /\ peer.paths[p.endpoint] = p
           /\ p.reachable /\ p.endpoint \in Nat /\ p.endpoint \in Endpoints
           /\ p.latency \in 0 .. MaxClock /\ p.last_seen \in 0 .. MaxClock
<1>1. PICK e \in DOMAIN peer.paths : p = peer.paths[e]
  BY DEF Reachable, Range
<1>2. Stage(p, e) /\ p.reachable
  BY <1>1 DEF PathsOK, Reachable
<1>3. e \in Endpoints /\ e \in Nat
  BY EntryPaths, EndpointsAssumption
<1>4. p.endpoint = e
  BY <1>2 DEF Stage
<1>5. p.latency # None /\ p.last_seen # None /\ p.latency \in OptionalTime
      /\ p.last_seen \in OptionalTime
  BY <1>2 DEF Stage, Path
<1>6. QED
  BY <1>1, <1>2, <1>3, <1>4, <1>5 DEF OptionalTime

\* Of the reachable paths one comes before all others: of the lowest latency,
\* among those the one seen last, among those the one with the lowest endpoint.
LEMMA BestPath ==
    ASSUME NEW peer \in PeerEntry, NEW now, PathsOK(peer, now), Reachable(peer) # {}
    PROVE  \E p \in Reachable(peer) : BestPaths(peer) = {p}
<1> DEFINE All == Reachable(peer)
           Fast == {p \in All : \A q \in All : p.latency <= q.latency}
           Late == {p \in Fast : \A q \in Fast : p.last_seen >= q.last_seen}
<1>1. \A p \in All : /\ p.endpoint \in Nat /\ p.latency \in Nat /\ p.last_seen \in Nat
                     /\ p.last_seen <= MaxClock /\ p.latency # None
                     /\ peer.paths[p.endpoint] = p
  BY ReachableMeasured, TableBoundsAssumption DEF None
<1>2. Fast # {}
  <2> DEFINE S == {p.latency : p \in All}
  <2>1. S \in SUBSET Nat /\ S # {}
    BY <1>1
  <2>2. PICK x \in S : \A y \in S : x <= y
    BY <2>1, LeastNumber
  <2>3. QED
    BY <2>2
<1>3. Late # {}
  <2> DEFINE S == {p.last_seen : p \in Fast}
  <2>1. S \in SUBSET Nat /\ S # {} /\ \A x \in S : x <= MaxClock
    BY <1>1, <1>2
  <2>2. PICK x \in S : \A y \in S : x >= y
    <3> HIDE DEF S
    <3>1. QED
      BY <2>1, GreatestNumber, TableBoundsAssumption
  <2>3. QED
    BY <2>2
<1>4. PICK p \in Late : \A q \in Late : p.endpoint <= q.endpoint
  <2> DEFINE S == {q.endpoint : q \in Late}
  <2>1. S \in SUBSET Nat /\ S # {}
    BY <1>1, <1>3
  <2>2. PICK x \in S : \A y \in S : x <= y
    BY <2>1, LeastNumber
  <2>3. QED
    BY <2>2
<1>5. ASSUME NEW q \in All
      PROVE  /\ ~PathBefore(q, p)
             /\ q # p => PathBefore(p, q)
  <2>1. p \in All /\ p \in Fast /\ p.latency <= q.latency
    BY <1>4
  <2>2. /\ p.latency \in Nat /\ q.latency \in Nat /\ p.last_seen \in Nat /\ q.last_seen \in Nat
        /\ p.endpoint \in Nat /\ q.endpoint \in Nat /\ p.latency # None /\ q.latency # None
        /\ peer.paths[p.endpoint] = p /\ peer.paths[q.endpoint] = q
    BY <1>1, <2>1
  <2>3. q.latency = p.latency => q \in Fast
    BY <2>1
  <2>4. q \in Fast => p.last_seen >= q.last_seen
    BY <1>4
  <2>5. q \in Fast /\ q.last_seen = p.last_seen => q \in Late
    BY <1>4
  <2>6. q \in Late => p.endpoint <= q.endpoint
    BY <1>4
  <2> HIDE DEF All, Fast, Late
  <2>7. ~PathBefore(q, p)
    BY <2>1, <2>2, <2>3, <2>4, <2>5, <2>6 DEF PathBefore, LatencyBefore
  <2>8. q.endpoint = p.endpoint => q = p
    BY <2>2
  <2>9. q # p => PathBefore(p, q)
    BY <2>1, <2>2, <2>3, <2>4, <2>5, <2>6, <2>8 DEF PathBefore, LatencyBefore
  <2>10. QED
    BY <2>7, <2>9
<1>6. p \in All
  BY <1>4
<1>7. QED
  BY <1>5, <1>6 DEF BestPaths

\* The selection has one answer, however many paths there are and whatever
\* their latencies and times (peer.rs:56-80, 363-376).
THEOREM SelectionAlwaysDetermined == Spec => []SelectionDetermined
<1>1. Inv /\ [Next]_vars => Inv'
  BY InvStep
<1>2. ASSUME Inv
      PROVE  SelectionDetermined
  <2>1. SUFFICES ASSUME NEW k \in Known
                 PROVE  \E e \in Endpoints :
                          /\ Selected(peers[k]) = {e}
                          /\ Reachable(peers[k]) # {} =>
                               e \in DOMAIN peers[k].paths /\ peers[k].paths[e].reachable
    BY DEF SelectionDetermined
  <2>2. peers[k] \in PeerEntry /\ PathsOK(peers[k], clock)
    BY <1>2 DEF Inv, TypeOK, StagesInv
  <2>3. CASE Reachable(peers[k]) # {}
    <3>1. PICK p \in Reachable(peers[k]) : BestPaths(peers[k]) = {p}
      BY <2>2, <2>3, BestPath
    <3>2. Selected(peers[k]) = {p.endpoint}
      BY <2>3, <3>1 DEF Selected
    <3>3. /\ p.endpoint \in DOMAIN peers[k].paths /\ peers[k].paths[p.endpoint] = p
          /\ p.reachable /\ p.endpoint \in Endpoints
      BY <2>2, ReachableMeasured
    <3>4. QED
      BY <3>2, <3>3
  <2>4. CASE Reachable(peers[k]) = {}
    <3>1. Selected(peers[k]) = {peers[k].info.endpoints[1]}
      BY <2>4 DEF Selected
    <3>2. peers[k].info.endpoints \in Seq(Endpoints) /\ peers[k].info.endpoints # <<>>
      BY <2>2, EndpointsAssumption DEF PeerEntry, Info
    <3>3. peers[k].info.endpoints[1] \in Endpoints
      BY <3>2
    <3>4. QED
      BY <2>4, <3>1, <3>3
  <2>5. QED
    BY <2>3, <2>4
<1>3. QED
  BY <1>1, <1>2, InvInit, PTL DEF Spec

\* A peer that stays keeps its tunnel, its index and every path, through every
\* operation (peer.rs:181-202, 306-352).
THEOREM SessionsAndPathsAreKept == Spec => PeersKeepSessionsAndPaths
<1>1. Inv /\ [Next]_vars => Inv'
  BY InvStep
<1>2. Inv /\ [Next]_vars =>
        [\A k \in Known \cap DOMAIN peers' :
           /\ peers'[k].index = peers[k].index
           /\ peers'[k].tunnel = peers[k].tunnel
           /\ DOMAIN peers[k].paths \subseteq DOMAIN peers'[k].paths
           /\ \A e \in DOMAIN peers[k].paths :
                peers[k].paths[e].reachable => peers'[k].paths[e].reachable]_vars
  BY InvStep DEF AllKept, Kept
<1>3. QED
  BY <1>1, <1>2, InvInit, PTL DEF Spec, PeersKeepSessionsAndPaths
=============================================================================
