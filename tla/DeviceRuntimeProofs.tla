------------------------ MODULE DeviceRuntimeProofs ------------------------
(* Proofs about DeviceRuntime: what the paths of a device stand for, that  *)
(* no verified datagram and no queued packet is left behind, and why the   *)
(* lookups may pass a peer over, for any number of devices, endpoints,     *)
(* infos in any order, and peers created, and any set of scenarios.        *)
EXTENDS DeviceRuntime, WellFoundedInduction, FiniteSetTheorems, TLAPS

-----------------------------------------------------------------------------
(* The inductive invariant.                                                *)

\* The paths of a peer.
PathSets == UNION {[D -> {"probed", "reachable"}] : D \in SUBSET Endpoints}

PeerEntry == [key : Keys, index : Nat, endpoints : Seq(Endpoints) \ {<<>>}, paths : PathSets]

Tunnel == [state : {"fresh", "responded", "up"}, queued : BOOLEAN]

Peer == Created \cup {Nobody}

Datagram == [kind : {"init", "response", "data"}, by : Keys, for : Peer, src : Endpoints,
             replaced : BOOLEAN]

InboundTasks == [at : {"recv", "trial", "confirm", "drain", "probe", "record"},
                 peer : Peer, src : Endpoints \cup {Nobody}, mode : {"verified", "trial"},
                 result : {"none", "cookie", "response", "keepalive", "packet"},
                 confirmed : BOOLEAN, trying : SUBSET Created,
                 datagram : Datagram \cup {Nobody}]

\* A key of the table leads to a peer with that key.
TableOK ==
    /\ DOMAIN table \subseteq Keys
    /\ table \in [DOMAIN table -> Created]
    /\ \A k \in DOMAIN table : peers[table[k]].key = k

\* A datagram comes from where its sender is at home, and what is not an
\* initiation was sealed for a tunnel of that sender's peer.
Sealed(d) ==
    /\ d \in Datagram
    /\ d.src \in Home[d.by]
    /\ d.kind # "init" => d.for \in Created /\ peers[d.for].key = d.by

DatagramsOK ==
    /\ \A d \in inbox : Sealed(d)
    /\ inbound.at = "trial" => Sealed(inbound.datagram)

\* The inbound task works on a result of a peer.
Busy == inbound.at \in {"confirm", "drain", "probe", "record"}

InboundOK ==
    /\ inbound \in InboundTasks
    /\ Busy => inbound.peer \in Created /\ inbound.src \in Endpoints

EventTasks == [at : {"wait", "probe", "record"}, todo : SUBSET Created, peer : Peer,
               endpoints : UNION {[S -> Endpoints] : S \in SUBSET Nat}]

EventsOK ==
    /\ events \in EventTasks
    /\ events.endpoints # <<>> => events.peer \in Created
    /\ events.at = "record" => events.endpoints # <<>>

UserOK ==
    /\ user \in [at : {"idle", "record"}, peer : Peer, endpoint : Endpoints \cup {Nobody}]
    /\ user.at = "record" => user.peer \in Created /\ user.endpoint \in Endpoints

HeardOK ==
    /\ heard \subseteq Created \X Endpoints /\ cookied \subseteq Created \X Endpoints
    /\ late \subseteq Created \X Endpoints /\ missed \subseteq Created \X Endpoints

PeersOK ==
    /\ peers \in Seq(PeerEntry)
    /\ \E b \in Nat : \A p \in Created : peers[p].index <= b
    /\ tunnels \in [Created -> Tunnel]

TypeOK ==
    /\ scenario \in Scenarios
    /\ PeersOK /\ TableOK /\ DatagramsOK /\ InboundOK /\ EventsOK /\ UserOK /\ HeardOK

\* Every endpoint a peer has, or that waits to be probed, recorded or confirmed,
\* was told of or earned.
EndpointsTold == \A p \in Created : Range(peers[p].endpoints) \subseteq Told(p)

ProbesTold == events.endpoints # <<>> => Range(events.endpoints) \subseteq Told(events.peer)

UserEarned ==
    user.at = "record" =>
      Earned(user.peer, user.endpoint) \/ user.endpoint \in Told(user.peer)

InboundEarned ==
    /\ Busy /\ ShouldConfirm => Earned(inbound.peer, inbound.src)
    /\ inbound.at \in {"probe", "record"} => ShouldConfirm

EarnedInv == EndpointsTold /\ PathsEarned /\ ProbesTold /\ UserEarned /\ InboundEarned

\* A heard endpoint without a path is the one the inbound task works on and will
\* record.  A tunnel that is tried accepts no more than an initiation, since the
\* lookup by index has already failed: its success always confirms.
Pending(p, e) ==
    /\ Busy /\ ShouldConfirm
    /\ inbound.peer = p /\ inbound.src = e
    /\ inbound.at = "drain" => ~inbound.confirmed

HeardInv ==
    /\ "inbound" \notin ended =>
         \A p \in Created, e \in Endpoints :
           <<p, e>> \in heard => e \in DOMAIN peers[p].paths \/ Pending(p, e)
    /\ inbound.at = "trial" /\ inbound.datagram.kind # "init" =>
         inbound.datagram.for \notin inbound.trying

\* No two peers of the table have the same index, unless a snapshot was shuffled.
IndexInv ==
    shuffled \/ \A k, l \in DOMAIN table :
                  peers[table[k]].index = peers[table[l]].index => k = l
-----------------------------------------------------------------------------
(* Operators of the model.                                                 *)

\* A set of numbers that is bounded and not empty has a greatest element.
LEMMA GreatestExists ==
    ASSUME NEW S \in SUBSET Nat, S # {}, NEW b \in Nat, \A x \in S : x <= b
    PROVE  Max(S) \in S /\ \A x \in S : x <= Max(S)
<1> DEFINE Bounds == {c \in Nat : \A x \in S : x <= c}
<1>1. PICK c \in Bounds : \A y \in Bounds : ~ (<<y, c>> \in OpToRel(<, Nat))
  <2>1. Bounds \subseteq Nat /\ b \in Bounds
    OBVIOUS
  <2>2. QED
    BY <2>1, WFMin, NatLessThanWellFounded
<1>2. \A y \in Bounds : ~ (y < c)
  BY <1>1 DEF OpToRel
<1>3. c \in S
  <2>1. SUFFICES ASSUME c \notin S PROVE FALSE
    OBVIOUS
  <2>2. c \in Nat /\ \A x \in S : x \in Nat /\ x < c
    <3>1. c \in Nat /\ \A x \in S : x \in Nat /\ x <= c
      BY <1>1
    <3>2. \A x \in S : x # c
      BY <2>1
    <3>3. QED
      BY <3>1, <3>2
  <2>3. c # 0
    <3>1. PICK x \in S : TRUE
      OBVIOUS
    <3>2. QED
      BY <2>2, <3>1
  <2>4. c - 1 \in Bounds
    <3>1. c - 1 \in Nat /\ \A x \in S : x <= c - 1
      BY <2>2, <2>3
    <3>2. QED
      BY <3>1
  <2>5. QED
    BY <1>2, <2>2, <2>4
<1>4. \E x \in S : \A y \in S : x >= y
  BY <1>1, <1>3
<1>5. Max(S) \in S /\ \A y \in S : Max(S) >= y
  BY <1>4 DEF Max
<1>6. QED
  BY <1>5

\* And one that is not empty a least one.
LEMMA LeastNumber ==
    ASSUME NEW S \in SUBSET Nat, S # {}
    PROVE  \E x \in S : \A y \in S : x <= y
<1>1. PICK x \in S : \A y \in S : ~ (<<y, x>> \in OpToRel(<, Nat))
  BY WFMin, NatLessThanWellFounded
<1>2. \A y \in S : ~ (y < x)
  BY <1>1 DEF OpToRel
<1>3. QED
  BY <1>2

LEMMA LeastExists ==
    ASSUME NEW S \in SUBSET Nat, S # {}
    PROVE  Min(S) \in S
BY LeastNumber DEF Min

\* The index that next_peer_index returns is free, and follows the others.
LEMMA NextIndexIsFree ==
    ASSUME NEW used \in SUBSET Nat, NEW b \in Nat, \A x \in used : x <= b
    PROVE  /\ NextIndex(used) \in 1 .. b + 1
           /\ \A x \in used : x < NextIndex(used)
<1>1. {0} \cup used \in SUBSET Nat /\ {0} \cup used # {} /\ \A x \in {0} \cup used : x <= b
  OBVIOUS
<1>2. Max({0} \cup used) \in {0} \cup used /\ \A x \in {0} \cup used : x <= Max({0} \cup used)
  BY <1>1, GreatestExists
<1>3. Max({0} \cup used) \in Nat /\ Max({0} \cup used) <= b
  BY <1>1, <1>2
<1>4. QED
  BY <1>2, <1>3 DEF NextIndex

\* A peer with a path more, or with a path in another stage.
LEMMA PathAdded ==
    ASSUME NEW peer \in PeerEntry, NEW e \in Endpoints, NEW s \in {"probed", "reachable"}
    PROVE  /\ WithPath(peer, e, s) \in PeerEntry
           /\ WithPath(peer, e, s).key = peer.key
           /\ WithPath(peer, e, s).index = peer.index
           /\ WithPath(peer, e, s).endpoints = peer.endpoints
           /\ DOMAIN WithPath(peer, e, s).paths = DOMAIN peer.paths \cup {e}
           /\ WithPath(peer, e, s).paths[e] = s
           /\ \A x \in DOMAIN peer.paths : x # e =>
                WithPath(peer, e, s).paths[x] = peer.paths[x]
<1> DEFINE more == [x \in DOMAIN peer.paths \cup {e} |-> IF x = e THEN s ELSE peer.paths[x]]
<1>1. more \in PathSets /\ DOMAIN more = DOMAIN peer.paths \cup {e} /\ more[e] = s
      /\ \A x \in DOMAIN peer.paths : x # e => more[x] = peer.paths[x]
  <2>1. PICK D \in SUBSET Endpoints : peer.paths \in [D -> {"probed", "reachable"}]
    BY DEF PeerEntry, PathSets
  <2>2. D \cup {e} \in SUBSET Endpoints /\ more \in [D \cup {e} -> {"probed", "reachable"}]
    BY <2>1
  <2>3. QED
    BY <2>2 DEF PathSets
<1>2. WithPath(peer, e, s) = [peer EXCEPT !.paths = more]
  BY DEF WithPath
<1> HIDE DEF more
<1>3. QED
  BY <1>1, <1>2 DEF PeerEntry

\* record_endpoint_probe: a path there was keeps its stage, a new one is probed.
LEMMA ProbeRecorded ==
    ASSUME NEW peer \in PeerEntry, NEW e \in Endpoints
    PROVE  \E s \in {"probed", "reachable"} :
             /\ RecordProbe(peer, e) = WithPath(peer, e, s)
             /\ e \in DOMAIN peer.paths => s = peer.paths[e]
             /\ e \notin DOMAIN peer.paths => s = "probed"
BY DEF RecordProbe, PeerEntry, PathSets
-----------------------------------------------------------------------------
(* What an event makes of the peers and the table.                         *)

\* Infos of different peers.
Distinct(infos) ==
    /\ infos \in Seq(Infos)
    /\ \A i, j \in DOMAIN infos : infos[i].public_key = infos[j].public_key => i = j

\* A peer that has been told the endpoints it has.
ToldBy(k, endpoints) == \E info \in Infos : info.public_key = k /\ info.endpoints = endpoints

\* The peers there were keep key, index and paths; the table leads to peers
\* with its keys and gives every index once, unless the infos are shuffled.
Fills(A) ==
    /\ A.peers \in Seq(PeerEntry)
    /\ Created \subseteq DOMAIN A.peers
    /\ \E b \in Nat : \A p \in DOMAIN A.peers : A.peers[p].index <= b
    /\ \A p \in Created : /\ A.peers[p].key = peers[p].key
                          /\ A.peers[p].index = peers[p].index
                          /\ A.peers[p].paths = peers[p].paths
                          /\ \/ A.peers[p].endpoints = peers[p].endpoints
                             \/ ToldBy(A.peers[p].key, A.peers[p].endpoints)
    /\ \A p \in DOMAIN A.peers \ Created : /\ DOMAIN A.peers[p].paths = {}
                                           /\ ToldBy(A.peers[p].key, A.peers[p].endpoints)
    /\ A.table \in [DOMAIN A.table -> DOMAIN A.peers]
    /\ DOMAIN A.table \subseteq Keys
    /\ \A k \in DOMAIN A.table : A.peers[A.table[k]].key = k
    /\ IndexInv => A.shuffled \/ \A k, l \in DOMAIN A.table :
                     A.peers[A.table[k]].index = A.peers[A.table[l]].index => k = l

\* TakeEvent, from its outcome.
Takes(A) ==
    /\ peers' = A.peers
    /\ table' = A.table
    /\ tunnels' = WithTunnels(Len(A.peers))
    /\ events' = [EventsIdle EXCEPT !.at = "probe",
                                    !.todo = {A.table[k] : k \in DOMAIN A.table}]
    /\ shuffled' = A.shuffled
    /\ UNCHANGED <<phase, scenario, inbound, ended, user, inbox, heard, cookied, late, missed>>

LEMMA InfosMean ==
    ASSUME scenario \in Scenarios, NEW info \in Infos
    PROVE  info.public_key \in Keys /\ info.endpoints \in Seq(Endpoints) \ {<<>>}
BY InfosAssumption DEF Infos

LEMMA SnapshotsDistinct ==
    ASSUME NEW infos \in Snapshots
    PROVE  Distinct(infos)
<1>1. PICK n \in 0 .. Cardinality(Keys) : infos \in [1 .. n -> Infos]
  BY DEF Snapshots
<1>2. n \in Nat
  BY <1>1
<1>3. infos \in Seq(Infos)
  BY <1>1, <1>2
<1>4. QED
  BY <1>3 DEF Snapshots, Distinct

\* Where a key is among infos.
LEMMA AtFinds ==
    ASSUME NEW infos, Distinct(infos)
    PROVE  /\ \A k \in Named(infos) : /\ At(infos, k) \in DOMAIN infos
                                      /\ infos[At(infos, k)].public_key = k
           /\ \A i \in DOMAIN infos : At(infos, infos[i].public_key) = i
<1>1. ASSUME NEW k \in Named(infos)
      PROVE  At(infos, k) \in DOMAIN infos /\ infos[At(infos, k)].public_key = k
  <2>1. \E i \in DOMAIN infos : infos[i].public_key = k
    BY DEF Named
  <2>2. QED
    BY <2>1 DEF At
<1>2. ASSUME NEW i \in DOMAIN infos
      PROVE  At(infos, infos[i].public_key) = i
  <2>1. infos[i].public_key \in Named(infos)
    BY DEF Named
  <2>2. QED
    BY <1>1, <2>1 DEF Distinct
<1>3. QED
  BY <1>1, <1>2

\* The keys of new peers, each once.
LEMMA NewsListed ==
    ASSUME NEW infos, Distinct(infos)
    PROVE  \E m \in Nat :
             /\ Len(News(infos)) = m
             /\ News(infos) \in [1 .. m -> Named(infos) \ DOMAIN table]
             /\ \A k \in Named(infos) \ DOMAIN table :
                  \E q \in 1 .. m : News(infos)[q] = k
<1> DEFINE n == Len(infos)
           new == Named(infos) \ DOMAIN table
           m == Cardinality(new)
           key == [i \in 1 .. n |-> infos[i].public_key]
<1>1. n \in Nat /\ DOMAIN infos = 1 .. n
  BY DEF Distinct
<1>2. IsFiniteSet(new)
  <2>1. IsFiniteSet(1 .. n)
    BY <1>1, FS_Interval
  <2>2. key \in Surjection(1 .. n, Named(infos))
    BY <1>1 DEF Surjection, Named
  <2> HIDE DEF key
  <2>3. IsFiniteSet(Named(infos))
    BY <2>1, <2>2, FS_Surjection
  <2>4. new \in SUBSET Named(infos)
    OBVIOUS
  <2>5. QED
    BY <2>3, <2>4, FS_Subset
<1> HIDE DEF new
<1>3. m \in Nat /\ ExistsBijection(1 .. m, new)
  BY <1>2, FS_CardinalityType
<1> HIDE DEF m
<1>4. \E f \in [1 .. m -> new] : IsInjective(f)
  BY <1>3 DEF ExistsBijection, Bijection, Injection
<1>5. News(infos) = CHOOSE f \in [1 .. m -> new] : IsInjective(f)
  BY DEF News, SetToSeq, new, m
<1>6. News(infos) \in [1 .. m -> new] /\ IsInjective(News(infos))
  BY <1>4, <1>5
<1>7. News(infos) \in Injection(1 .. m, new)
  BY <1>6 DEF Injection
<1>8. Cardinality(1 .. m) = Cardinality(new)
  <2>1. Cardinality(1 .. m) = m
    BY <1>3, FS_Interval
  <2>2. QED
    BY <2>1 DEF m
<1>9. News(infos) \in Surjection(1 .. m, new)
  BY <1>2, <1>7, <1>8, FS_Injection
<1>10. \A k \in new : \E q \in 1 .. m : News(infos)[q] = k
  BY <1>9 DEF Surjection
<1>11. Len(News(infos)) = m
  <2>1. News(infos) \in Seq(new)
    BY <1>3, <1>6
  <2>2. QED
    BY <1>3, <1>6, <2>1
<1>12. QED
  BY <1>3, <1>6, <1>10, <1>11 DEF new

\* The turn of an info in the recursion of Indexes, which has a solution, so
\* that the indexes are what it says.
Kept(staying) == {peers[table[k]].index : k \in staying}

Turn(infos, staying, g, i) ==
    IF infos[i].public_key \in DOMAIN table
    THEN peers[table[infos[i].public_key]].index
    ELSE NextIndex(Kept(staying) \cup {g[j] : j \in 1 .. i - 1})

LEMMA IndexesSolve ==
    ASSUME NEW n \in Nat, NEW infos, NEW staying, DOMAIN infos = 1 .. n
    PROVE  /\ DOMAIN Indexes(infos, staying) = 1 .. n
           /\ \A i \in 1 .. n : Indexes(infos, staying)[i]
                                  = Turn(infos, staying, Indexes(infos, staying), i)
<1> DEFINE T(g, i) == Turn(infos, staying, g, i)
           Solves(g, m) == DOMAIN g = 1 .. m /\ g = [i \in 1 .. m |-> T(g, i)]
           Bad == {m \in Nat : ~ \E g : Solves(g, m)}
<1>1. ASSUME NEW m \in Nat, NEW g, Solves(g, m)
      PROVE  \E h : Solves(h, m + 1)
  <2> DEFINE h == [i \in 1 .. m + 1 |-> IF i <= m THEN g[i] ELSE T(g, m + 1)]
  <2>1. ASSUME NEW i \in 1 .. m + 1
        PROVE  h[i] = T(h, i)
    <3>1. \A j \in 1 .. i - 1 : h[j] = g[j]
      OBVIOUS
    <3>2. {h[j] : j \in 1 .. i - 1} = {g[j] : j \in 1 .. i - 1}
      <4> HIDE DEF h
      <4>1. QED
        BY <3>1
    <3>3. T(h, i) = T(g, i)
      <4> HIDE DEF h
      <4>1. QED
        BY <3>2 DEF Turn
    <3>4. CASE i <= m
      <4>1. h[i] = g[i] /\ i \in 1 .. m
        BY <3>4
      <4>2. g[i] = T(g, i)
        <5> HIDE DEF T, h
        <5>1. QED
          BY <1>1, <4>1
      <4>3. QED
        BY <3>3, <4>1, <4>2
    <3>5. CASE i = m + 1
      <4>1. h[i] = T(g, m + 1)
        <5> HIDE DEF T
        <5>1. QED
          BY <3>5
      <4>2. QED
        BY <3>3, <3>5, <4>1
    <3>6. QED
      BY <3>4, <3>5
  <2>2. DOMAIN h = 1 .. m + 1
    OBVIOUS
  <2>3. h = [i \in 1 .. m + 1 |-> h[i]]
    OBVIOUS
  <2> HIDE DEF h, T
  <2>4. h = [i \in 1 .. m + 1 |-> T(h, i)]
    BY <2>1, <2>3
  <2>5. QED
    BY <2>2, <2>4
<1>2. \E g : Solves(g, 0)
  <2> DEFINE g == [i \in {} |-> i]
  <2>1. Solves(g, 0)
    OBVIOUS
  <2>2. QED
    BY <2>1
<1>3. Bad = {}
  <2>1. SUFFICES ASSUME Bad # {} PROVE FALSE
    OBVIOUS
  <2>2. PICK m \in Bad : \A y \in Bad : m <= y
    <3> HIDE DEF Solves
    <3>1. Bad \in SUBSET Nat
      OBVIOUS
    <3>2. QED
      BY <2>1, <3>1, LeastNumber
  <2> HIDE DEF Solves, T
  <2>3. m \in Nat /\ ~ \E g : Solves(g, m)
    BY <2>2
  <2>4. m # 0
    BY <1>2, <2>3
  <2>5. m - 1 \in Nat /\ m - 1 \notin Bad
    <3>1. m - 1 \in Nat /\ ~(m <= m - 1)
      BY <2>3, <2>4
    <3>2. QED
      BY <2>2, <3>1
  <2>6. PICK g : Solves(g, m - 1)
    BY <2>5
  <2>7. \E h : Solves(h, (m - 1) + 1)
    BY <1>1, <2>5, <2>6
  <2>8. (m - 1) + 1 = m
    BY <2>3
  <2>9. QED
    BY <2>3, <2>7, <2>8
<1>4. PICK g : Solves(g, n)
  <2> HIDE DEF Solves
  <2>1. QED
    BY <1>3
<1>5. Indexes(infos, staying) = CHOOSE f : f = [i \in DOMAIN infos |-> T(f, i)]
  BY DEF Indexes, Turn, Kept
<1>6. Indexes(infos, staying) = [i \in 1 .. n |-> T(Indexes(infos, staying), i)]
  <2> DEFINE F(f) == f = [i \in 1 .. n |-> T(f, i)]
  <2>1. F(g)
    BY <1>4
  <2>2. Indexes(infos, staying) = CHOOSE f : F(f)
    BY <1>5
  <2> HIDE DEF F
  <2>3. F(Indexes(infos, staying))
    BY <2>1, <2>2
  <2>4. QED
    BY <2>3 DEF F
<1> HIDE DEF T
<1>7. DOMAIN Indexes(infos, staying) = 1 .. n
  BY <1>6
<1>8. \A i \in 1 .. n : Indexes(infos, staying)[i] = T(Indexes(infos, staying), i)
  BY <1>6
<1>9. QED
  BY <1>7, <1>8 DEF T

\* A new peer's index follows those of the peers that stay and of all that
\* were moved before it, and the indexes stay bounded.
LEMMA IndexesFollow ==
    ASSUME TypeOK, NEW infos, Distinct(infos), NEW staying \in SUBSET DOMAIN table,
           NEW b \in Nat, \A p \in Created : peers[p].index <= b
    PROVE  /\ \A i \in DOMAIN infos :
                /\ Indexes(infos, staying)[i] \in Nat
                /\ Indexes(infos, staying)[i] <= b + i
                /\ infos[i].public_key \in DOMAIN table =>
                     Indexes(infos, staying)[i] = peers[table[infos[i].public_key]].index
           /\ \A i, j \in DOMAIN infos :
                j < i /\ infos[i].public_key \notin DOMAIN table =>
                  Indexes(infos, staying)[j] < Indexes(infos, staying)[i]
           /\ \A i \in DOMAIN infos, k \in staying :
                infos[i].public_key \notin DOMAIN table =>
                  peers[table[k]].index < Indexes(infos, staying)[i]
<1> DEFINE index == Indexes(infos, staying)
           known(i) == infos[i].public_key \in DOMAIN table
           kept == {peers[table[k]].index : k \in staying}
           Good(i) == index[i] \in Nat /\ index[i] <= b + i
<1>1. PICK n \in Nat : DOMAIN infos = 1 .. n
  BY DEF Distinct
<1>2. \A i \in 1 .. n : index[i] = IF known(i) THEN peers[table[infos[i].public_key]].index
                                   ELSE NextIndex(kept \cup {index[j] : j \in 1 .. i - 1})
  <2>1. \A i \in 1 .. n : index[i] = Turn(infos, staying, index, i)
    BY <1>1, IndexesSolve
  <2> HIDE DEF index
  <2>2. QED
    BY <2>1 DEF Turn, Kept
<1>3. \A k \in DOMAIN table : peers[table[k]].index \in Nat /\ peers[table[k]].index <= b
  <2>1. \A p \in Created : peers[p] \in PeerEntry
    BY DEF TypeOK, PeersOK, Created
  <2>2. \A p \in Created : peers[p].index \in Nat
    BY <2>1 DEF PeerEntry
  <2>3. \A k \in DOMAIN table : table[k] \in Created
    BY DEF TypeOK, TableOK
  <2>4. QED
    BY <2>2, <2>3
<1>4. \A i \in 1 .. n : known(i) => Good(i) /\ index[i] = peers[table[infos[i].public_key]].index
  <2>1. SUFFICES ASSUME NEW i \in 1 .. n, known(i)
                 PROVE  Good(i) /\ index[i] = peers[table[infos[i].public_key]].index
    OBVIOUS
  <2>2. index[i] = peers[table[infos[i].public_key]].index
    <3> HIDE DEF index
    <3>1. QED
      BY <1>2, <2>1
  <2>3. index[i] \in Nat /\ index[i] <= b
    <3> HIDE DEF index
    <3>1. QED
      BY <1>3, <2>1, <2>2
  <2> HIDE DEF index
  <2>4. index[i] <= b + i
    BY <2>3
  <2>5. QED
    BY <2>2, <2>3, <2>4
<1>5. ASSUME NEW i \in 1 .. n, ~known(i), \A j \in 1 .. i - 1 : Good(j)
      PROVE  Good(i) /\ (\A j \in 1 .. i - 1 : index[j] < index[i]) /\ \A x \in kept : x < index[i]
  <2> DEFINE used == kept \cup {index[j] : j \in 1 .. i - 1}
  <2>1. index[i] = NextIndex(used)
    <3> HIDE DEF index, kept
    <3>1. QED
      BY <1>2, <1>5
  <2>2. \A x \in kept : x \in Nat /\ x <= b
    BY <1>3
  <2> HIDE DEF index, kept
  <2>3. \A j \in 1 .. i - 1 : index[j] \in Nat /\ index[j] <= b + (i - 1)
    <3>1. SUFFICES ASSUME NEW j \in 1 .. i - 1 PROVE index[j] \in Nat /\ index[j] <= b + (i - 1)
      OBVIOUS
    <3>2. index[j] \in Nat /\ index[j] <= b + j /\ j <= i - 1 /\ j \in Nat
      BY <1>5
    <3>3. QED
      BY <3>2
  <2>4. i - 1 \in Nat /\ b + (i - 1) \in Nat /\ b <= b + (i - 1)
    OBVIOUS
  <2>5. used \in SUBSET Nat
    BY <2>2, <2>3
  <2>6. ASSUME NEW x \in used
        PROVE  x <= b + (i - 1)
    <3>1. CASE x \in kept
      BY <2>2, <2>4, <3>1
    <3>2. CASE x \notin kept
      BY <2>3, <3>2
    <3>3. QED
      BY <3>1, <3>2
  <2>7. /\ index[i] \in 1 .. (b + (i - 1)) + 1
        /\ \A x \in used : x < index[i]
    <3> HIDE DEF used
    <3>1. QED
      BY <2>1, <2>4, <2>5, <2>6, NextIndexIsFree
  <2>8. Good(i)
    BY <2>7
  <2>9. QED
    BY <2>7, <2>8
<1> HIDE DEF index, known
<1>6. \A i \in 1 .. n : Good(i)
  <2> DEFINE Bad == {i \in 1 .. n : ~Good(i)}
  <2>1. SUFFICES ASSUME Bad # {} PROVE FALSE
    OBVIOUS
  <2>2. PICK i \in Bad : \A j \in Bad : i <= j
    <3> HIDE DEF Good
    <3>1. Bad \in SUBSET Nat
      OBVIOUS
    <3>2. QED
      BY <2>1, <3>1, LeastNumber
  <2> HIDE DEF Good
  <2>3. i \in 1 .. n /\ ~Good(i)
    BY <2>2
  <2>4. \A j \in 1 .. i - 1 : Good(j)
    <3>1. SUFFICES ASSUME NEW j \in 1 .. i - 1 PROVE Good(j)
      OBVIOUS
    <3>2. j \in 1 .. n /\ ~(i <= j)
      BY <2>3
    <3>3. QED
      BY <2>2, <3>2
  <2>5. QED
    BY <1>4, <1>5, <2>3, <2>4
<1>7. ASSUME NEW i \in 1 .. n, ~known(i)
      PROVE  (\A j \in 1 .. n : j < i => index[j] < index[i]) /\ \A x \in kept : x < index[i]
  <2>1. \A m \in 1 .. i - 1 : Good(m)
    <3> HIDE DEF Good
    <3>1. QED
      BY <1>6
  <2>2. (\A j \in 1 .. i - 1 : index[j] < index[i]) /\ \A x \in kept : x < index[i]
    BY <1>5, <1>7, <2>1
  <2>3. \A j \in 1 .. n : j < i => j \in 1 .. i - 1
    OBVIOUS
  <2>4. QED
    BY <2>2, <2>3
<1>8. \A k \in staying : peers[table[k]].index \in kept
  OBVIOUS
<1> HIDE DEF kept
<1>9. QED
  BY <1>1, <1>4, <1>6, <1>7, <1>8 DEF index, known

\* What an event makes of the peers there were.
LEMMA UpdatedPeers ==
    ASSUME TypeOK, NEW infos, Distinct(infos), NEW p \in Created
    PROVE  /\ Updated(p, infos) \in PeerEntry
           /\ Updated(p, infos).key = peers[p].key
           /\ Updated(p, infos).index = peers[p].index
           /\ Updated(p, infos).paths = peers[p].paths
           /\ \/ Updated(p, infos).endpoints = peers[p].endpoints
              \/ ToldBy(peers[p].key, Updated(p, infos).endpoints)
<1>1. peers[p] \in PeerEntry
  BY DEF TypeOK, PeersOK, Created
<1>2. CASE p \in Current /\ peers[p].key \in Named(infos)
  <2>1. PICK i \in DOMAIN infos : At(infos, peers[p].key) = i /\ infos[i].public_key = peers[p].key
    BY <1>2, AtFinds
  <2>2. infos[i] \in Infos
    BY DEF Distinct
  <2>3. ToldBy(peers[p].key, infos[i].endpoints) /\ infos[i].endpoints \in Seq(Endpoints) \ {<<>>}
    BY <2>1, <2>2, InfosMean DEF ToldBy, TypeOK
  <2>4. Updated(p, infos) = [peers[p] EXCEPT !.endpoints = infos[i].endpoints]
    BY <1>2, <2>1 DEF Updated
  <2>5. QED
    BY <1>1, <2>3, <2>4 DEF PeerEntry
<1>3. CASE ~(p \in Current /\ peers[p].key \in Named(infos))
  <2>1. Updated(p, infos) = peers[p]
    BY <1>3 DEF Updated
  <2>2. QED
    BY <1>1, <2>1
<1>4. QED
  BY <1>2, <1>3

LEMMA NewPeers ==
    ASSUME TypeOK, NEW infos, Distinct(infos), NEW i \in DOMAIN infos, NEW index \in Nat
    PROVE  /\ FromInfo(infos[i], index) \in PeerEntry
           /\ FromInfo(infos[i], index).key = infos[i].public_key
           /\ FromInfo(infos[i], index).index = index
           /\ DOMAIN FromInfo(infos[i], index).paths = {}
           /\ ToldBy(infos[i].public_key, FromInfo(infos[i], index).endpoints)
<1>1. infos[i] \in Infos
  BY DEF Distinct
<1>2. infos[i].public_key \in Keys /\ infos[i].endpoints \in Seq(Endpoints) \ {<<>>}
  BY <1>1, InfosMean DEF TypeOK
<1>3. [e \in {} |-> e] \in PathSets
  <2>1. [e \in {} |-> e] \in [{} -> {"probed", "reachable"}] /\ {} \in SUBSET Endpoints
    OBVIOUS
  <2>2. QED
    BY <2>1 DEF PathSets
<1>4. QED
  BY <1>1, <1>2, <1>3 DEF FromInfo, PeerEntry, ToldBy

LEMMA EventFills ==
    ASSUME TypeOK, NEW infos, Distinct(infos), NEW staying \in SUBSET DOMAIN table
    PROVE  LET A == [peers |-> AllPeers(infos, staying), table |-> Filled(infos, staying),
                     shuffled |-> shuffled \/ Shuffles(infos)]
           IN  Fills(A) /\ Len(A.peers) = Len(peers) + Len(News(infos))
               /\ DOMAIN A.table = Named(infos) \cup staying
<1> DEFINE n == Len(peers)
           news == News(infos)
           keys == Named(infos) \cup staying
           index == Indexes(infos, staying)
           i(q) == At(infos, news[q])
           P == AllPeers(infos, staying)
           T == Filled(infos, staying)
           known(k) == k \in DOMAIN table
<1>1. PICK m \in Nat :
        /\ Len(news) = m
        /\ news \in [1 .. m -> Named(infos) \ DOMAIN table]
        /\ \A k \in Named(infos) \ DOMAIN table : \E q \in 1 .. m : news[q] = k
  BY NewsListed
<1>2. n \in Nat /\ Created = 1 .. n /\ \A p \in Created : peers[p] \in PeerEntry
  BY DEF TypeOK, PeersOK, Created
<1>3. PICK b \in Nat : \A p \in Created : peers[p].index <= b
  BY DEF TypeOK, PeersOK
<1>4. PICK l \in Nat : DOMAIN infos = 1 .. l
  BY DEF Distinct
<1>5. /\ \A x \in DOMAIN infos : /\ index[x] \in Nat /\ index[x] <= b + x
                                 /\ known(infos[x].public_key) =>
                                      index[x] = peers[table[infos[x].public_key]].index
      /\ \A x, y \in DOMAIN infos :
           y < x /\ ~known(infos[x].public_key) => index[y] < index[x]
      /\ \A x \in DOMAIN infos, k \in staying :
           ~known(infos[x].public_key) => peers[table[k]].index < index[x]
  BY <1>3, IndexesFollow
<1>6. \A q \in 1 .. m : i(q) \in DOMAIN infos /\ infos[i(q)].public_key = news[q]
  BY <1>1, AtFinds
<1>7. \A p \in 1 .. n : /\ Updated(p, infos) \in PeerEntry
                        /\ Updated(p, infos).key = peers[p].key
                        /\ Updated(p, infos).index = peers[p].index
                        /\ Updated(p, infos).paths = peers[p].paths
                        /\ \/ Updated(p, infos).endpoints = peers[p].endpoints
                           \/ ToldBy(peers[p].key, Updated(p, infos).endpoints)
  BY <1>2, UpdatedPeers
<1> DEFINE new(q) == FromInfo(infos[i(q)], index[i(q)])
<1>8. \A q \in 1 .. m : /\ new(q) \in PeerEntry
                        /\ new(q).key = news[q]
                        /\ new(q).index = index[i(q)]
                        /\ DOMAIN new(q).paths = {}
                        /\ ToldBy(news[q], new(q).endpoints)
  <2> HIDE DEF index, news
  <2>1. QED
    BY <1>5, <1>6, NewPeers
<1>9. P = [p \in 1 .. n + m |-> IF p <= n THEN Updated(p, infos) ELSE new(p - n)]
  BY <1>1 DEF AllPeers
<1>10. T = [k \in keys |-> IF known(k) THEN table[k]
                           ELSE n + (CHOOSE q \in 1 .. m : news[q] = k)]
  <2>1. DOMAIN news = 1 .. m
    BY <1>1
  <2>2. QED
    BY <2>1 DEF Filled
<1> HIDE DEF P, T, new, news, index
<1>11. DOMAIN P = 1 .. n + m /\ \A p \in 1 .. n : P[p] = Updated(p, infos) /\ p \in DOMAIN P
  BY <1>1, <1>2, <1>9
<1>12. \A q \in 1 .. m : n + q \in DOMAIN P /\ P[n + q] = new(q)
  <2> SUFFICES ASSUME NEW q \in 1 .. m PROVE n + q \in DOMAIN P /\ P[n + q] = new(q)
    OBVIOUS
  <2> DEFINE p == n + q
  <2>1. p \in 1 .. n + m /\ ~(p <= n) /\ p - n = q
    BY <1>2
  <2> HIDE DEF p
  <2>2. p \in DOMAIN P /\ P[p] = new(q)
    BY <1>9, <2>1
  <2>3. QED
    BY <2>2 DEF p
<1>13. \A p \in DOMAIN P : p \in 1 .. n \/ \E q \in 1 .. m : p = n + q
  <2> SUFFICES ASSUME NEW p \in DOMAIN P, p \notin 1 .. n PROVE \E q \in 1 .. m : p = n + q
    OBVIOUS
  <2>1. p - n \in 1 .. m /\ p = n + (p - n)
    BY <1>2, <1>11
  <2>2. QED
    BY <2>1
<1>14. \A p \in DOMAIN P : P[p] \in PeerEntry
  <2> HIDE DEF n
  <2>1. QED
    BY <1>7, <1>8, <1>11, <1>12, <1>13
<1>15. P \in Seq(PeerEntry) /\ Len(P) = n + m
  <2>1. n + m \in Nat
    BY <1>2
  <2>2. P = [p \in 1 .. n + m |-> P[p]]
    BY <1>9, <1>11
  <2> HIDE DEF n
  <2>3. QED
    BY <1>11, <1>14, <2>1, <2>2
<1>16. \E c \in Nat : \A p \in DOMAIN P : P[p].index <= c
  <2>1. \A x \in DOMAIN infos : index[x] <= b + l
    <3> SUFFICES ASSUME NEW x \in DOMAIN infos PROVE index[x] <= b + l
      OBVIOUS
    <3>1. x \in Nat /\ x <= l /\ index[x] \in Nat /\ index[x] <= b + x
      BY <1>4, <1>5
    <3>2. QED
      BY <3>1
  <2>2. \A q \in 1 .. m : P[n + q].index <= b + l
    <3> HIDE DEF n
    <3>1. \A q \in 1 .. m : P[n + q].index = index[i(q)] /\ i(q) \in DOMAIN infos
      BY <1>6, <1>8, <1>12
    <3>2. QED
      BY <2>1, <3>1
  <2>3. \A p \in 1 .. n : P[p].index <= b + l
    <3> SUFFICES ASSUME NEW p \in 1 .. n PROVE P[p].index <= b + l
      OBVIOUS
    <3>1. P[p].index = peers[p].index
      BY <1>7, <1>11
    <3>2. peers[p].index \in Nat /\ peers[p].index <= b
      BY <1>2, <1>3 DEF PeerEntry
    <3>3. QED
      BY <3>1, <3>2
  <2>4. \A p \in DOMAIN P : P[p].index <= b + l
    <3> HIDE DEF n
    <3>1. QED
      BY <1>13, <2>2, <2>3
  <2>5. b + l \in Nat
    OBVIOUS
  <2>6. QED
    BY <2>4, <2>5
<1>17. \A p \in Created : /\ P[p].key = peers[p].key
                          /\ P[p].index = peers[p].index
                          /\ P[p].paths = peers[p].paths
                          /\ \/ P[p].endpoints = peers[p].endpoints
                             \/ ToldBy(P[p].key, P[p].endpoints)
  BY <1>2, <1>7, <1>11
<1>18. \A p \in DOMAIN P \ Created : /\ DOMAIN P[p].paths = {}
                                     /\ ToldBy(P[p].key, P[p].endpoints)
  <2> HIDE DEF n
  <2>1. QED
    BY <1>2, <1>8, <1>12, <1>13
<1>19. \A k \in keys \cap DOMAIN table :
         /\ T[k] = table[k] /\ T[k] \in 1 .. n /\ P[T[k]].key = k
         /\ P[T[k]].index = peers[table[k]].index
  <2> SUFFICES ASSUME NEW k \in keys \cap DOMAIN table
               PROVE  /\ T[k] = table[k] /\ T[k] \in 1 .. n /\ P[T[k]].key = k
                      /\ P[T[k]].index = peers[table[k]].index
    OBVIOUS
  <2>1. T[k] = table[k]
    BY <1>10
  <2>2. table[k] \in Created /\ peers[table[k]].key = k
    BY DEF TypeOK, TableOK
  <2>3. QED
    BY <1>2, <1>17, <2>1, <2>2
<1>20. \A k \in keys \ DOMAIN table :
         \E q \in 1 .. m : /\ T[k] = n + q /\ T[k] \in DOMAIN P /\ P[T[k]].key = k
                           /\ i(q) \in DOMAIN infos /\ infos[i(q)].public_key = k
                           /\ P[T[k]].index = index[i(q)]
  <2> SUFFICES ASSUME NEW k \in keys \ DOMAIN table
               PROVE  \E q \in 1 .. m :
                        /\ T[k] = n + q /\ T[k] \in DOMAIN P /\ P[T[k]].key = k
                        /\ i(q) \in DOMAIN infos /\ infos[i(q)].public_key = k
                        /\ P[T[k]].index = index[i(q)]
    OBVIOUS
  <2> DEFINE q == CHOOSE x \in 1 .. m : news[x] = k
  <2>1. T[k] = n + q
    BY <1>10
  <2>2. \E x \in 1 .. m : news[x] = k
    BY <1>1 DEF news
  <2>3. q \in 1 .. m /\ news[q] = k
    BY <2>2
  <2> HIDE DEF q, n
  <2>4. QED
    BY <1>6, <1>8, <1>12, <2>1, <2>3
<1>21. T \in [DOMAIN T -> DOMAIN P] /\ DOMAIN T = keys
  <2>1. \A k \in keys : T[k] \in DOMAIN P
    <3> HIDE DEF n, keys
    <3>1. QED
      BY <1>11, <1>19, <1>20
  <2>2. T = [k \in keys |-> T[k]] /\ DOMAIN T = keys
    BY <1>10
  <2>3. QED
    BY <2>1, <2>2
<1>22. keys \subseteq Keys
  <2>1. Named(infos) \subseteq Keys
    BY InfosMean DEF Named, Distinct, TypeOK
  <2>2. QED
    BY <2>1 DEF TypeOK, TableOK
<1>23. \A k \in DOMAIN T : P[T[k]].key = k
  <2> HIDE DEF n, keys
  <2>1. QED
    BY <1>19, <1>20, <1>21
<1>24. ASSUME IndexInv, ~(shuffled \/ Shuffles(infos)), NEW k \in keys, NEW j \in keys,
              k # j, known(k) \/ ~known(j)
       PROVE  P[T[k]].index # P[T[j]].index
  <2>1. CASE known(k) /\ known(j)
    <3>1. peers[table[k]].index # peers[table[j]].index
      BY <1>24, <2>1 DEF IndexInv
    <3> HIDE DEF n, keys
    <3>2. QED
      BY <1>19, <1>24, <2>1, <3>1
  <2>2. CASE known(k) /\ ~known(j)
    <3>1. PICK y \in DOMAIN infos : infos[y].public_key = j /\ P[T[j]].index = index[y]
      <4> HIDE DEF n, keys
      <4>1. QED
        BY <1>20, <1>24, <2>2
    <3>2. P[T[k]].index = peers[table[k]].index
      <4> HIDE DEF n, keys
      <4>1. QED
        BY <1>19, <1>24, <2>2
    <3>3. CASE k \in staying
      <4>1. peers[table[k]].index < index[y]
        BY <1>5, <2>2, <3>1, <3>3
      <4>2. peers[table[k]].index \in Nat /\ index[y] \in Nat
        <5>1. table[k] \in Created
          BY <2>2 DEF TypeOK, TableOK
        <5>2. QED
          BY <1>2, <1>5, <5>1 DEF PeerEntry
      <4>3. QED
        BY <3>1, <3>2, <4>1, <4>2
    <3>4. CASE k \notin staying
      <4>1. PICK x \in DOMAIN infos : infos[x].public_key = k
        BY <1>24, <3>4 DEF Named
      <4>2. x \in Nat /\ y \in Nat /\ x # y /\ ~(y < x)
        BY <1>4, <1>24, <2>2, <3>1, <4>1 DEF Shuffles
      <4>3. x < y
        BY <4>2
      <4>4. index[x] < index[y] /\ index[x] = peers[table[k]].index
        BY <1>5, <2>2, <3>1, <4>1, <4>3
      <4>5. index[x] \in Nat /\ index[y] \in Nat
        BY <1>5
      <4>6. QED
        BY <3>1, <3>2, <4>4, <4>5
    <3>5. QED
      BY <3>3, <3>4
  <2>3. CASE ~known(k) /\ ~known(j)
    <3>1. PICK x \in DOMAIN infos : infos[x].public_key = k /\ P[T[k]].index = index[x]
      <4> HIDE DEF n, keys
      <4>1. QED
        BY <1>20, <1>24, <2>3
    <3>2. PICK y \in DOMAIN infos : infos[y].public_key = j /\ P[T[j]].index = index[y]
      <4> HIDE DEF n, keys
      <4>1. QED
        BY <1>20, <1>24, <2>3
    <3>3. x \in Nat /\ y \in Nat /\ x # y
      BY <1>4, <1>24, <3>1, <3>2
    <3>4. x < y \/ y < x
      BY <3>3
    <3>5. index[x] < index[y] \/ index[y] < index[x]
      BY <1>5, <2>3, <3>1, <3>2, <3>4
    <3>6. index[x] \in Nat /\ index[y] \in Nat
      BY <1>5
    <3>7. QED
      BY <3>1, <3>2, <3>5, <3>6
  <2>4. QED
    BY <1>24, <2>1, <2>2, <2>3
<1>25. IndexInv => (shuffled \/ Shuffles(infos)) \/ \A k, j \in DOMAIN T :
                     P[T[k]].index = P[T[j]].index => k = j
  <2> HIDE DEF keys, known
  <2>1. QED
    BY <1>21, <1>24
<1>26. Created \subseteq DOMAIN P
  BY <1>2, <1>11
<1> DEFINE A == [peers |-> P, table |-> T, shuffled |-> shuffled \/ Shuffles(infos)]
<1>27. A.peers = P /\ A.table = T /\ A.shuffled = (shuffled \/ Shuffles(infos))
  OBVIOUS
<1>28. Fills(A)
  <2> HIDE DEF A, keys, n
  <2>1. QED
    BY <1>14, <1>15, <1>16, <1>17, <1>18, <1>21, <1>22, <1>23, <1>25, <1>26, <1>27 DEF Fills
<1>29. Len(A.peers) = Len(peers) + Len(News(infos)) /\ DOMAIN A.table = Named(infos) \cup staying
  <2> HIDE DEF A
  <2>1. QED
    BY <1>1, <1>15, <1>21, <1>27 DEF news
<1>30. QED
  BY <1>28, <1>29 DEF P, T

-----------------------------------------------------------------------------
(* Type correctness.                                                       *)

\* No peer is lost, nor changes its key or its index.
Grown ==
    /\ Created \subseteq Created'
    /\ \A p \in Created : peers'[p].key = peers[p].key /\ peers'[p].index = peers[p].index

LEMMA SamePeers ==
    ASSUME UNCHANGED peers
    PROVE  Grown /\ Created' = Created
BY DEF Grown, Created

LEMMA PeersOKKept ==
    ASSUME PeersOK, UNCHANGED <<peers, tunnels>>
    PROVE  PeersOK'
BY DEF PeersOK, Created

\* What does not change is still well-formed when the peers have grown.
LEMMA GrownKeeps ==
    ASSUME Grown
    PROVE  /\ \A d : Sealed(d) => Sealed(d)'
           /\ TableOK /\ UNCHANGED table => TableOK'
           /\ InboundOK /\ UNCHANGED inbound => InboundOK'
           /\ EventsOK /\ UNCHANGED events => EventsOK'
           /\ UserOK /\ UNCHANGED user => UserOK'
           /\ HeardOK /\ UNCHANGED <<heard, cookied, late, missed>> => HeardOK'
<1>1. \A d : Sealed(d) => Sealed(d)'
  BY DEF Grown, Sealed, Datagram, Peer
<1>2. TableOK /\ UNCHANGED table => TableOK'
  BY DEF Grown, TableOK
<1>3. InboundOK /\ UNCHANGED inbound => InboundOK'
  <2>1. InboundTasks \subseteq InboundTasks'
    BY DEF Grown, InboundTasks, Peer, Datagram
  <2>2. QED
    BY <2>1 DEF Grown, InboundOK, Busy
<1>4. EventsOK /\ UNCHANGED events => EventsOK'
  <2>1. EventTasks \subseteq EventTasks'
    BY DEF Grown, EventTasks, Peer
  <2>2. QED
    BY <2>1 DEF Grown, EventsOK
<1>5. UserOK /\ UNCHANGED user => UserOK'
  BY DEF Grown, UserOK, Peer
<1>6. HeardOK /\ UNCHANGED <<heard, cookied, late, missed>> => HeardOK'
  BY DEF Grown, HeardOK
<1>7. QED
  BY <1>1, <1>2, <1>3, <1>4, <1>5, <1>6

LEMMA KeysHaveHomes ==
    \A k \in Keys : Home[k] \in SUBSET Endpoints /\ UserEndpoints[k] \in SUBSET Endpoints
<1>1. Home \in {Home, UserEndpoints} /\ UserEndpoints \in {Home, UserEndpoints}
  OBVIOUS
<1>2. Home \in [Keys -> SUBSET Endpoints] /\ UserEndpoints \in [Keys -> SUBSET Endpoints]
  BY <1>1, HomeAssumption
<1>3. QED
  BY <1>2

\* A datagram that comes too late is still sealed.
LEMMA ReplacedSealed ==
    ASSUME NEW p, NEW D, \A d \in D : Sealed(d)
    PROVE  \A d \in Replaced(p, D) : Sealed(d)
<1>1. ASSUME NEW d \in D
      PROVE  Sealed([d EXCEPT !.replaced = TRUE])
  BY DEF Sealed, Datagram
<1>2. QED
  BY <1>1 DEF Replaced

\* A datagram that is sent is sealed.
LEMMA ProbeSeals ==
    ASSUME PeersOK, DatagramsOK, NEW p \in Created, NEW e \in Endpoints, Probe(p, e)
    PROVE  \A d \in inbox' : d \in inbox \/ Sealed(d)
<1>1. peers[p].key \in Keys /\ Home[peers[p].key] \in SUBSET Endpoints
  <2>1. peers[p] \in PeerEntry
    BY DEF PeersOK, Created
  <2>2. peers[p].key \in Keys
    BY <2>1 DEF PeerEntry
  <2>3. QED
    BY <2>2, KeysHaveHomes
<1>2. \A src \in Home[peers[p].key] :
        Sealed([kind |-> "response", by |-> peers[p].key, for |-> p, src |-> src,
                replaced |-> FALSE])
  BY <1>1 DEF Sealed, Datagram, Peer
<1>3. \A d \in Replaced(p, inbox) : Sealed(d)
  BY ReplacedSealed DEF DatagramsOK
<1>4. \A d \in inbox' : d \in Replaced(p, inbox) \/ Sealed(d)
  BY <1>2 DEF Probe
<1>5. QED
  BY <1>3, <1>4

\* The endpoints that may be selected are endpoints.
LEMMA SelectedEndpoints ==
    ASSUME PeersOK, NEW p \in Created
    PROVE  /\ Selected(p) \subseteq Endpoints
           /\ \A e \in Selected(p) :
                \/ e \in DOMAIN peers[p].paths /\ peers[p].paths[e] = "reachable"
                \/ e \in Range(peers[p].endpoints)
<1>1. peers[p] \in PeerEntry
  BY DEF PeersOK, Created
<1>2. peers[p].endpoints[1] \in Endpoints /\ 1 \in DOMAIN peers[p].endpoints
  BY <1>1 DEF PeerEntry
<1>3. DOMAIN peers[p].paths \subseteq Endpoints
  BY <1>1 DEF PeerEntry, PathSets
<1>4. peers[p].endpoints[1] \in Range(peers[p].endpoints)
  BY <1>2 DEF Range
<1>5. QED
  BY <1>2, <1>3, <1>4 DEF Selected

\* A path that is recorded or confirmed changes nothing else of any peer.
LEMMA PathStep ==
    ASSUME PeersOK, NEW p \in Created, NEW e \in Endpoints, NEW s \in {"probed", "reachable"},
           peers' = [peers EXCEPT ![p] = WithPath(@, e, s)], UNCHANGED tunnels
    PROVE  /\ PeersOK' /\ Grown /\ Created' = Created
           /\ \A q \in Created : peers'[q].endpoints = peers[q].endpoints
           /\ \A q \in Created : q # p => peers'[q] = peers[q]
           /\ DOMAIN peers'[p].paths = DOMAIN peers[p].paths \cup {e}
           /\ peers'[p].paths[e] = s
           /\ \A x \in DOMAIN peers[p].paths : x # e => peers'[p].paths[x] = peers[p].paths[x]
<1> DEFINE w == WithPath(peers[p], e, s)
<1>1. /\ peers \in Seq(PeerEntry) /\ Created = 1 .. Len(peers) /\ Len(peers) \in Nat
      /\ peers[p] \in PeerEntry
  BY DEF PeersOK, Created
<1>2. /\ w \in PeerEntry /\ w.key = peers[p].key /\ w.index = peers[p].index
      /\ w.endpoints = peers[p].endpoints
      /\ DOMAIN w.paths = DOMAIN peers[p].paths \cup {e}
      /\ w.paths[e] = s
      /\ \A x \in DOMAIN peers[p].paths : x # e => w.paths[x] = peers[p].paths[x]
  BY <1>1, PathAdded
<1>3. peers' = [peers EXCEPT ![p] = w]
  OBVIOUS
<1> HIDE DEF w
<1>4. /\ peers' \in Seq(PeerEntry) /\ Len(peers') = Len(peers) /\ DOMAIN peers' = DOMAIN peers
      /\ peers'[p] = w /\ \A q \in Created : q # p => peers'[q] = peers[q]
  BY <1>1, <1>2, <1>3 DEF Created
<1>5. Created' = Created
  BY <1>4 DEF Created
<1>6. PeersOK'
  <2>1. \E b \in Nat : \A q \in Created : peers'[q].index <= b
    BY <1>2, <1>4 DEF PeersOK
  <2>2. QED
    BY <1>4, <1>5, <2>1 DEF PeersOK
<1>7. Grown
  BY <1>2, <1>4, <1>5 DEF Grown
<1>8. \A q \in Created : peers'[q].endpoints = peers[q].endpoints
  BY <1>2, <1>4
<1>9. QED
  BY <1>2, <1>4, <1>5, <1>6, <1>7, <1>8

LEMMA RecordStep ==
    ASSUME PeersOK, NEW p \in Created, NEW e \in Endpoints,
           peers' = [peers EXCEPT ![p] = RecordProbe(@, e)], UNCHANGED tunnels
    PROVE  \E s \in {"probed", "reachable"} :
             /\ peers' = [peers EXCEPT ![p] = WithPath(@, e, s)]
             /\ e \in DOMAIN peers[p].paths => s = peers[p].paths[e]
             /\ e \notin DOMAIN peers[p].paths => s = "probed"
<1>1. peers[p] \in PeerEntry
  BY DEF PeersOK, Created
<1>2. PICK s \in {"probed", "reachable"} :
        /\ RecordProbe(peers[p], e) = WithPath(peers[p], e, s)
        /\ e \in DOMAIN peers[p].paths => s = peers[p].paths[e]
        /\ e \notin DOMAIN peers[p].paths => s = "probed"
  BY <1>1, ProbeRecorded
<1>3. QED
  BY <1>2

\* What the result of a tunnel says of the datagram.
LEMMA ResultsMean ==
    ASSUME NEW p, NEW d, d.kind \in {"init", "response", "data"}, NEW result \in Results(p, d)
    PROVE  /\ result \in {"err", "cookie", "response", "keepalive", "packet"}
           /\ result = "cookie" => "load" \in scenario
           /\ result \in {"response", "keepalive", "packet"} => Accepts(p, d)
           /\ result = "response" => d.kind = "init"
           /\ result \in {"keepalive", "packet"} => d.kind # "init"
BY DEF Results

LEMMA DecapsulateStep ==
    ASSUME PeersOK, DatagramsOK, HeardOK, NEW p \in Created, NEW d, Sealed(d),
           NEW result \in Results(p, d), NEW left \in SUBSET inbox,
           Decapsulate(p, d, result, left), UNCHANGED peers,
           cookied' \subseteq cookied \cup {<<p, d.src>>},
           missed' \subseteq missed \cup (Created \X {d.src})
    PROVE  /\ PeersOK' /\ HeardOK'
           /\ \A x \in inbox' : x \in inbox \/ Sealed(x)
<1>1. d \in Datagram /\ d.kind \in {"init", "response", "data"} /\ d.src \in Endpoints
  BY DEF Sealed, Datagram
<1>2. Created' = Created
  BY SamePeers
<1>3. PeersOK'
  <2>1. tunnels[p] \in Tunnel
    BY DEF PeersOK
  <2>2. Shaken(p, result) \in {"fresh", "responded", "up"}
    BY <2>1 DEF Shaken, Tunnel
  <2>3. tunnels' \in [Created -> Tunnel]
    BY <2>1, <2>2 DEF PeersOK, Decapsulate, Tunnel
  <2>4. QED
    BY <1>2, <2>3 DEF PeersOK
<1>4. HeardOK'
  <2>1. heard' \subseteq heard \cup {<<p, d.src>>} /\ late' \subseteq late \cup {<<p, d.src>>}
    BY DEF Decapsulate
  <2>2. QED
    BY <1>1, <1>2, <2>1 DEF HeardOK
<1>5. \A x \in inbox' : x \in inbox \/ Sealed(x)
  <2>1. \A x \in left : Sealed(x)
    BY DEF DatagramsOK
  <2>2. \A x \in Replaced(p, left) : Sealed(x)
    BY <2>1, ReplacedSealed
  <2>3. inbox' = left \/ inbox' = Replaced(p, left)
    BY DEF Decapsulate
  <2>4. QED
    BY <2>2, <2>3
<1>6. QED
  BY <1>3, <1>4, <1>5

LEMMA CurrentCreated ==
    ASSUME TableOK
    PROVE  Current \subseteq Created
BY DEF TableOK, Current

\* What the inbound task is left with after a result.
LEMMA HandlingOK ==
    ASSUME NEW p \in Created, NEW d, d.src \in Endpoints, NEW mode \in {"verified", "trial"},
           NEW result \in {"err", "cookie", "response", "keepalive", "packet"},
           inbound' = Handling(p, d, mode, result), UNCHANGED peers
    PROVE  /\ InboundOK'
           /\ inbound'.at = IF result = "err" THEN "recv" ELSE "confirm"
           /\ result # "err" => /\ inbound'.peer = p /\ inbound'.src = d.src
                                /\ inbound'.mode = mode /\ inbound'.result = result
<1>1. Created' = Created
  BY SamePeers
<1>2. InboundIdle \in InboundTasks
  BY DEF InboundIdle, InboundTasks, Peer
<1>3. CASE result = "err"
  <2>1. inbound' = InboundIdle
    BY <1>3 DEF Handling
  <2>2. InboundTasks' = InboundTasks
    BY <1>1 DEF InboundTasks, Peer, Datagram
  <2>3. inbound'.at = "recv"
    BY <2>1 DEF InboundIdle
  <2>4. QED
    BY <1>2, <1>3, <2>1, <2>2, <2>3 DEF InboundOK, Busy
<1>4. CASE result # "err"
  <2>1. inbound' = [InboundIdle EXCEPT !.at = "confirm", !.peer = p, !.src = d.src,
                                       !.mode = mode, !.result = result]
    BY <1>4 DEF Handling
  <2>2. InboundTasks' = InboundTasks
    BY <1>1 DEF InboundTasks, Peer, Datagram
  <2>3. inbound' \in InboundTasks
    BY <1>2, <1>4, <2>1 DEF InboundTasks, Peer
  <2>4. /\ inbound'.at = "confirm" /\ inbound'.peer = p /\ inbound'.src = d.src
        /\ inbound'.mode = mode /\ inbound'.result = result
    BY <2>1 DEF InboundIdle
  <2>5. QED
    BY <1>1, <1>4, <2>2, <2>3, <2>4 DEF InboundOK, Busy
<1>5. QED
  BY <1>3, <1>4

\* The steps of the inbound task.
LEMMA ReceiveFoundType ==
    ASSUME TypeOK, NEW d \in inbox, ReceiveFound(d)
    PROVE  TypeOK' /\ Grown
<1>1. Grown /\ Created' = Created
  BY SamePeers DEF ReceiveFound
<1>2. Sealed(d) /\ d.kind \in {"init", "response", "data"} /\ d.src \in Endpoints
  BY DEF TypeOK, DatagramsOK, Sealed, Datagram
<1>11. PICK p \in Found(d) : \E result \in Results(p, d) :
        /\ Decapsulate(p, d, result, inbox \ {d})
        /\ inbound' = Handling(p, d, "verified", result)
        /\ cookied' \subseteq cookied \cup {<<p, d.src>>}
        /\ missed' = missed \cup (Takers(p, d) \X {d.src})
  BY DEF ReceiveFound
<1>3. PICK result \in Results(p, d) :
        /\ Decapsulate(p, d, result, inbox \ {d})
        /\ inbound' = Handling(p, d, "verified", result)
        /\ cookied' \subseteq cookied \cup {<<p, d.src>>}
        /\ missed' = missed \cup (Takers(p, d) \X {d.src})
  BY <1>11
<1>4. p \in Created
  BY CurrentCreated DEF TypeOK, Found, ByEndpoint, ByIndex
<1>12. missed' \subseteq missed \cup (Created \X {d.src})
  BY <1>3, CurrentCreated DEF TypeOK, Takers
<1>13. inbox \ {d} \in SUBSET inbox /\ UNCHANGED peers
  BY DEF ReceiveFound
<1>5. PeersOK' /\ HeardOK' /\ \A x \in inbox' : x \in inbox \/ Sealed(x)
  BY <1>2, <1>3, <1>4, <1>12, <1>13, DecapsulateStep DEF TypeOK
<1>6. result \in {"err", "cookie", "response", "keepalive", "packet"}
  BY <1>2, ResultsMean
<1>7. InboundOK' /\ inbound'.at # "trial"
  BY <1>2, <1>3, <1>4, <1>6, HandlingOK DEF ReceiveFound
<1>8. DatagramsOK'
  BY <1>1, <1>5, <1>7, GrownKeeps DEF TypeOK, DatagramsOK
<1>9. TableOK' /\ EventsOK' /\ UserOK' /\ scenario' \in Scenarios
  BY <1>1, GrownKeeps DEF TypeOK, ReceiveFound
<1>10. QED
  BY <1>1, <1>5, <1>7, <1>8, <1>9 DEF TypeOK

LEMMA ReceiveUnknownType ==
    ASSUME TypeOK, NEW d \in inbox, ReceiveUnknown(d)
    PROVE  TypeOK' /\ Grown
<1>1. Grown /\ Created' = Created
  BY SamePeers DEF ReceiveUnknown
<1>2. Sealed(d) /\ d \in Datagram
  BY DEF TypeOK, DatagramsOK, Sealed
<1>3. inbound' = [InboundIdle EXCEPT !.at = "trial", !.trying = Current, !.datagram = d]
  BY DEF ReceiveUnknown
<1>4. inbound' \in InboundTasks /\ inbound'.at = "trial" /\ inbound'.datagram = d
  BY <1>2, <1>3, CurrentCreated DEF TypeOK, InboundIdle, InboundTasks, Peer
<1>5. InboundOK'
  BY <1>1, <1>4 DEF InboundOK, Busy, InboundTasks, Peer, Datagram
<1>6. DatagramsOK'
  BY <1>1, <1>2, <1>4, GrownKeeps DEF TypeOK, ReceiveUnknown, DatagramsOK
<1>7. TableOK' /\ EventsOK' /\ UserOK' /\ HeardOK' /\ PeersOK' /\ scenario' \in Scenarios
  BY <1>1, GrownKeeps, PeersOKKept DEF TypeOK, ReceiveUnknown, history
<1>8. QED
  BY <1>1, <1>5, <1>6, <1>7 DEF TypeOK

LEMMA TryType ==
    ASSUME TypeOK, NEW p \in Created, Try(p)
    PROVE  TypeOK' /\ Grown
<1> DEFINE d == inbound.datagram
<1>1. Grown /\ Created' = Created
  BY SamePeers DEF Try
<1>2. Sealed(d) /\ d.kind \in {"init", "response", "data"} /\ d.src \in Endpoints
  BY DEF TypeOK, DatagramsOK, Sealed, Datagram, Try
<1>3. PICK result \in Results(p, d) :
        /\ Decapsulate(p, d, result, inbox)
        /\ inbound' = IF result = "err" THEN [inbound EXCEPT !.trying = @ \ {p}]
                      ELSE Handling(p, d, "trial", result)
  BY DEF Try
<1>9. UNCHANGED <<peers, cookied, missed>> /\ inbox \in SUBSET inbox
  BY DEF Try
<1>4. PeersOK' /\ HeardOK' /\ \A x \in inbox' : x \in inbox \/ Sealed(x)
  BY <1>2, <1>3, <1>9, DecapsulateStep DEF TypeOK
<1>5. result \in {"err", "cookie", "response", "keepalive", "packet"}
  BY <1>2, ResultsMean
<1>6. CASE result = "err"
  <2>1. inbound' = [inbound EXCEPT !.trying = @ \ {p}] /\ inbound \in InboundTasks
    BY <1>3, <1>6 DEF TypeOK, InboundOK
  <2>2. inbound' \in InboundTasks /\ inbound'.at = inbound.at /\ inbound'.datagram = d
    BY <2>1 DEF InboundTasks
  <2>3. inbound.at = "trial"
    BY DEF Try
  <2>4. InboundOK' /\ DatagramsOK'
    BY <1>1, <1>2, <1>4, <2>2, <2>3, GrownKeeps
    DEF TypeOK, InboundOK, Busy, InboundTasks, Peer, Datagram, DatagramsOK
  <2>5. QED
    BY <1>1, <1>4, <2>4, GrownKeeps DEF TypeOK, Try
<1>7. CASE result # "err"
  <2>1. InboundOK' /\ inbound'.at # "trial"
    BY <1>2, <1>3, <1>5, <1>7, HandlingOK DEF Try
  <2>2. DatagramsOK'
    BY <1>1, <1>4, <2>1, GrownKeeps DEF TypeOK, DatagramsOK
  <2>3. QED
    BY <1>1, <1>4, <2>1, <2>2, GrownKeeps DEF TypeOK, Try
<1>8. QED
  BY <1>6, <1>7

\* A step of the inbound task that goes on with the same peer, or is idle.
LEMMA InboundGoesOn ==
    ASSUME TypeOK, Created' = Created, Grown,
           \/ inbound' = InboundIdle
           \/ /\ inbound.at \in {"confirm", "drain", "probe"}
              /\ \E at \in {"drain", "probe", "record"}, confirmed \in BOOLEAN :
                   \/ inbound' = [inbound EXCEPT !.at = at, !.confirmed = confirmed]
                   \/ inbound' = [inbound EXCEPT !.at = at],
           \A d \in inbox' : d \in inbox \/ Sealed(d)
    PROVE  InboundOK' /\ DatagramsOK'
<1>1. inbound \in InboundTasks /\ (Busy => inbound.peer \in Created /\ inbound.src \in Endpoints)
  BY DEF TypeOK, InboundOK
<1>2. InboundIdle \in InboundTasks /\ InboundIdle.at = "recv"
  BY DEF InboundIdle, InboundTasks, Peer
<1>3. /\ inbound' \in InboundTasks /\ inbound'.at # "trial"
      /\ \/ inbound'.at = "recv"
         \/ Busy /\ inbound'.peer = inbound.peer /\ inbound'.src = inbound.src
  BY <1>1, <1>2 DEF InboundTasks, Busy
<1>4. InboundTasks' = InboundTasks
  BY DEF InboundTasks, Peer, Datagram
<1>5. InboundOK'
  BY <1>1, <1>3, <1>4 DEF InboundOK, Busy
<1>6. DatagramsOK'
  BY <1>3, GrownKeeps DEF TypeOK, DatagramsOK
<1>7. QED
  BY <1>5, <1>6

LEMMA ConfirmType ==
    ASSUME TypeOK, Confirm
    PROVE  TypeOK' /\ Grown
<1> DEFINE p == inbound.peer
           known == ShouldConfirm /\ inbound.src \in DOMAIN peers[p].paths
<1>1. p \in Created /\ inbound.src \in Endpoints
  BY DEF TypeOK, InboundOK, Busy, Confirm
<1>2. /\ peers' = IF known THEN [peers EXCEPT ![p] = WithPath(@, inbound.src, "reachable")]
                           ELSE peers
      /\ inbound' = [inbound EXCEPT !.at = "drain", !.confirmed = known]
  BY DEF Confirm
<1>3. PeersOK' /\ Grown /\ Created' = Created
  <2>1. CASE known
    BY <1>1, <1>2, <2>1, PathStep DEF TypeOK, Confirm
  <2>2. CASE ~known
    BY <1>2, <2>2, PeersOKKept, SamePeers DEF TypeOK, Confirm
  <2>3. QED
    BY <2>1, <2>2
<1>4. known \in BOOLEAN
  BY DEF ShouldConfirm
<1> HIDE DEF known, p
<1>5. InboundOK' /\ DatagramsOK'
  <2>1. inbound.at \in {"confirm", "drain", "probe"} /\ inbox' = inbox
    BY DEF Confirm
  <2>2. QED
    BY <1>2, <1>3, <1>4, <2>1, InboundGoesOn
<1>6. QED
  BY <1>3, <1>5, GrownKeeps DEF TypeOK, Confirm, history

LEMMA DrainType ==
    ASSUME TypeOK, Drain
    PROVE  TypeOK' /\ Grown
<1>1. Grown /\ Created' = Created
  BY SamePeers DEF Drain
<1>2. inbound.peer \in Created
  BY DEF TypeOK, InboundOK, Busy, Drain
<1>3. PeersOK'
  <2>1. tunnels' \in [Created -> Tunnel]
    BY <1>2 DEF TypeOK, PeersOK, Drain, DrainPeer, Tunnel
  <2>2. QED
    BY <1>1, <2>1 DEF TypeOK, PeersOK, Drain
<1>4. InboundOK' /\ DatagramsOK'
  <2>1. inbound.at \in {"confirm", "drain", "probe"} /\ inbox' = inbox
    BY DEF Drain
  <2>2. \/ inbound' = InboundIdle
        \/ \E at \in {"drain", "probe", "record"} : inbound' = [inbound EXCEPT !.at = at]
    BY DEF Drain
  <2>3. QED
    BY <1>1, <2>1, <2>2, InboundGoesOn
<1>5. QED
  BY <1>1, <1>3, <1>4, GrownKeeps DEF TypeOK, Drain, history

LEMMA RestOfInboundType ==
    ASSUME TypeOK, GiveUp \/ ProbeSource \/ RecordSource \/ InboundFail
    PROVE  TypeOK' /\ Grown
<1>1. CASE GiveUp \/ InboundFail
  <2>1. Grown /\ Created' = Created
    BY <1>1, SamePeers DEF GiveUp, InboundFail
  <2>2. InboundOK' /\ DatagramsOK'
    BY <1>1, <2>1, InboundGoesOn DEF GiveUp, InboundFail
  <2>3. QED
    BY <1>1, <2>1, <2>2, GrownKeeps, PeersOKKept DEF TypeOK, GiveUp, InboundFail, history
<1>2. CASE ProbeSource
  <2>1. Grown /\ Created' = Created
    BY <1>2, SamePeers DEF ProbeSource
  <2>2. inbound.peer \in Created /\ inbound.src \in Endpoints
    BY <1>2 DEF TypeOK, InboundOK, Busy, ProbeSource
  <2>3. \A d \in inbox' : d \in inbox \/ Sealed(d)
    BY <1>2, <2>2, ProbeSeals DEF TypeOK, ProbeSource
  <2>4. InboundOK' /\ DatagramsOK'
    BY <1>2, <2>1, <2>3, InboundGoesOn DEF ProbeSource
  <2>5. QED
    BY <1>2, <2>1, <2>4, GrownKeeps, PeersOKKept DEF TypeOK, ProbeSource, history
<1>3. CASE RecordSource
  <2>1. inbound.peer \in Created /\ inbound.src \in Endpoints
    BY <1>3 DEF TypeOK, InboundOK, Busy, RecordSource
  <2>2. PICK s \in {"probed", "reachable"} :
          peers' = [peers EXCEPT ![inbound.peer] = WithPath(@, inbound.src, s)]
    BY <1>3, <2>1, RecordStep DEF TypeOK, RecordSource
  <2>3. PeersOK' /\ Grown /\ Created' = Created
    BY <1>3, <2>1, <2>2, PathStep DEF TypeOK, RecordSource
  <2>4. InboundOK' /\ DatagramsOK'
    BY <1>3, <2>3, InboundGoesOn DEF RecordSource
  <2>5. QED
    BY <1>3, <2>3, <2>4, GrownKeeps DEF TypeOK, RecordSource, history
<1>4. QED
  BY <1>1, <1>2, <1>3

\* The steps of the event task.
LEMMA AllToProbe ==
    ASSUME NEW T, NEW C, T \subseteq C
    PROVE  LET E == [EventsIdle EXCEPT !.at = "probe", !.todo = T]
           IN  /\ E \in [at : {"wait", "probe", "record"}, todo : SUBSET C, peer : C \cup {Nobody},
                         endpoints : UNION {[S -> Endpoints] : S \in SUBSET Nat}]
               /\ E.at = "probe" /\ E.todo = T /\ E.endpoints = <<>>
<1>1. <<>> \in [{} -> Endpoints] /\ {} \in SUBSET Nat
  OBVIOUS
<1>2. <<>> \in UNION {[S -> Endpoints] : S \in SUBSET Nat}
  BY <1>1
<1>3. /\ EventsIdle \in [at : {"wait", "probe", "record"}, todo : SUBSET C, peer : C \cup {Nobody},
                         endpoints : UNION {[S -> Endpoints] : S \in SUBSET Nat}]
      /\ EventsIdle.endpoints = <<>>
  BY <1>2 DEF EventsIdle
<1>4. QED
  BY <1>3

\* The place of the endpoint that is probed.
LEMMA PlaceExists ==
    ASSUME EventsOK, events.endpoints # <<>>
    PROVE  /\ Place \in DOMAIN events.endpoints
           /\ events.endpoints[Place] \in Endpoints
           /\ events.endpoints[Place] \in Range(events.endpoints)
           /\ events.peer \in Created
<1>1. PICK S \in SUBSET Nat : events.endpoints \in [S -> Endpoints]
  BY DEF EventsOK, EventTasks
<1>2. S # {}
  <2>1. <<>> \in [{} -> Endpoints]
    OBVIOUS
  <2>2. \A f, g \in [{} -> Endpoints] : f = g
    OBVIOUS
  <2>3. S = {} => events.endpoints = <<>>
    BY <1>1, <2>1, <2>2
  <2>4. QED
    BY <2>3
<1>3. Place \in S
  BY <1>1, <1>2, LeastExists DEF Place
<1>4. QED
  BY <1>1, <1>3 DEF EventsOK, Range

LEMMA TakeEventType ==
    ASSUME TypeOK, NEW A, Fills(A), Takes(A)
    PROVE  TypeOK' /\ Grown
<1>1. peers' = A.peers /\ table' = A.table /\ tunnels' = WithTunnels(Len(A.peers))
  BY DEF Takes
<1>2. Created' = 1 .. Len(A.peers) /\ Created' = DOMAIN A.peers /\ Created \subseteq Created'
  BY <1>1 DEF Created, Fills
<1>3. Grown
  BY <1>1, <1>2 DEF Grown, Fills
<1>4. PeersOK'
  <2>1. Fresh \in Tunnel /\ tunnels \in [Created -> Tunnel]
    BY DEF Fresh, Tunnel, TypeOK, PeersOK
  <2>2. tunnels' \in [Created' -> Tunnel]
    BY <1>1, <1>2, <2>1 DEF WithTunnels
  <2>3. QED
    BY <1>1, <1>2, <2>2 DEF PeersOK, Fills
<1>5. TableOK'
  BY <1>1, <1>2 DEF TableOK, Fills
<1>6. EventsOK'
  <2>1. {A.table[k] : k \in DOMAIN A.table} \subseteq Created'
    BY <1>2 DEF Fills
  <2>2. events' = [EventsIdle EXCEPT !.at = "probe",
                                     !.todo = {A.table[k] : k \in DOMAIN A.table}]
    BY DEF Takes
  <2>3. QED
    BY <2>1, <2>2, AllToProbe DEF EventsOK, EventTasks, Peer
<1>7. DatagramsOK' /\ InboundOK' /\ UserOK' /\ HeardOK' /\ scenario' \in Scenarios
  BY <1>3, GrownKeeps DEF TypeOK, DatagramsOK, Takes, history
<1>8. QED
  BY <1>3, <1>4, <1>5, <1>6, <1>7 DEF TypeOK

\* A snapshot and a single info are taken alike.
LEMMA EventsFill ==
    ASSUME TypeOK,
           \/ \E infos \in Snapshots : Replace(infos)
           \/ \E info \in Infos : Upsert(info)
    PROVE  \E A : Fills(A) /\ Takes(A)
<1>1. ASSUME NEW infos, Distinct(infos), NEW staying \in SUBSET DOMAIN table,
             TakeEvent(infos, staying)
      PROVE  \E A : Fills(A) /\ Takes(A)
  <2> DEFINE A == [peers |-> AllPeers(infos, staying), table |-> Filled(infos, staying),
                   shuffled |-> shuffled \/ Shuffles(infos)]
  <2>1. /\ Fills(A) /\ Len(A.peers) = Len(peers) + Len(News(infos))
        /\ DOMAIN A.table = Named(infos) \cup staying
    BY <1>1, EventFills
  <2>2. /\ A.peers = AllPeers(infos, staying) /\ A.table = Filled(infos, staying)
        /\ A.shuffled = (shuffled \/ Shuffles(infos))
    OBVIOUS
  <2> HIDE DEF A
  <2>3. Takes(A)
    BY <1>1, <2>1, <2>2 DEF TakeEvent, Takes
  <2>4. QED
    BY <2>1, <2>3
<1>2. ASSUME NEW infos \in Snapshots, Replace(infos)
      PROVE  \E A : Fills(A) /\ Takes(A)
  BY <1>1, <1>2, SnapshotsDistinct DEF Replace
<1>3. ASSUME NEW info \in Infos, Upsert(info)
      PROVE  \E A : Fills(A) /\ Takes(A)
  <2>1. Distinct(<<info>>)
    BY DEF Distinct
  <2>2. QED
    BY <1>1, <1>3, <2>1 DEF Upsert
<1>4. QED
  BY <1>2, <1>3

LEMMA ProbedAtPlaces ==
    ASSUME PeersOK, NEW p \in Created
    PROVE  /\ EndpointsToProbe(p) \in UNION {[S -> Endpoints] : S \in SUBSET Nat}
           /\ Range(EndpointsToProbe(p)) \subseteq Range(peers[p].endpoints)
<1> DEFINE s == peers[p].endpoints
           S == {i \in DOMAIN s : s[i] \notin DOMAIN peers[p].paths}
<1>1. peers[p] \in PeerEntry
  BY DEF PeersOK, Created
<1>2. s \in Seq(Endpoints)
  BY <1>1 DEF PeerEntry
<1>3. EndpointsToProbe(p) = [i \in S |-> s[i]]
  BY DEF EndpointsToProbe, RestrictValues, Restrict
<1>4. S \in SUBSET Nat /\ \A i \in S : s[i] \in Endpoints /\ i \in DOMAIN s
  BY <1>2
<1> HIDE DEF S, s
<1>5. [i \in S |-> s[i]] \in [S -> Endpoints]
  BY <1>4
<1>6. Range([i \in S |-> s[i]]) \subseteq Range(s)
  BY <1>4 DEF Range
<1>7. QED
  BY <1>3, <1>4, <1>5, <1>6 DEF s

LEMMA ProbingType ==
    ASSUME TypeOK,
           \/ \E p \in Created : EventsPeer(p)
           \/ EventsSend \/ EventsRecord \/ EventsDone \/ EventsFail
    PROVE  TypeOK' /\ Grown
<1>1. events \in EventTasks
  BY DEF TypeOK, EventsOK
<1>2. EventsIdle \in EventTasks
  <2>1. <<>> \in [{} -> Endpoints] /\ {} \in SUBSET Nat
    OBVIOUS
  <2>2. <<>> \in UNION {[S -> Endpoints] : S \in SUBSET Nat}
    BY <2>1
  <2>3. QED
    BY <2>2 DEF EventsIdle, EventTasks, Peer
<1>3. ASSUME NEW p \in Created, EventsPeer(p)
      PROVE  TypeOK' /\ Grown
  <2>1. Grown /\ Created' = Created
    BY <1>3, SamePeers DEF EventsPeer
  <2>2. EndpointsToProbe(p) \in UNION {[S -> Endpoints] : S \in SUBSET Nat}
    BY ProbedAtPlaces DEF TypeOK
  <2>3. EventsOK'
    <3>1. events' = [events EXCEPT !.todo = @ \ {p},
                                   !.peer = IF EndpointsToProbe(p) = <<>> THEN Nobody ELSE p,
                                   !.endpoints = EndpointsToProbe(p)]
          /\ events.at = "probe"
      BY <1>3 DEF EventsPeer
    <3>2. QED
      BY <1>1, <2>1, <2>2, <3>1 DEF EventsOK, EventTasks, Peer
  <2>4. QED
    BY <1>3, <2>1, <2>3, GrownKeeps, PeersOKKept DEF TypeOK, DatagramsOK, EventsPeer, history
<1>4. ASSUME EventsSend
      PROVE  TypeOK' /\ Grown
  <2>1. Grown /\ Created' = Created
    BY <1>4, SamePeers DEF EventsSend
  <2>2. events.peer \in Created /\ events.endpoints[Place] \in Endpoints
    BY <1>4, PlaceExists DEF TypeOK, EventsSend
  <2>3. DatagramsOK'
    BY <1>4, <2>1, <2>2, ProbeSeals, GrownKeeps DEF TypeOK, DatagramsOK, EventsSend
  <2>4. EventsOK'
    BY <1>1, <1>4, <2>1 DEF TypeOK, EventsOK, EventTasks, EventsSend, Peer
  <2>5. QED
    BY <1>4, <2>1, <2>3, <2>4, GrownKeeps, PeersOKKept DEF TypeOK, EventsSend, history
<1>5. ASSUME EventsRecord
      PROVE  TypeOK' /\ Grown
  <2> DEFINE q == events.peer
             e == events.endpoints[Place]
             left == Restrict(events.endpoints, DOMAIN events.endpoints \ {Place})
  <2>1. q \in Created /\ e \in Endpoints
    BY <1>5, PlaceExists DEF TypeOK, EventsOK, EventsRecord
  <2>2. peers' = [peers EXCEPT ![q] = RecordProbe(@, e)] /\ UNCHANGED tunnels
    BY <1>5 DEF EventsRecord
  <2>3. PeersOK' /\ Grown /\ Created' = Created
    <3> HIDE DEF q, e
    <3>1. PICK s \in {"probed", "reachable"} : peers' = [peers EXCEPT ![q] = WithPath(@, e, s)]
      BY <2>1, <2>2, RecordStep DEF TypeOK
    <3>2. QED
      BY <2>1, <2>2, <3>1, PathStep DEF TypeOK
  <2>4. EventsOK'
    <3>1. events' = [events EXCEPT !.at = "probe", !.endpoints = left,
                                   !.peer = IF left = <<>> THEN Nobody ELSE @]
      BY <1>5 DEF EventsRecord
    <3>2. left \in UNION {[S -> Endpoints] : S \in SUBSET Nat}
      <4>1. PICK S \in SUBSET Nat : events.endpoints \in [S -> Endpoints]
        BY <1>1 DEF EventTasks
      <4>2. left \in [S \ {Place} -> Endpoints] /\ S \ {Place} \in SUBSET Nat
        BY <4>1 DEF Restrict
      <4>3. QED
        BY <4>2
    <3> HIDE DEF left
    <3>3. QED
      BY <1>1, <2>1, <2>3, <3>1, <3>2 DEF EventsOK, EventTasks, Peer
  <2>5. QED
    BY <1>5, <2>3, <2>4, GrownKeeps DEF TypeOK, DatagramsOK, EventsRecord, history
<1>6. ASSUME EventsDone \/ EventsFail
      PROVE  TypeOK' /\ Grown
  <2>1. Grown /\ Created' = Created
    BY <1>6, SamePeers DEF EventsDone, EventsFail
  <2>2. EventsOK'
    <3>1. events' = EventsIdle /\ EventsIdle.at = "wait" /\ EventsIdle.endpoints = <<>>
      BY <1>6 DEF EventsDone, EventsFail, EventsIdle
    <3>2. EventTasks' = EventTasks
      BY <2>1 DEF EventTasks, Peer
    <3>3. QED
      BY <1>2, <3>1, <3>2 DEF EventsOK
  <2>3. QED
    BY <1>6, <2>1, <2>2, GrownKeeps, PeersOKKept
    DEF TypeOK, DatagramsOK, EventsDone, EventsFail, history
<1>7. QED
  BY <1>3, <1>4, <1>5, <1>6

\* The outbound and timer tasks.
LEMMA SendingType ==
    ASSUME TypeOK,
           \/ \E k \in Keys : Encapsulate(k)
           \/ \E p \in Created : UpdateTimers(p)
    PROVE  TypeOK' /\ Grown
<1>1. ASSUME NEW p \in Created, Initiate(p)
      PROVE  \A d \in inbox' : d \in inbox \/ Sealed(d)
  <2>1. PICK e \in Selected(p) : Probe(p, e)
    BY <1>1 DEF Initiate
  <2>2. e \in Endpoints
    BY <2>1, SelectedEndpoints DEF TypeOK
  <2>3. QED
    BY <2>1, <2>2, ProbeSeals DEF TypeOK
<1>2. ASSUME NEW p \in Created, NEW t \in Tunnel,
             tunnels' = [tunnels EXCEPT ![p] = t] \/ UNCHANGED tunnels,
             Initiate(p) \/ UNCHANGED inbox \/ inbox' = Replaced(p, inbox),
             UNCHANGED <<scenario, table, peers, tasks, history>>
      PROVE  TypeOK' /\ Grown
  <2>1. Grown /\ Created' = Created
    BY <1>2, SamePeers
  <2>2. PeersOK'
    <3>1. tunnels' \in [Created' -> Tunnel]
      BY <1>2, <2>1 DEF TypeOK, PeersOK
    <3>2. QED
      BY <1>2, <2>1, <3>1 DEF TypeOK, PeersOK
  <2>3. DatagramsOK'
    <3>1. \A d \in Replaced(p, inbox) : Sealed(d)
      BY ReplacedSealed DEF TypeOK, DatagramsOK
    <3>2. \A d \in inbox' : d \in inbox \/ Sealed(d)
      BY <1>1, <1>2, <3>1
    <3>3. QED
      BY <1>2, <2>1, <3>2, GrownKeeps DEF TypeOK, DatagramsOK, tasks
  <2>4. QED
    BY <1>2, <2>1, <2>2, <2>3, GrownKeeps DEF TypeOK, tasks, history
<1>3. ASSUME NEW k \in Keys, Encapsulate(k)
      PROVE  TypeOK' /\ Grown
  <2>1. table[k] \in Created
    BY <1>3 DEF Encapsulate, TypeOK, TableOK
  <2> DEFINE t == [tunnels[table[k]] EXCEPT !.queued = @ \/ tunnels[table[k]].state # "up"]
  <2>2. t \in Tunnel
    BY <2>1 DEF TypeOK, PeersOK, Tunnel
  <2>3. tunnels' = [tunnels EXCEPT ![table[k]] = t]
    BY <1>3, <2>1 DEF Encapsulate, TypeOK, PeersOK
  <2> HIDE DEF t
  <2>4. QED
    BY <1>2, <1>3, <2>1, <2>2, <2>3 DEF Encapsulate
<1>4. ASSUME NEW p \in Created, UpdateTimers(p)
      PROVE  TypeOK' /\ Grown
  <2>1. Fresh \in Tunnel
    BY DEF Fresh, Tunnel
  <2>2. QED
    BY <1>2, <1>4, <2>1 DEF UpdateTimers
<1>5. QED
  BY <1>3, <1>4

\* The user, the network and the remote devices.
LEMMA OutsideType ==
    ASSUME TypeOK,
           \/ Lose \/ UserRecord \/ TaskFails("outbound") \/ TaskFails("timer")
           \/ \E k \in Keys, e \in Endpoints : RemoteInitiates(k, e) \/ UserProbe(k, e)
           \/ \E p \in Created, e \in Endpoints : RemoteSends(p, e)
    PROVE  TypeOK' /\ Grown
<1>1. ASSUME UNCHANGED <<scenario, table, peers, tunnels, tasks, history>>,
             \A d \in inbox' : d \in inbox \/ Sealed(d)
      PROVE  TypeOK' /\ Grown
  <2>1. Grown /\ Created' = Created
    BY <1>1, SamePeers
  <2>2. DatagramsOK'
    BY <1>1, <2>1, GrownKeeps DEF TypeOK, DatagramsOK, tasks
  <2>3. QED
    BY <1>1, <2>1, <2>2, GrownKeeps, PeersOKKept DEF TypeOK, tasks, history
<1>2. CASE Lose
  BY <1>1, <1>2 DEF Lose
<1>3. CASE TaskFails("outbound") \/ TaskFails("timer")
  <2>1. Grown /\ Created' = Created
    BY <1>3, SamePeers DEF TaskFails
  <2>2. QED
    BY <1>3, <2>1, GrownKeeps, PeersOKKept DEF TypeOK, DatagramsOK, TaskFails, history
<1>4. CASE UserRecord
  <2>1. user.peer \in Created /\ user.endpoint \in Endpoints
    BY <1>4 DEF TypeOK, UserOK, UserRecord
  <2>2. PICK s \in {"probed", "reachable"} :
          peers' = [peers EXCEPT ![user.peer] = WithPath(@, user.endpoint, s)]
    BY <1>4, <2>1, RecordStep DEF TypeOK, UserRecord
  <2>3. PeersOK' /\ Grown
    BY <1>4, <2>1, <2>2, PathStep DEF TypeOK, UserRecord
  <2>4. UserOK'
    BY <1>4 DEF UserRecord, UserIdle, UserOK, Peer
  <2>5. QED
    BY <1>4, <2>3, <2>4, GrownKeeps DEF TypeOK, DatagramsOK, UserRecord, history
<1>5. ASSUME NEW k \in Keys, NEW e \in Endpoints, RemoteInitiates(k, e)
      PROVE  TypeOK' /\ Grown
  <2>1. Sealed([kind |-> "init", by |-> k, for |-> Nobody, src |-> e, replaced |-> FALSE])
    BY <1>5 DEF Sealed, Datagram, Peer, RemoteInitiates
  <2>2. QED
    BY <1>1, <1>5, <2>1 DEF RemoteInitiates
<1>6. ASSUME NEW k \in Keys, NEW e \in Endpoints, UserProbe(k, e)
      PROVE  TypeOK' /\ Grown
  <2>1. Grown /\ Created' = Created
    BY <1>6, SamePeers DEF UserProbe
  <2>2. table[k] \in Created
    BY <1>6 DEF UserProbe, TypeOK, TableOK
  <2>3. DatagramsOK'
    BY <1>6, <2>1, <2>2, ProbeSeals, GrownKeeps DEF TypeOK, DatagramsOK, UserProbe
  <2>4. UserOK'
    BY <1>6, <2>1, <2>2 DEF UserProbe, UserOK, Peer
  <2>5. QED
    BY <1>6, <2>1, <2>3, <2>4, GrownKeeps, PeersOKKept DEF TypeOK, UserProbe, history
<1>7. ASSUME NEW p \in Created, NEW e \in Endpoints, RemoteSends(p, e)
      PROVE  TypeOK' /\ Grown
  <2>1. peers[p] \in PeerEntry
    BY DEF TypeOK, PeersOK, Created
  <2>2. Sealed([kind |-> "data", by |-> peers[p].key, for |-> p, src |-> e,
                replaced |-> FALSE])
    BY <1>7, <2>1 DEF Sealed, Datagram, Peer, RemoteSends, PeerEntry
  <2>3. QED
    BY <1>1, <1>7, <2>2 DEF RemoteSends
<1>8. QED
  BY <1>2, <1>3, <1>4, <1>5, <1>6, <1>7

LEMMA TypeStep ==
    ASSUME TypeOK, [Next]_vars
    PROVE  TypeOK' /\ Grown
<1>1. CASE UNCHANGED vars
  <2>1. Grown
    BY <1>1, SamePeers DEF vars
  <2>2. QED
    BY <1>1, <2>1, GrownKeeps, PeersOKKept DEF TypeOK, DatagramsOK, vars, tasks, history
<1>2. CASE Inbound
  BY <1>2, ReceiveFoundType, ReceiveUnknownType, TryType, ConfirmType, DrainType,
     RestOfInboundType DEF Inbound
<1>3. CASE Probing \/ Failures
  BY <1>3, ProbingType, RestOfInboundType, OutsideType DEF Probing, Failures
<1>4. CASE \/ \E infos \in Snapshots : Replace(infos)
           \/ \E info \in Infos : Upsert(info)
  BY <1>4, EventsFill, TakeEventType
<1>5. CASE (\E k \in Keys : Encapsulate(k)) \/ (\E p \in Created : UpdateTimers(p))
  BY <1>5, SendingType
<1>6. CASE \/ Lose \/ UserRecord
           \/ \E k \in Keys, e \in Endpoints : RemoteInitiates(k, e) \/ UserProbe(k, e)
           \/ \E p \in Created, e \in Endpoints : RemoteSends(p, e)
  BY <1>6, OutsideType
<1>7. QED
  BY <1>1, <1>2, <1>3, <1>4, <1>5, <1>6 DEF Next

LEMMA TypeInit ==
    ASSUME Init
    PROVE  TypeOK
<1>1. PICK infos \in Snapshots :
        LET k(i) == infos[i].public_key
            ids == DOMAIN infos
        IN  /\ peers = [i \in ids |-> [key |-> k(i), index |-> i, endpoints |-> infos[i].endpoints,
                                       paths |-> [e \in {} |-> e]]]
            /\ table = [key \in {k(i) : i \in ids} |-> CHOOSE i \in ids : k(i) = key]
            /\ tunnels = [i \in ids |-> Fresh]
            /\ events = [EventsIdle EXCEPT !.at = "probe", !.todo = ids]
  BY DEF Init
<1>2. infos \in Seq(Infos) /\ DOMAIN infos = 1 .. Len(infos) /\ Len(infos) \in Nat
  BY SnapshotsDistinct DEF Distinct
<1>3. \A i \in DOMAIN infos : infos[i].public_key \in Keys
                              /\ infos[i].endpoints \in Seq(Endpoints) \ {<<>>}
  <2>1. scenario \in Scenarios /\ \A i \in DOMAIN infos : infos[i] \in Infos
    BY <1>2 DEF Init
  <2>2. QED
    BY <2>1, InfosMean
<1>4. [e \in {} |-> e] \in PathSets
  <2>1. [e \in {} |-> e] \in [{} -> {"probed", "reachable"}] /\ {} \in SUBSET Endpoints
    OBVIOUS
  <2>2. QED
    BY <2>1 DEF PathSets
<1>5. /\ peers \in Seq(PeerEntry) /\ Len(peers) = Len(infos) /\ Created = DOMAIN infos
      /\ \A p \in Created : peers[p].key = infos[p].public_key /\ peers[p].index = p
  <2>1. \A i \in DOMAIN infos :
          [key |-> infos[i].public_key, index |-> i, endpoints |-> infos[i].endpoints,
           paths |-> [e \in {} |-> e]] \in PeerEntry
    BY <1>2, <1>3, <1>4 DEF PeerEntry
  <2>2. QED
    BY <1>1, <1>2, <2>1 DEF Created
<1>6. PeersOK
  <2>1. Fresh \in Tunnel
    BY DEF Fresh, Tunnel
  <2>2. \A p \in Created : peers[p].index <= Len(peers)
    BY <1>2, <1>5
  <2>3. QED
    BY <1>1, <1>2, <1>5, <2>1, <2>2 DEF PeersOK
<1>7. TableOK
  <2>1. DOMAIN table = {infos[i].public_key : i \in DOMAIN infos}
    BY <1>1
  <2>2. \A k \in DOMAIN table : table[k] \in DOMAIN infos /\ infos[table[k]].public_key = k
    BY <1>1
  <2>3. table \in [DOMAIN table -> Created]
    <3>1. table = [k \in DOMAIN table |-> table[k]]
      BY <1>1
    <3>2. QED
      BY <1>5, <2>2, <3>1
  <2>4. QED
    BY <1>3, <1>5, <2>1, <2>2, <2>3 DEF TableOK
<1>8. EventsOK
  <2>1. events = [EventsIdle EXCEPT !.at = "probe", !.todo = Created]
    BY <1>1, <1>5
  <2>2. QED
    BY <2>1, AllToProbe DEF EventsOK, EventTasks, Peer
<1>9. DatagramsOK /\ InboundOK /\ UserOK /\ HeardOK /\ scenario \in Scenarios
  BY DEF Init, DatagramsOK, InboundOK, Busy, InboundTasks, InboundIdle, UserOK, UserIdle,
         HeardOK, Peer
<1>10. QED
  BY <1>6, <1>7, <1>8, <1>9 DEF TypeOK
-----------------------------------------------------------------------------
(* Kinds of steps.                                                         *)

InboundStep == Inbound \/ InboundFail

\* The other tasks, the user, the network, or nothing.
EventStep ==
    \/ \E infos \in Snapshots : Replace(infos)
    \/ \E info \in Infos : Upsert(info)

SendStep == (\E k \in Keys : Encapsulate(k)) \/ (\E p \in Created : UpdateTimers(p))

RecordOrSelect ==
    \/ \E p \in Created : EventsPeer(p)
    \/ EventsRecord \/ UserRecord
    \/ \E k \in Keys, e \in Endpoints : UserProbe(k, e)

\* Steps that matter to none of the invariants but the type.
QuietStep ==
    \/ UNCHANGED vars
    \/ EventsSend \/ EventsDone \/ EventsFail
    \/ TaskFails("outbound") \/ TaskFails("timer") \/ Lose
    \/ \E k \in Keys, e \in Endpoints : RemoteInitiates(k, e)
    \/ \E p \in Created, e \in Endpoints : RemoteSends(p, e)

LEMMA StepKinds ==
    ASSUME [Next]_vars
    PROVE  InboundStep \/ EventStep \/ SendStep \/ RecordOrSelect \/ QuietStep
BY DEF Next, InboundStep, EventStep, SendStep, RecordOrSelect, QuietStep, Probing, Failures

LEMMA QuietKeeps ==
    ASSUME TypeOK, QuietStep
    PROVE  /\ UNCHANGED <<scenario, table, peers, tunnels, inbound, user, heard, cookied, missed,
                         shuffled>>
           /\ ("inbound" \in ended' <=> "inbound" \in ended)
           /\ \/ events'.endpoints = <<>>
              \/ events'.endpoints = events.endpoints /\ events'.peer = events.peer
<1>1. CASE UNCHANGED vars
  BY <1>1 DEF vars, tasks, history
<1>2. CASE EventsSend
  <2>1. events' = [events EXCEPT !.at = "record"] /\ events \in EventTasks
    BY <1>2 DEF EventsSend, TypeOK, EventsOK
  <2>2. events'.endpoints = events.endpoints /\ events'.peer = events.peer
    BY <2>1 DEF EventTasks
  <2>3. QED
    BY <1>2, <2>2 DEF EventsSend, history
<1>3. CASE EventsDone \/ EventsFail
  BY <1>3 DEF EventsDone, EventsFail, EventsIdle, history
<1>4. CASE TaskFails("outbound") \/ TaskFails("timer")
  BY <1>4 DEF TaskFails, history
<1>5. CASE \/ Lose
           \/ \E k \in Keys, e \in Endpoints : RemoteInitiates(k, e)
           \/ \E p \in Created, e \in Endpoints : RemoteSends(p, e)
  BY <1>5 DEF Lose, RemoteInitiates, RemoteSends, tasks, history
<1>6. QED
  BY <1>1, <1>2, <1>3, <1>4, <1>5 DEF QuietStep

LEMMA RecordOrSelectKeeps ==
    ASSUME RecordOrSelect
    PROVE  UNCHANGED <<scenario, table, tunnels, inbound, heard, cookied, missed, shuffled,
                       ended>>
BY DEF RecordOrSelect, EventsPeer, EventsRecord, UserRecord, UserProbe, history

LEMMA SendKeeps ==
    ASSUME SendStep
    PROVE  UNCHANGED <<scenario, table, peers, events, inbound, user, heard, cookied, missed,
                       shuffled, ended>>
BY DEF SendStep, Encapsulate, UpdateTimers, tasks, history

LEMMA EventKeeps ==
    ASSUME EventStep
    PROVE  UNCHANGED <<scenario, inbound, user, heard, cookied, missed, ended>>
BY DEF EventStep, Replace, Upsert, TakeEvent, history

\* A step that records a path.
LEMMA EventsRecordPath ==
    ASSUME TypeOK, EventsRecord
    PROVE  /\ events.endpoints # <<>>
           /\ \E p \in Created, e \in Endpoints, s \in {"probed", "reachable"} :
                /\ p = events.peer /\ e \in Range(events.endpoints)
                /\ peers' = [peers EXCEPT ![p] = WithPath(@, e, s)]
                /\ e \in DOMAIN peers[p].paths => s = peers[p].paths[e]
                /\ e \notin DOMAIN peers[p].paths => s = "probed"
<1> DEFINE p == events.peer
           e == events.endpoints[Place]
<1>1. events.endpoints # <<>> /\ p \in Created /\ e \in Endpoints /\ e \in Range(events.endpoints)
  BY PlaceExists DEF TypeOK, EventsOK, EventsRecord
<1>2. peers' = [peers EXCEPT ![p] = RecordProbe(@, e)] /\ UNCHANGED tunnels
  BY DEF EventsRecord
<1>3. p = events.peer
  OBVIOUS
<1> HIDE DEF p, e
<1>4. PICK s \in {"probed", "reachable"} :
        /\ peers' = [peers EXCEPT ![p] = WithPath(@, e, s)]
        /\ e \in DOMAIN peers[p].paths => s = peers[p].paths[e]
        /\ e \notin DOMAIN peers[p].paths => s = "probed"
  BY <1>1, <1>2, RecordStep DEF TypeOK
<1>5. QED
  BY <1>1, <1>3, <1>4

LEMMA UserRecordPath ==
    ASSUME TypeOK, UserRecord
    PROVE  \E p \in Created, e \in Endpoints, s \in {"probed", "reachable"} :
             /\ p = user.peer /\ e = user.endpoint
             /\ peers' = [peers EXCEPT ![p] = WithPath(@, e, s)]
             /\ e \in DOMAIN peers[p].paths => s = peers[p].paths[e]
             /\ e \notin DOMAIN peers[p].paths => s = "probed"
<1> DEFINE p == user.peer
           e == user.endpoint
<1>1. p \in Created /\ e \in Endpoints
  BY DEF TypeOK, UserOK, UserRecord
<1>2. peers' = [peers EXCEPT ![p] = RecordProbe(@, e)] /\ UNCHANGED tunnels
  BY DEF UserRecord
<1>3. p = user.peer /\ e = user.endpoint
  OBVIOUS
<1> HIDE DEF p, e
<1>4. PICK s \in {"probed", "reachable"} :
        /\ peers' = [peers EXCEPT ![p] = WithPath(@, e, s)]
        /\ e \in DOMAIN peers[p].paths => s = peers[p].paths[e]
        /\ e \notin DOMAIN peers[p].paths => s = "probed"
  BY <1>1, <1>2, RecordStep DEF TypeOK
<1>5. QED
  BY <1>1, <1>3, <1>4

LEMMA RecordSourcePath ==
    ASSUME TypeOK, RecordSource
    PROVE  \E p \in Created, e \in Endpoints, s \in {"probed", "reachable"} :
             /\ p = inbound.peer /\ e = inbound.src
             /\ peers' = [peers EXCEPT ![p] = WithPath(@, e, s)]
             /\ e \in DOMAIN peers[p].paths => s = peers[p].paths[e]
             /\ e \notin DOMAIN peers[p].paths => s = "probed"
<1> DEFINE p == inbound.peer
           e == inbound.src
<1>1. p \in Created /\ e \in Endpoints
  BY DEF TypeOK, InboundOK, Busy, RecordSource
<1>2. peers' = [peers EXCEPT ![p] = RecordProbe(@, e)] /\ UNCHANGED tunnels
  BY DEF RecordSource
<1>3. p = inbound.peer /\ e = inbound.src
  OBVIOUS
<1> HIDE DEF p, e
<1>4. PICK s \in {"probed", "reachable"} :
        /\ peers' = [peers EXCEPT ![p] = WithPath(@, e, s)]
        /\ e \in DOMAIN peers[p].paths => s = peers[p].paths[e]
        /\ e \notin DOMAIN peers[p].paths => s = "probed"
  BY <1>1, <1>2, RecordStep DEF TypeOK
<1>5. QED
  BY <1>1, <1>3, <1>4

\* Confirming an endpoint: what it makes of the peer, if the endpoint has a path.
LEMMA ConfirmPath ==
    ASSUME TypeOK, Confirm
    PROVE  /\ inbound.peer \in Created /\ inbound.src \in Endpoints
           /\ \/ UNCHANGED peers
              \/ /\ ShouldConfirm
                 /\ \E p \in Created, e \in Endpoints :
                      /\ p = inbound.peer /\ e = inbound.src
                      /\ peers' = [peers EXCEPT ![p] = WithPath(@, e, "reachable")]
           /\ inbound' = [inbound EXCEPT !.at = "drain",
                            !.confirmed = /\ ShouldConfirm
                                          /\ inbound.src \in DOMAIN peers[inbound.peer].paths]
<1>1. inbound.peer \in Created /\ inbound.src \in Endpoints
  BY DEF TypeOK, InboundOK, Busy, Confirm
<1>2. QED
  BY <1>1 DEF Confirm

\* What a tunnel that is asked makes of the datagram.
LEMMA ReceiveFoundResult ==
    ASSUME TypeOK, NEW d \in inbox, ReceiveFound(d)
    PROVE  \E p \in Created : \E result \in Results(p, d) :
             /\ p \in Found(d)
             /\ Decapsulate(p, d, result, inbox \ {d})
             /\ inbound' = Handling(p, d, "verified", result)
             /\ result \in {"err", "cookie", "response", "keepalive", "packet"}
             /\ d.src \in Endpoints /\ Sealed(d)
             /\ cookied' = IF result = "cookie" THEN cookied \cup {<<p, d.src>>} ELSE cookied
             /\ missed' = missed \cup (Takers(p, d) \X {d.src})
<1>1. PICK p \in Found(d) : \E result \in Results(p, d) :
        /\ Decapsulate(p, d, result, inbox \ {d})
        /\ inbound' = Handling(p, d, "verified", result)
        /\ cookied' = IF result = "cookie" THEN cookied \cup {<<p, d.src>>} ELSE cookied
        /\ missed' = missed \cup (Takers(p, d) \X {d.src})
  BY DEF ReceiveFound
<1>2. p \in Created
  BY CurrentCreated DEF TypeOK, Found, ByEndpoint, ByIndex
<1>3. Sealed(d) /\ d.kind \in {"init", "response", "data"} /\ d.src \in Endpoints
  BY DEF TypeOK, DatagramsOK, Sealed, Datagram
<1>4. \A result \in Results(p, d) :
        result \in {"err", "cookie", "response", "keepalive", "packet"}
  BY <1>3, ResultsMean
<1>5. QED
  BY <1>1, <1>2, <1>3, <1>4, Zenon
-----------------------------------------------------------------------------
(* A queued packet leaves when the session comes up.                       *)

LEMMA QueueDecapsulate ==
    ASSUME TypeOK, QueueDrained, ~Busy, NEW p \in Created, NEW d, NEW result \in Results(p, d),
           NEW left, Decapsulate(p, d, result, left), Created' = Created, UNCHANGED ended,
           result \in {"keepalive", "packet"} => inbound'.peer = p /\ inbound'.at = "confirm"
    PROVE  QueueDrained'
<1> SUFFICES ASSUME NEW q \in Created', tunnels'[q].state = "up", tunnels'[q].queued,
                    "inbound" \notin ended'
             PROVE  inbound'.peer = q /\ inbound'.at \in {"confirm", "drain"}
  BY DEF QueueDrained
<1>1. q \in Created /\ tunnels[q] \in Tunnel /\ tunnels \in [Created -> Tunnel]
  BY DEF TypeOK, PeersOK
<1>2. tunnels' = [tunnels EXCEPT ![p].state = Shaken(p, result)]
  BY DEF Decapsulate
<1>3. ~(tunnels[q].state = "up" /\ tunnels[q].queued)
  BY <1>1 DEF QueueDrained, Busy
<1>4. q = p /\ Shaken(p, result) = "up" /\ tunnels[p].state # "up"
  BY <1>1, <1>2, <1>3 DEF Tunnel
<1>5. result \in {"keepalive", "packet"}
  BY <1>4 DEF Shaken
<1>6. QED
  BY <1>4, <1>5

LEMMA QueueStep ==
    ASSUME TypeOK, TypeOK', QueueDrained, [Next]_vars
    PROVE  QueueDrained'
<1>1. /\ tunnels \in [Created -> Tunnel] /\ tunnels' \in [Created' -> Tunnel]
      /\ inbound \in InboundTasks
  BY DEF TypeOK, PeersOK, InboundOK
<1>2. ASSUME UNCHANGED tunnels, "inbound" \in ended => "inbound" \in ended',
             \/ UNCHANGED inbound
             \/ ~Busy
             \/ inbound.at = "confirm" /\ inbound'.at = "drain" /\ inbound'.peer = inbound.peer
             \/ inbound.at \in {"probe", "record"}
             \/ "inbound" \in ended'
      PROVE  QueueDrained'
  <2>1. Created' = Created
    BY <1>1, <1>2
  <2>2. QED
    BY <1>2, <2>1 DEF QueueDrained, Busy
<1>3. CASE InboundStep
  <2>1. ASSUME NEW d \in inbox, ReceiveFound(d)
        PROVE  QueueDrained'
    <3>1. PICK p \in Created : \E result \in Results(p, d) :
            /\ Decapsulate(p, d, result, inbox \ {d})
            /\ inbound' = Handling(p, d, "verified", result)
            /\ result \in {"err", "cookie", "response", "keepalive", "packet"}
            /\ d.src \in Endpoints
      BY <2>1, ReceiveFoundResult
    <3>2. PICK result \in Results(p, d) :
            /\ Decapsulate(p, d, result, inbox \ {d})
            /\ inbound' = Handling(p, d, "verified", result)
            /\ result \in {"err", "cookie", "response", "keepalive", "packet"}
            /\ d.src \in Endpoints
      BY <3>1
    <3>3. ~Busy /\ Created' = Created /\ UNCHANGED <<ended, peers>>
      BY <2>1, SamePeers DEF ReceiveFound, Busy
    <3>4. result # "err" => inbound'.peer = p /\ inbound'.at = "confirm"
      BY <3>2, <3>3, HandlingOK
    <3>5. QED
      BY <3>2, <3>3, <3>4, QueueDecapsulate
  <2>2. ASSUME NEW p \in Created, Try(p)
        PROVE  QueueDrained'
    <3> DEFINE d == inbound.datagram
    <3>1. PICK result \in Results(p, d) :
            /\ Decapsulate(p, d, result, inbox)
            /\ inbound' = IF result = "err" THEN [inbound EXCEPT !.trying = @ \ {p}]
                          ELSE Handling(p, d, "trial", result)
      BY <2>2 DEF Try
    <3>2. ~Busy /\ Created' = Created /\ UNCHANGED <<ended, peers>>
      BY <2>2, SamePeers DEF Try, Busy
    <3>3. d.kind \in {"init", "response", "data"} /\ d.src \in Endpoints
      BY <2>2 DEF TypeOK, DatagramsOK, Sealed, Datagram, Try
    <3>4. result \in {"err", "cookie", "response", "keepalive", "packet"}
      BY <3>3, ResultsMean
    <3> HIDE DEF d
    <3>5. result # "err" => inbound'.peer = p /\ inbound'.at = "confirm"
      BY <3>1, <3>2, <3>3, <3>4, HandlingOK
    <3>6. QED
      BY <3>1, <3>2, <3>5, QueueDecapsulate
  <2>3. CASE (\E d \in inbox : ReceiveUnknown(d)) \/ GiveUp
    BY <1>2, <2>3 DEF ReceiveUnknown, GiveUp, Busy
  <2>4. CASE Confirm
    <3>1. inbound'.at = "drain" /\ inbound'.peer = inbound.peer
      BY <1>1, <2>4, ConfirmPath DEF InboundTasks
    <3>2. QED
      BY <1>2, <2>4, <3>1 DEF Confirm
  <2>5. CASE Drain
    <3>1. tunnels' = [tunnels EXCEPT ![inbound.peer].queued =
                        @ /\ tunnels[inbound.peer].state # "up"]
      BY <2>5 DEF Drain, DrainPeer
    <3>2. Created' = Created /\ UNCHANGED ended /\ inbound.at = "drain"
      BY <2>5 DEF Drain, Created
    <3>3. inbound.peer \in Created
      BY <3>2 DEF TypeOK, InboundOK, Busy
    <3>4. \A q \in Created : q # inbound.peer => tunnels'[q] = tunnels[q]
      BY <1>1, <3>1
    <3>5. ~(tunnels'[inbound.peer].state = "up" /\ tunnels'[inbound.peer].queued)
      <4>1. tunnels[inbound.peer] \in Tunnel
        BY <1>1, <3>3
      <4>2. QED
        BY <1>1, <3>1, <3>3, <4>1 DEF Tunnel
    <3>6. QED
      BY <3>2, <3>4, <3>5 DEF QueueDrained
  <2>6. CASE ProbeSource \/ RecordSource \/ InboundFail
    BY <1>2, <2>6 DEF ProbeSource, RecordSource, InboundFail
  <2>7. QED
    BY <1>3, <2>1, <2>2, <2>3, <2>4, <2>5, <2>6 DEF InboundStep, Inbound
<1>4. CASE EventStep
  <2>1. PICK A : Takes(A)
    BY <1>4, EventsFill DEF EventStep
  <2>2. tunnels' = WithTunnels(Len(A.peers)) /\ UNCHANGED <<inbound, ended>>
    BY <2>1 DEF Takes
  <2>3. \A q \in Created' : tunnels'[q] = IF q \in Created THEN tunnels[q] ELSE Fresh
    BY <1>1, <2>2 DEF WithTunnels
  <2>4. Fresh.state # "up"
    BY DEF Fresh
  <2>5. QED
    BY <2>2, <2>3, <2>4 DEF QueueDrained
<1>5. CASE SendStep
  <2>1. Created' = Created /\ UNCHANGED <<inbound, ended>>
    BY <1>5, SendKeeps DEF Created
  <2>2. ASSUME NEW k \in Keys, Encapsulate(k)
        PROVE  QueueDrained'
    <3>1. table[k] \in Created
      BY <2>2 DEF Encapsulate, TypeOK, TableOK
    <3>2. PICK p \in Created : p = table[k]
      BY <3>1
    <3>3. tunnels' = [tunnels EXCEPT ![p].queued = @ \/ tunnels[p].state # "up"]
      BY <2>2, <3>2 DEF Encapsulate
    <3>4. tunnels[p] \in Tunnel
      BY <1>1
    <3>5. /\ \A q \in Created : q # p => tunnels'[q] = tunnels[q]
          /\ tunnels'[p].state = tunnels[p].state
          /\ tunnels'[p].queued = (tunnels[p].queued \/ tunnels[p].state # "up")
      BY <1>1, <3>3, <3>4 DEF Tunnel
    <3>6. QED
      BY <2>1, <3>5 DEF QueueDrained
  <2>3. ASSUME NEW p \in Created, UpdateTimers(p)
        PROVE  QueueDrained'
    <3>1. UNCHANGED tunnels \/ tunnels' = [tunnels EXCEPT ![p] = Fresh]
      BY <2>3 DEF UpdateTimers
    <3>2. \A q \in Created : tunnels'[q] = tunnels[q] \/ tunnels'[q].state # "up"
      BY <1>1, <3>1 DEF Fresh
    <3>3. QED
      BY <2>1, <3>2 DEF QueueDrained
  <2>4. QED
    BY <1>5, <2>2, <2>3 DEF SendStep
<1>6. CASE RecordOrSelect \/ QuietStep
  <2>1. UNCHANGED <<tunnels, inbound>> /\ ("inbound" \in ended => "inbound" \in ended')
    BY <1>6, RecordOrSelectKeeps, QuietKeeps
  <2>2. QED
    BY <1>2, <2>1
<1>7. QED
  BY <1>3, <1>4, <1>5, <1>6, StepKinds

\* A packet that was queued for want of a session leaves with the datagram that
\* brings the session up, unless the inbound task has failed: whatever the
\* outbound and inbound tasks and the timers do in between, for any number of
\* peers (runtime.rs:168, wireguard.rs:159-181).
THEOREM QueuedPacketsLeave == Spec => []QueueDrained
<1>1. Init => QueueDrained
  BY DEF Init, QueueDrained, Fresh, Created
<1>2. TypeOK /\ QueueDrained /\ [Next]_vars => TypeOK' /\ QueueDrained'
  BY TypeStep, QueueStep
<1>3. QED
  BY <1>1, <1>2, TypeInit, PTL DEF Spec
-----------------------------------------------------------------------------
(* Paths are earned.                                                       *)

LEMMA ToldKept ==
    ASSUME Grown, UNCHANGED scenario
    PROVE  /\ \A p \in Created : Told(p)' = Told(p)
           /\ heard \subseteq heard' /\ cookied \subseteq cookied' =>
                \A p \in Created : \A e : Earned(p, e) => Earned(p, e)'
<1>1. \A p \in Created : Told(p)' = Told(p)
  <2>1. SUFFICES ASSUME NEW p \in Created PROVE Told(p)' = Told(p)
    OBVIOUS
  <2>2. peers'[p].key = peers[p].key
    BY DEF Grown
  <2>3. Advertised(peers[p].key)' = Advertised(peers[p].key)
    BY <2>2 DEF Advertised, Infos
  <2>4. QED
    BY <2>2, <2>3 DEF Told
<1>2. QED
  BY <1>1 DEF Earned

\* What does not concern the peers' infos and paths.
LEMMA PeersEarned ==
    ASSUME TypeOK, Grown, EndpointsTold, PathsEarned, UNCHANGED <<peers, scenario>>,
           heard \subseteq heard', cookied \subseteq cookied'
    PROVE  EndpointsTold' /\ PathsEarned'
<1>1. Created' = Created
  BY SamePeers
<1>2. EndpointsTold'
  BY <1>1, ToldKept DEF EndpointsTold
<1>3. PathsEarned'
  BY <1>1, ToldKept DEF PathsEarned
<1>4. QED
  BY <1>2, <1>3

LEMMA TasksEarned ==
    ASSUME TypeOK, Grown, UNCHANGED scenario,
           heard \subseteq heard', cookied \subseteq cookied'
    PROVE  /\ ProbesTold /\ \/ events'.endpoints = <<>>
                            \/ /\ events'.endpoints = events.endpoints
                               /\ events'.peer = events.peer
             => ProbesTold'
           /\ UserEarned /\ UNCHANGED user => UserEarned'
           /\ InboundEarned /\ UNCHANGED inbound => InboundEarned'
<1>1. ASSUME ProbesTold, \/ events'.endpoints = <<>>
                         \/ events'.endpoints = events.endpoints /\ events'.peer = events.peer
      PROVE  ProbesTold'
  <2>1. events.endpoints # <<>> => events.peer \in Created
    BY DEF TypeOK, EventsOK
  <2>2. QED
    BY <1>1, <2>1, ToldKept DEF ProbesTold
<1>2. ASSUME UserEarned, UNCHANGED user
      PROVE  UserEarned'
  <2>1. user.at = "record" => user.peer \in Created
    BY DEF TypeOK, UserOK
  <2>2. QED
    BY <1>2, <2>1, ToldKept DEF UserEarned
<1>3. ASSUME InboundEarned, UNCHANGED inbound
      PROVE  InboundEarned'
  <2>1. Busy => inbound.peer \in Created
    BY DEF TypeOK, InboundOK
  <2>2. QED
    BY <1>3, <2>1, ToldKept DEF InboundEarned, Busy, ShouldConfirm
<1>4. QED
  BY <1>1, <1>2, <1>3

\* A path that is recorded or confirmed.
LEMMA PathEarned ==
    ASSUME TypeOK, EndpointsTold, PathsEarned,
           NEW p \in Created, NEW e \in Endpoints, NEW s \in {"probed", "reachable"},
           peers' = [peers EXCEPT ![p] = WithPath(@, e, s)],
           UNCHANGED <<tunnels, scenario, heard, cookied>>,
           \/ Earned(p, e)
           \/ e \in DOMAIN peers[p].paths /\ s = peers[p].paths[e]
           \/ s = "probed" /\ e \in Told(p)
    PROVE  EndpointsTold' /\ PathsEarned'
<1>1. /\ Grown /\ Created' = Created
      /\ \A q \in Created : peers'[q].endpoints = peers[q].endpoints
      /\ \A q \in Created : q # p => peers'[q] = peers[q]
      /\ DOMAIN peers'[p].paths = DOMAIN peers[p].paths \cup {e}
      /\ peers'[p].paths[e] = s
      /\ \A x \in DOMAIN peers[p].paths : x # e => peers'[p].paths[x] = peers[p].paths[x]
  BY PathStep DEF TypeOK
<1>2. \A q \in Created : Told(q)' = Told(q)
  BY <1>1, ToldKept
<1>3. EndpointsTold'
  BY <1>1, <1>2 DEF EndpointsTold
<1>4. Earned(p, e) \/ (e \in Told(p) /\ s # "reachable")
  BY DEF PathsEarned
<1>5. ASSUME NEW q \in Created, NEW x \in DOMAIN peers'[q].paths
      PROVE  \/ Earned(q, x)
             \/ x \in Told(q) /\ peers'[q].paths[x] # "reachable"
  <2>1. CASE q = p /\ x = e
    BY <1>1, <1>4, <2>1
  <2>2. CASE q # p \/ x # e
    <3>1. x \in DOMAIN peers[q].paths /\ peers'[q].paths[x] = peers[q].paths[x]
      BY <1>1, <1>5, <2>2
    <3>2. QED
      BY <3>1 DEF PathsEarned
  <2>3. QED
    BY <2>1, <2>2
<1>6. PathsEarned'
  <2>1. \A q \in Created : \A x : Earned(q, x)' <=> Earned(q, x)
    BY DEF Earned
  <2>2. QED
    BY <1>1, <1>2, <1>5, <2>1 DEF PathsEarned
<1>7. QED
  BY <1>3, <1>6

LEMMA EventEarned ==
    ASSUME TypeOK, EarnedInv, NEW A, Fills(A), Takes(A)
    PROVE  EarnedInv'
<1>1. Grown /\ UNCHANGED <<scenario, heard, cookied, user, inbound>> /\ peers' = A.peers
      /\ events'.endpoints = <<>>
  BY TakeEventType DEF Takes, EventsIdle
<1>2. \A p \in Created : Told(p)' = Told(p)
  BY <1>1, ToldKept
<1>3. \A p \in Created' : ToldBy(peers'[p].key, peers'[p].endpoints)
                            => Range(peers'[p].endpoints) \subseteq Told(p)'
  <2>1. SUFFICES ASSUME NEW p \in Created', ToldBy(peers'[p].key, peers'[p].endpoints)
                 PROVE  Range(peers'[p].endpoints) \subseteq Told(p)'
    OBVIOUS
  <2>2. PICK info \in Infos : info.public_key = peers'[p].key
                             /\ info.endpoints = peers'[p].endpoints
    BY <2>1 DEF ToldBy
  <2>3. Infos' = Infos
    BY <1>1 DEF Infos
  <2>4. Range(peers'[p].endpoints) \subseteq Advertised(peers[p].key)'
    BY <2>2, <2>3 DEF Advertised
  <2>5. QED
    BY <2>4 DEF Told
<1>4. EndpointsTold'
  <2>1. SUFFICES ASSUME NEW p \in Created'
                 PROVE  Range(peers'[p].endpoints) \subseteq Told(p)'
    BY DEF EndpointsTold
  <2>2. CASE p \in Created /\ peers'[p].endpoints = peers[p].endpoints
    BY <1>2, <2>2 DEF EarnedInv, EndpointsTold
  <2>3. CASE ToldBy(peers'[p].key, peers'[p].endpoints)
    BY <1>3, <2>3
  <2>4. QED
    BY <1>1, <2>2, <2>3 DEF Fills, Created
<1>5. PathsEarned'
  <2>1. \A p \in Created' : \A e \in DOMAIN peers'[p].paths :
          /\ p \in Created
          /\ e \in DOMAIN peers[p].paths
          /\ peers'[p].paths[e] = peers[p].paths[e]
    BY <1>1 DEF Fills, Created
  <2>2. ASSUME NEW p \in Created', NEW e \in DOMAIN peers'[p].paths
        PROVE  \/ Earned(p, e)
               \/ e \in Told(p)' /\ peers'[p].paths[e] # "reachable"
    BY <1>1, <1>2, <2>1 DEF EarnedInv, PathsEarned
  <2>3. QED
    BY <1>1, <2>2 DEF PathsEarned, Earned
<1>6. QED
  BY <1>1, <1>4, <1>5, TasksEarned DEF EarnedInv

\* The inbound task goes on with what a tunnel has made of a datagram.
LEMMA ResultEarned ==
    ASSUME TypeOK, EarnedInv, NEW p \in Created, NEW d, Sealed(d), NEW mode \in {"verified", "trial"},
           NEW result \in Results(p, d), NEW left, Decapsulate(p, d, result, left),
           inbound' = Handling(p, d, mode, result),
           cookied \subseteq cookied',
           result = "cookie" /\ mode = "verified" => <<p, d.src>> \in cookied',
           UNCHANGED <<scenario, peers, events, user>>
    PROVE  EarnedInv'
<1>1. Grown /\ Created' = Created /\ heard \subseteq heard'
  BY SamePeers DEF Decapsulate
<1>2. d.kind \in {"init", "response", "data"} /\ d.src \in Endpoints
  BY DEF Sealed, Datagram
<1>3. result \in {"err", "cookie", "response", "keepalive", "packet"}
  BY <1>2, ResultsMean
<1>4. /\ inbound'.at = IF result = "err" THEN "recv" ELSE "confirm"
      /\ result # "err" => /\ inbound'.peer = p /\ inbound'.src = d.src
                           /\ inbound'.mode = mode /\ inbound'.result = result
  BY <1>2, <1>3, HandlingOK
<1>5. result \in {"response", "keepalive", "packet"} => <<p, d.src>> \in heard'
  BY DEF Decapsulate
<1>7. InboundEarned'
  <2>1. SUFFICES ASSUME Busy', ShouldConfirm'
                 PROVE  Earned(inbound.peer, inbound.src)'
    BY <1>4 DEF InboundEarned, Busy
  <2>2. result # "err"
    BY <1>4, <2>1 DEF Busy
  <2>3. Earned(p, d.src)'
    <3>1. CASE result \in {"response", "keepalive", "packet"}
      BY <1>5, <3>1 DEF Earned
    <3>2. CASE result = "cookie"
      <4>1. mode = "verified"
        BY <1>4, <2>1, <2>2, <3>2 DEF ShouldConfirm
      <4>2. QED
        BY <3>2, <4>1 DEF Earned
    <3>3. QED
      BY <1>3, <2>2, <3>1, <3>2
  <2>4. QED
    BY <1>4, <2>2, <2>3 DEF Earned
<1>6. QED
  BY <1>1, <1>7, PeersEarned, TasksEarned DEF EarnedInv

LEMMA InboundEarnedStep ==
    ASSUME TypeOK, EarnedInv, InboundStep
    PROVE  EarnedInv'
<1> USE DEF InboundStep
<1>1. ASSUME NEW d \in inbox, ReceiveFound(d)
      PROVE  EarnedInv'
  <2>1. PICK p \in Created : \E result \in Results(p, d) :
          /\ Decapsulate(p, d, result, inbox \ {d})
          /\ inbound' = Handling(p, d, "verified", result) /\ Sealed(d)
          /\ cookied' = IF result = "cookie" THEN cookied \cup {<<p, d.src>>} ELSE cookied
    BY <1>1, ReceiveFoundResult
  <2>2. UNCHANGED <<scenario, peers, events, user>>
    BY <1>1 DEF ReceiveFound
  <2>3. PICK result \in Results(p, d) :
          /\ Decapsulate(p, d, result, inbox \ {d})
          /\ inbound' = Handling(p, d, "verified", result) /\ Sealed(d)
          /\ cookied' = IF result = "cookie" THEN cookied \cup {<<p, d.src>>} ELSE cookied
    BY <2>1
  <2>4. cookied \subseteq cookied' /\ (result = "cookie" => <<p, d.src>> \in cookied')
    BY <2>3
  <2>5. QED
    BY <2>2, <2>3, <2>4, ResultEarned
<1>2. ASSUME NEW p \in Created, Try(p)
      PROVE  EarnedInv'
  <2> DEFINE d == inbound.datagram
  <2>1. PICK result \in Results(p, d) :
          /\ Decapsulate(p, d, result, inbox)
          /\ inbound' = IF result = "err" THEN [inbound EXCEPT !.trying = @ \ {p}]
                        ELSE Handling(p, d, "trial", result)
    BY <1>2 DEF Try
  <2>2. UNCHANGED <<scenario, peers, events, user, cookied>> /\ inbound.at = "trial"
    BY <1>2 DEF Try
  <2>3. Sealed(d)
    BY <2>2 DEF TypeOK, DatagramsOK
  <2>4. CASE result # "err"
    <3> HIDE DEF d
    <3>1. inbound' = Handling(p, d, "trial", result)
      BY <2>1, <2>4
    <3>2. QED
      BY <2>1, <2>2, <2>3, <3>1, ResultEarned
  <2>5. CASE result = "err"
    <3>1. inbound' = [inbound EXCEPT !.trying = @ \ {p}] /\ inbound \in InboundTasks
      BY <2>1, <2>5 DEF TypeOK, InboundOK
    <3>2. inbound'.at = "trial"
      BY <2>2, <3>1 DEF InboundTasks
    <3>3. heard \subseteq heard' /\ Grown
      BY <2>1, <2>2, SamePeers DEF Decapsulate
    <3>4. InboundEarned'
      BY <3>2 DEF InboundEarned, Busy
    <3>5. QED
      BY <2>2, <3>3, <3>4, PeersEarned, TasksEarned DEF EarnedInv
  <2>6. QED
    BY <2>4, <2>5
<1>3. CASE (\E d \in inbox : ReceiveUnknown(d)) \/ GiveUp \/ InboundFail
  <2>1. UNCHANGED <<scenario, peers, events, user, heard, cookied>>
    BY <1>3 DEF ReceiveUnknown, GiveUp, InboundFail, history
  <2>2. inbound'.at \in {"recv", "trial"}
    <3>1. CASE \E d \in inbox : ReceiveUnknown(d)
      <4>1. PICK d \in inbox :
              inbound' = [InboundIdle EXCEPT !.at = "trial", !.trying = Current, !.datagram = d]
        BY <3>1 DEF ReceiveUnknown
      <4>2. QED
        BY <4>1 DEF InboundIdle
    <3>2. CASE GiveUp \/ InboundFail
      BY <3>2 DEF GiveUp, InboundFail, InboundIdle
    <3>3. QED
      BY <1>3, <3>1, <3>2
  <2>3. InboundEarned'
    BY <2>2 DEF InboundEarned, Busy
  <2>4. QED
    BY <2>1, <2>3, SamePeers, PeersEarned, TasksEarned DEF EarnedInv
<1>4. inbound \in InboundTasks
  BY DEF TypeOK, InboundOK
<1>5. CASE Confirm
  <2>1. UNCHANGED <<scenario, tunnels, events, user, heard, cookied>> /\ inbound.at = "confirm"
    BY <1>5 DEF Confirm, history
  <2>2. /\ inbound'.at = "drain" /\ inbound'.peer = inbound.peer /\ inbound'.src = inbound.src
        /\ inbound'.mode = inbound.mode /\ inbound'.result = inbound.result
    BY <1>4, <1>5, ConfirmPath DEF InboundTasks
  <2>3. EndpointsTold' /\ PathsEarned' /\ Grown
    <3>1. CASE UNCHANGED peers
      BY <2>1, <3>1, SamePeers, PeersEarned DEF EarnedInv
    <3>2. CASE ~ UNCHANGED peers
      <4>1. PICK p \in Created, e \in Endpoints :
              /\ p = inbound.peer /\ e = inbound.src /\ ShouldConfirm
              /\ peers' = [peers EXCEPT ![p] = WithPath(@, e, "reachable")]
        BY <1>5, <3>2, ConfirmPath
      <4>2. Earned(p, e)
        BY <2>1, <4>1 DEF EarnedInv, InboundEarned, Busy
      <4>3. QED
        BY <2>1, <4>1, <4>2, PathEarned, PathStep DEF EarnedInv, TypeOK
    <3>3. QED
      BY <3>1, <3>2
  <2>4. InboundEarned'
    <3>1. SUFFICES ASSUME ShouldConfirm'
                   PROVE  Earned(inbound.peer, inbound.src)'
      BY <2>2 DEF InboundEarned, Busy
    <3>2. ShouldConfirm /\ inbound.peer \in Created
      BY <1>5, <2>2, <3>1, ConfirmPath DEF ShouldConfirm
    <3>3. Earned(inbound.peer, inbound.src)
      BY <2>1, <3>2 DEF EarnedInv, InboundEarned, Busy
    <3>4. PICK p \in Created, e \in {inbound.src} : p = inbound.peer /\ e = inbound.src
      BY <3>2
    <3>5. Earned(p, e)'
      BY <2>1, <2>3, <3>3, <3>4, ToldKept
    <3>6. QED
      BY <2>2, <3>4, <3>5 DEF Earned
  <2>5. QED
    BY <2>1, <2>3, <2>4, TasksEarned DEF EarnedInv
<1>6. CASE Drain \/ ProbeSource
  <2>1. UNCHANGED <<scenario, peers, events, user, heard, cookied>> /\ inbound.at \in {"drain", "probe"}
    BY <1>6 DEF Drain, ProbeSource, history
  <2>2. \/ inbound' = InboundIdle
        \/ /\ ShouldConfirm
           /\ \E at \in {"probe", "record"} : inbound' = [inbound EXCEPT !.at = at]
    BY <1>6 DEF Drain, ProbeSource, EarnedInv, InboundEarned
  <2>3. InboundEarned'
    <3>1. CASE inbound' = InboundIdle
      BY <3>1 DEF InboundEarned, Busy, InboundIdle
    <3>2. CASE inbound' # InboundIdle
      <4>1. /\ inbound'.peer = inbound.peer /\ inbound'.src = inbound.src
            /\ inbound'.mode = inbound.mode /\ inbound'.result = inbound.result
            /\ ShouldConfirm /\ inbound.peer \in Created
        BY <1>4, <2>1, <2>2, <3>2 DEF InboundTasks, TypeOK, InboundOK, Busy
      <4>2. Earned(inbound.peer, inbound.src)
        BY <2>1, <4>1 DEF EarnedInv, InboundEarned, Busy
      <4>3. PICK p \in Created, e \in {inbound.src} : p = inbound.peer /\ e = inbound.src
        BY <4>1
      <4>4. Earned(p, e)'
        BY <2>1, <4>2, <4>3, SamePeers, ToldKept
      <4>5. ShouldConfirm'
        BY <4>1 DEF ShouldConfirm
      <4>6. QED
        BY <4>1, <4>3, <4>4, <4>5 DEF InboundEarned, Earned
    <3>3. QED
      BY <3>1, <3>2
  <2>4. QED
    BY <2>1, <2>3, SamePeers, PeersEarned, TasksEarned DEF EarnedInv
<1>7. CASE RecordSource
  <2>1. UNCHANGED <<scenario, tunnels, events, user, heard, cookied>> /\ inbound.at = "record"
        /\ inbound' = InboundIdle
    BY <1>7 DEF RecordSource, history
  <2>2. PICK p \in Created, e \in Endpoints, s \in {"probed", "reachable"} :
          /\ p = inbound.peer /\ e = inbound.src
          /\ peers' = [peers EXCEPT ![p] = WithPath(@, e, s)]
    BY <1>7, RecordSourcePath
  <2>3. Earned(p, e)
    BY <2>1, <2>2 DEF EarnedInv, InboundEarned, Busy
  <2>4. EndpointsTold' /\ PathsEarned' /\ Grown
    BY <2>1, <2>2, <2>3, PathEarned, PathStep DEF EarnedInv, TypeOK
  <2>5. InboundEarned'
    BY <2>1 DEF InboundEarned, Busy, InboundIdle
  <2>6. QED
    BY <2>1, <2>4, <2>5, TasksEarned DEF EarnedInv
<1>8. QED
  BY <1>1, <1>2, <1>3, <1>5, <1>6, <1>7 DEF Inbound

LEMMA RecordOrSelectEarned ==
    ASSUME TypeOK, EarnedInv, RecordOrSelect
    PROVE  EarnedInv'
<1>1. UNCHANGED <<scenario, tunnels, inbound, heard, cookied>>
  BY RecordOrSelectKeeps
<1>2. ASSUME NEW p \in Created, EventsPeer(p)
      PROVE  EarnedInv'
  <2>1. /\ UNCHANGED <<peers, user>>
        /\ events' = [events EXCEPT !.todo = @ \ {p},
                        !.peer = IF EndpointsToProbe(p) = <<>> THEN Nobody ELSE p,
                        !.endpoints = EndpointsToProbe(p)]
    BY <1>2 DEF EventsPeer
  <2>2. events \in EventTasks
    BY DEF TypeOK, EventsOK
  <2>3. /\ events'.endpoints = EndpointsToProbe(p)
        /\ events'.endpoints # <<>> => events'.peer = p
    BY <2>1, <2>2 DEF EventTasks
  <2>4. Range(EndpointsToProbe(p)) \subseteq Told(p)
    BY ProbedAtPlaces DEF TypeOK, EarnedInv, EndpointsTold
  <2>5. Grown
    BY <2>1, SamePeers
  <2>6. Told(p)' = Told(p)
    BY <1>1, <2>5, ToldKept
  <2>7. ProbesTold'
    <3>1. SUFFICES ASSUME events'.endpoints # <<>>
                   PROVE  Range(events'.endpoints) \subseteq Told(events.peer)'
      BY DEF ProbesTold
    <3>2. Told(events.peer)' = Told(p)'
      BY <2>3, <3>1 DEF Told
    <3>3. QED
      BY <2>3, <2>4, <2>6, <3>2
  <2>8. QED
    BY <1>1, <2>1, <2>5, <2>7, PeersEarned, TasksEarned DEF EarnedInv
<1>3. CASE EventsRecord
  <2>1. UNCHANGED user /\ events.endpoints # <<>>
    BY <1>3, EventsRecordPath DEF EventsRecord
  <2>2. PICK p \in Created, e \in Endpoints, s \in {"probed", "reachable"} :
          /\ p = events.peer /\ e \in Range(events.endpoints)
          /\ peers' = [peers EXCEPT ![p] = WithPath(@, e, s)]
          /\ e \in DOMAIN peers[p].paths => s = peers[p].paths[e]
          /\ e \notin DOMAIN peers[p].paths => s = "probed"
    BY <1>3, EventsRecordPath
  <2>3. e \in Told(p)
    BY <2>1, <2>2 DEF EarnedInv, ProbesTold
  <2>4. EndpointsTold' /\ PathsEarned' /\ Grown
    BY <1>1, <2>2, <2>3, PathEarned, PathStep DEF EarnedInv, TypeOK
  <2>5. ProbesTold'
    <3> DEFINE left == Restrict(events.endpoints, DOMAIN events.endpoints \ {Place})
    <3>1. events' = [events EXCEPT !.at = "probe", !.endpoints = left,
                       !.peer = IF left = <<>> THEN Nobody ELSE @]
      BY <1>3 DEF EventsRecord
    <3>2. events \in EventTasks
      BY DEF TypeOK, EventsOK
    <3>3. Range(left) \subseteq Range(events.endpoints)
      BY DEF Range, Restrict
    <3> HIDE DEF left
    <3>4. events'.endpoints = left /\ (left # <<>> => events'.peer = p)
      BY <2>2, <3>1, <3>2 DEF EventTasks
    <3>5. Told(p)' = Told(p)
      BY <1>1, <2>4, ToldKept
    <3>6. SUFFICES ASSUME left # <<>>
                   PROVE  Range(left) \subseteq Told(events.peer)'
      BY <3>4 DEF ProbesTold
    <3>7. Told(events.peer)' = Told(p)'
      BY <3>4, <3>6 DEF Told
    <3>8. Range(events.endpoints) \subseteq Told(p)
      BY <2>1, <2>2 DEF EarnedInv, ProbesTold
    <3>9. QED
      BY <3>3, <3>5, <3>7, <3>8
  <2>6. QED
    BY <1>1, <2>1, <2>4, <2>5, TasksEarned DEF EarnedInv
<1>4. CASE UserRecord
  <2>1. UNCHANGED events /\ user.at = "record" /\ user' = UserIdle
    BY <1>4 DEF UserRecord
  <2>2. PICK p \in Created, e \in Endpoints, s \in {"probed", "reachable"} :
          /\ p = user.peer /\ e = user.endpoint
          /\ peers' = [peers EXCEPT ![p] = WithPath(@, e, s)]
          /\ e \in DOMAIN peers[p].paths => s = peers[p].paths[e]
          /\ e \notin DOMAIN peers[p].paths => s = "probed"
    BY <1>4, UserRecordPath
  <2>3. Earned(p, e) \/ e \in Told(p)
    BY <2>1, <2>2 DEF EarnedInv, UserEarned
  <2>4. EndpointsTold' /\ PathsEarned' /\ Grown
    BY <1>1, <2>2, <2>3, PathEarned, PathStep DEF EarnedInv, TypeOK
  <2>5. UserEarned'
    BY <2>1 DEF UserEarned, UserIdle
  <2>6. QED
    BY <1>1, <2>1, <2>4, <2>5, TasksEarned DEF EarnedInv
<1>5. ASSUME NEW k \in Keys, NEW e \in Endpoints, UserProbe(k, e)
      PROVE  EarnedInv'
  <2>1. /\ UNCHANGED <<peers, events>> /\ k \in DOMAIN table
        /\ e \in Selected(table[k]) \cup UserEndpoints[k] /\ "user" \in scenario
        /\ user' = [at |-> "record", peer |-> table[k], endpoint |-> e]
    BY <1>5 DEF UserProbe
  <2>2. PICK p \in Created : p = table[k] /\ peers[p].key = k
    BY <2>1 DEF TypeOK, TableOK
  <2>3. Earned(p, e) \/ e \in Told(p)
    <3>1. CASE e \in Selected(p)
      <4>1. e \in DOMAIN peers[p].paths \/ e \in Range(peers[p].endpoints)
        BY <3>1, SelectedEndpoints DEF TypeOK
      <4>2. PathsEarned /\ EndpointsTold
        BY DEF EarnedInv
      <4>3. QED
        BY <4>1, <4>2 DEF EndpointsTold, PathsEarned
    <3>2. CASE e \in UserEndpoints[k]
      <4>1. "user" \in scenario /\ e \in UserEndpoints[peers[p].key]
        BY <2>1, <2>2, <3>2
      <4>2. QED
        BY <4>1 DEF Told
    <3>3. QED
      BY <2>1, <2>2, <3>1, <3>2
  <2>4. Grown
    BY <2>1, SamePeers
  <2>5. Told(p)' = Told(p)
    BY <1>1, <2>4, ToldKept
  <2>6. user'.peer = p /\ user'.endpoint = e
    BY <2>1, <2>2
  <2>7. Told(user.peer)' = Told(p)'
    BY <2>6 DEF Told
  <2>10. Earned(p, e) => Earned(user.peer, user.endpoint)'
    BY <1>1, <2>6 DEF Earned
  <2>8. UserEarned'
    BY <2>3, <2>5, <2>6, <2>7, <2>10 DEF UserEarned
  <2>9. QED
    BY <1>1, <2>1, <2>4, <2>8, PeersEarned, TasksEarned DEF EarnedInv
<1>6. QED
  BY <1>2, <1>3, <1>4, <1>5 DEF RecordOrSelect

LEMMA EarnedStep ==
    ASSUME TypeOK, EarnedInv, [Next]_vars
    PROVE  EarnedInv'
<1>1. CASE EventStep
  BY <1>1, EventsFill, EventEarned DEF EventStep
<1>2. CASE SendStep
  BY <1>2, SendKeeps, SamePeers, PeersEarned, TasksEarned DEF EarnedInv
<1>3. CASE QuietStep
  BY <1>3, QuietKeeps, SamePeers, PeersEarned, TasksEarned DEF EarnedInv
<1>4. QED
  BY <1>1, <1>2, <1>3, StepKinds, InboundEarnedStep, RecordOrSelectEarned

LEMMA EarnedInit ==
    ASSUME Init
    PROVE  EarnedInv
<1>1. PICK infos \in Snapshots :
        /\ peers = [i \in DOMAIN infos |->
                      [key |-> infos[i].public_key, index |-> i, endpoints |-> infos[i].endpoints,
                       paths |-> [e \in {} |-> e]]]
        /\ events = [EventsIdle EXCEPT !.at = "probe", !.todo = DOMAIN infos]
  BY DEF Init
<1>2. \A p \in Created : /\ p \in DOMAIN infos
                         /\ peers[p].key = infos[p].public_key
                         /\ peers[p].endpoints = infos[p].endpoints
                         /\ DOMAIN peers[p].paths = {}
  BY <1>1 DEF Created
<1>3. \A p \in DOMAIN infos : infos[p] \in Infos
  BY SnapshotsDistinct DEF Distinct
<1>4. EndpointsTold
  BY <1>2, <1>3 DEF EndpointsTold, Told, Advertised
<1>5. PathsEarned
  BY <1>2 DEF PathsEarned
<1>6. ProbesTold
  <2>1. events.endpoints = <<>>
    BY <1>1 DEF EventsIdle
  <2>2. QED
    BY <2>1 DEF ProbesTold
<1>7. UserEarned /\ InboundEarned
  BY DEF Init, UserEarned, UserIdle, InboundEarned, Busy, InboundIdle
<1>8. QED
  BY <1>4, <1>5, <1>6, <1>7 DEF EarnedInv

\* A path leads where the device was told of its peer, or where a datagram came
\* from that a tunnel of that peer verified or, under load, answered with a
\* cookie; and it is reachable only after the latter (wireguard.rs:89-108,
\* 236-250).
THEOREM PathsAreEarned == Spec => []PathsEarned
<1>1. TypeOK /\ EarnedInv /\ [Next]_vars => TypeOK' /\ EarnedInv'
  BY TypeStep, EarnedStep
<1>2. EarnedInv => PathsEarned
  BY DEF EarnedInv
<1>3. QED
  BY <1>1, <1>2, TypeInit, EarnedInit, PTL DEF Spec
-----------------------------------------------------------------------------
(* Heard endpoints have paths.                                             *)

\* Paths are only added.
LEMMA PathsGrow ==
    ASSUME TypeOK, [Next]_vars
    PROVE  \A p \in Created : DOMAIN peers[p].paths \subseteq DOMAIN peers'[p].paths
<1>1. ASSUME NEW p \in Created, NEW e \in Endpoints, NEW s \in {"probed", "reachable"},
             peers' = [peers EXCEPT ![p] = WithPath(@, e, s)], UNCHANGED tunnels
      PROVE  \A q \in Created : DOMAIN peers[q].paths \subseteq DOMAIN peers'[q].paths
  <2>1. PeersOK
    BY DEF TypeOK
  <2>2. /\ DOMAIN peers'[p].paths = DOMAIN peers[p].paths \cup {e}
        /\ \A q \in Created : q # p => peers'[q] = peers[q]
    BY <1>1, <2>1, PathStep
  <2>3. TAKE q \in Created
  <2>4. CASE q = p
    BY <2>2, <2>4
  <2>5. CASE q # p
    BY <2>2, <2>5
  <2>6. QED
    BY <2>4, <2>5
<1>2. CASE UNCHANGED peers
  BY <1>2
<1>3. CASE EventStep
  <2>1. PICK A : Fills(A) /\ Takes(A)
    BY <1>3, EventsFill DEF EventStep
  <2>2. QED
    BY <2>1 DEF Takes, Fills
<1>4. CASE EventsRecord
  BY <1>1, <1>4, EventsRecordPath DEF EventsRecord
<1>5. CASE UserRecord
  BY <1>1, <1>5, UserRecordPath DEF UserRecord
<1>6. CASE RecordSource
  BY <1>1, <1>6, RecordSourcePath DEF RecordSource
<1>7. CASE Confirm
  BY <1>1, <1>2, <1>7, ConfirmPath DEF Confirm
<1>8. CASE RecordOrSelect
  BY <1>2, <1>4, <1>5, <1>8 DEF RecordOrSelect, EventsPeer, UserProbe
<1>9. CASE InboundStep
  BY <1>2, <1>6, <1>7, <1>9
  DEF InboundStep, Inbound, ReceiveFound, ReceiveUnknown, Try, GiveUp, Drain, ProbeSource,
      InboundFail
<1>10. QED
  BY <1>2, <1>3, <1>8, <1>9, StepKinds, SendKeeps, QuietKeeps

\* The heard endpoints without a path are still the one that is worked on.
LEMMA HeardKept ==
    ASSUME TypeOK, HeardInv, [Next]_vars, UNCHANGED heard,
           "inbound" \in ended => "inbound" \in ended',
           \A p \in Created, e \in Endpoints :
             Pending(p, e) => Pending(p, e)' \/ e \in DOMAIN peers'[p].paths
    PROVE  "inbound" \notin ended' =>
             \A p \in Created', e \in Endpoints :
               <<p, e>> \in heard' => e \in DOMAIN peers'[p].paths \/ Pending(p, e)'
<1> SUFFICES ASSUME "inbound" \notin ended', NEW p \in Created', NEW e \in Endpoints,
                    <<p, e>> \in heard
             PROVE  e \in DOMAIN peers'[p].paths \/ Pending(p, e)'
  OBVIOUS
<1>1. p \in Created
  BY DEF TypeOK, HeardOK
<1>2. e \in DOMAIN peers[p].paths \/ Pending(p, e)
  BY <1>1 DEF HeardInv
<1>3. QED
  BY <1>1, <1>2, PathsGrow

\* A result of a tunnel that was asked: what it verified is worked on.
LEMMA HeardResult ==
    ASSUME TypeOK, HeardInv, ~Busy, NEW p \in Created, NEW d, Sealed(d),
           NEW mode \in {"verified", "trial"}, NEW result \in Results(p, d),
           NEW left, Decapsulate(p, d, result, left), inbound' = Handling(p, d, mode, result),
           mode = "trial" => result \notin {"keepalive", "packet"},
           UNCHANGED <<peers, ended>>
    PROVE  HeardInv'
<1>1. d.kind \in {"init", "response", "data"} /\ d.src \in Endpoints
  BY DEF Sealed, Datagram
<1>2. result \in {"err", "cookie", "response", "keepalive", "packet"}
  BY <1>1, ResultsMean
<1>3. /\ inbound'.at = IF result = "err" THEN "recv" ELSE "confirm"
      /\ result # "err" => /\ inbound'.peer = p /\ inbound'.src = d.src
                           /\ inbound'.mode = mode /\ inbound'.result = result
  BY <1>1, <1>2, HandlingOK
<1>4. Created' = Created
  BY SamePeers
<1>5. ASSUME "inbound" \notin ended', NEW q \in Created', NEW e \in Endpoints, <<q, e>> \in heard'
      PROVE  e \in DOMAIN peers'[q].paths \/ Pending(q, e)'
  <2>1. CASE <<q, e>> \in heard
    BY <1>4, <1>5, <2>1 DEF HeardInv, Pending
  <2>2. CASE <<q, e>> \notin heard
    <3>1. q = p /\ e = d.src /\ result \in {"response", "keepalive", "packet"}
      BY <1>5, <2>2 DEF Decapsulate
    <3>2. Pending(p, d.src)'
      BY <1>3, <3>1 DEF Pending, Busy, ShouldConfirm
    <3>3. QED
      BY <3>1, <3>2 DEF Pending
  <2>3. QED
    BY <2>1, <2>2
<1>6. inbound'.at # "trial"
  BY <1>3
<1>7. QED
  BY <1>5, <1>6 DEF HeardInv

LEMMA HeardStep ==
    ASSUME TypeOK, EarnedInv, HeardInv, [Next]_vars
    PROVE  HeardInv'
<1>1. inbound \in InboundTasks
  BY DEF TypeOK, InboundOK
<1>2. CASE EventStep \/ SendStep \/ RecordOrSelect \/ QuietStep
  <2>1. UNCHANGED <<inbound, heard>> /\ ("inbound" \in ended => "inbound" \in ended')
    BY <1>2, EventKeeps, SendKeeps, RecordOrSelectKeeps, QuietKeeps
  <2>2. \A p \in Created, e \in Endpoints : Pending(p, e) => Pending(p, e)'
    BY <2>1 DEF Pending, Busy, ShouldConfirm
  <2>3. QED
    BY <2>1, <2>2, HeardKept DEF HeardInv
<1>3. ASSUME NEW d \in inbox, ReceiveFound(d)
      PROVE  HeardInv'
  <2>1. PICK p \in Created : \E result \in Results(p, d) :
          /\ Decapsulate(p, d, result, inbox \ {d})
          /\ inbound' = Handling(p, d, "verified", result) /\ Sealed(d)
    BY <1>3, ReceiveFoundResult
  <2>2. ~Busy /\ UNCHANGED <<peers, ended>>
    BY <1>3 DEF ReceiveFound, Busy
  <2>3. QED
    BY <2>1, <2>2, HeardResult
<1>4. ASSUME NEW d \in inbox, ReceiveUnknown(d)
      PROVE  HeardInv'
  <2>1. /\ inbound' = [InboundIdle EXCEPT !.at = "trial", !.trying = Current, !.datagram = d]
        /\ UNCHANGED <<heard, ended, peers>> /\ ~Busy /\ Found(d) = {}
    BY <1>4 DEF ReceiveUnknown, Busy, history
  <2>2. inbound'.at = "trial" /\ inbound'.trying = Current /\ inbound'.datagram = d
    BY <2>1 DEF InboundIdle
  <2>3. d.kind # "init" => d.for \notin Current
    BY <2>1 DEF Found, ByIndex
  <2>4. \A p \in Created, e \in Endpoints : ~Pending(p, e)
    BY <2>1 DEF Pending
  <2>5. QED
    BY <2>1, <2>2, <2>3, <2>4, HeardKept DEF HeardInv
<1>5. ASSUME NEW p \in Created, Try(p)
      PROVE  HeardInv'
  <2> DEFINE d == inbound.datagram
  <2>1. PICK result \in Results(p, d) :
          /\ Decapsulate(p, d, result, inbox)
          /\ inbound' = IF result = "err" THEN [inbound EXCEPT !.trying = @ \ {p}]
                        ELSE Handling(p, d, "trial", result)
    BY <1>5 DEF Try
  <2>2. UNCHANGED <<peers, ended>> /\ inbound.at = "trial" /\ p \in inbound.trying /\ ~Busy
    BY <1>5 DEF Try, Busy
  <2>3. Sealed(d) /\ d.kind \in {"init", "response", "data"}
    BY <2>2 DEF TypeOK, DatagramsOK, Sealed, Datagram
  <2>4. d.kind # "init" => ~Accepts(p, d)
    BY <2>2 DEF HeardInv, Accepts
  <2>5. result \notin {"keepalive", "packet"}
    BY <2>3, <2>4, ResultsMean
  <2>6. CASE result # "err"
    <3> HIDE DEF d
    <3>1. inbound' = Handling(p, d, "trial", result)
      BY <2>1, <2>6
    <3>2. QED
      BY <2>1, <2>2, <2>3, <2>5, <3>1, HeardResult
  <2>7. CASE result = "err"
    <3>1. /\ inbound' = [inbound EXCEPT !.trying = @ \ {p}] /\ UNCHANGED heard
      BY <2>1, <2>7 DEF Decapsulate
    <3>2. /\ inbound'.at = "trial" /\ inbound'.datagram = d
          /\ inbound'.trying \subseteq inbound.trying
      BY <1>1, <2>2, <3>1 DEF InboundTasks
    <3>3. \A q \in Created, e \in Endpoints : ~Pending(q, e)
      BY <2>2 DEF Pending
    <3>4. QED
      BY <2>2, <3>1, <3>2, <3>3, HeardKept DEF HeardInv
  <2>8. QED
    BY <2>6, <2>7
<1>6. CASE GiveUp
  <2>1. UNCHANGED <<heard, ended>> /\ ~Busy /\ inbound'.at = "recv"
    BY <1>6 DEF GiveUp, Busy, InboundIdle, history
  <2>2. \A q \in Created, e \in Endpoints : ~Pending(q, e)
    BY <2>1 DEF Pending
  <2>3. QED
    BY <2>1, <2>2, HeardKept DEF HeardInv
<1>7. CASE InboundFail
  <2>1. "inbound" \in ended' /\ inbound'.at = "recv"
    BY <1>7 DEF InboundFail, InboundIdle
  <2>2. QED
    BY <2>1 DEF HeardInv
<1>8. CASE Confirm
  <2>1. /\ UNCHANGED <<heard, ended>> /\ inbound.at = "confirm"
        /\ inbound'.at = "drain" /\ inbound'.peer = inbound.peer /\ inbound'.src = inbound.src
        /\ inbound'.mode = inbound.mode /\ inbound'.result = inbound.result
        /\ inbound'.confirmed = /\ ShouldConfirm
                                /\ inbound.src \in DOMAIN peers[inbound.peer].paths
    BY <1>1, <1>8, ConfirmPath DEF InboundTasks, Confirm, history
  <2>2. ASSUME NEW p \in Created, NEW e \in Endpoints, Pending(p, e)
        PROVE  Pending(p, e)' \/ e \in DOMAIN peers'[p].paths
    <3>1. CASE e \in DOMAIN peers[p].paths
      BY <3>1, PathsGrow
    <3>2. CASE e \notin DOMAIN peers[p].paths
      BY <2>1, <2>2, <3>2 DEF Pending, Busy, ShouldConfirm
    <3>3. QED
      BY <3>1, <3>2
  <2>3. QED
    BY <2>1, <2>2, HeardKept DEF HeardInv
<1>9. CASE Drain
  <2>1. /\ UNCHANGED <<heard, ended>> /\ inbound.at = "drain"
        /\ inbound' = IF ShouldConfirm /\ ~inbound.confirmed
                      THEN [inbound EXCEPT !.at = "probe"] ELSE InboundIdle
    BY <1>9 DEF Drain, history
  <2>2. /\ inbound'.at # "trial"
        /\ ShouldConfirm /\ ~inbound.confirmed =>
             /\ inbound'.at = "probe" /\ inbound'.peer = inbound.peer /\ inbound'.src = inbound.src
             /\ inbound'.mode = inbound.mode /\ inbound'.result = inbound.result
    BY <1>1, <2>1 DEF InboundTasks, InboundIdle
  <2>3. \A p \in Created, e \in Endpoints : Pending(p, e) => Pending(p, e)'
    BY <2>1, <2>2 DEF Pending, Busy, ShouldConfirm
  <2>4. QED
    BY <2>1, <2>2, <2>3, HeardKept DEF HeardInv
<1>10. CASE ProbeSource
  <2>1. /\ UNCHANGED <<heard, ended>>
        /\ inbound' = [inbound EXCEPT !.at = "record"]
    BY <1>10 DEF ProbeSource, history
  <2>2. /\ inbound'.at = "record" /\ inbound'.peer = inbound.peer /\ inbound'.src = inbound.src
        /\ inbound'.mode = inbound.mode /\ inbound'.result = inbound.result
    BY <1>1, <2>1 DEF InboundTasks
  <2>3. \A p \in Created, e \in Endpoints : Pending(p, e) => Pending(p, e)'
    BY <2>2 DEF Pending, Busy, ShouldConfirm
  <2>4. QED
    BY <2>1, <2>2, <2>3, HeardKept DEF HeardInv
<1>11. CASE RecordSource
  <2>1. UNCHANGED <<heard, ended, tunnels>> /\ inbound'.at = "recv"
    BY <1>11 DEF RecordSource, InboundIdle, history
  <2>2. PICK p \in Created, e \in Endpoints, s \in {"probed", "reachable"} :
          /\ p = inbound.peer /\ e = inbound.src
          /\ peers' = [peers EXCEPT ![p] = WithPath(@, e, s)]
    BY <1>11, RecordSourcePath
  <2>3. e \in DOMAIN peers'[p].paths
    <3>1. PeersOK /\ UNCHANGED tunnels
      BY <2>1 DEF TypeOK
    <3>2. peers' = [peers EXCEPT ![p] = WithPath(@, e, s)]
      BY <2>2
    <3>3. DOMAIN peers'[p].paths = DOMAIN peers[p].paths \cup {e}
      BY <3>1, <3>2, PathStep
    <3>4. QED
      BY <3>3
  <2>4. \A q \in Created, x \in Endpoints : Pending(q, x) => x \in DOMAIN peers'[q].paths
    BY <2>2, <2>3 DEF Pending
  <2>5. QED
    BY <2>1, <2>4, HeardKept DEF HeardInv
<1>12. QED
  BY <1>2, <1>3, <1>4, <1>5, <1>6, <1>7, <1>8, <1>9, <1>10, <1>11, StepKinds
  DEF InboundStep, Inbound

\* Once the inbound task is done with a verified datagram, its peer has a path
\* to where it came from, so the next one confirms it, whatever peer was found
\* first and however records and answers overtake each other
\* (wireguard.rs:100-128).
THEOREM VerifiedEndpointsHavePaths == Spec => []HeardHavePaths
<1>1. TypeOK /\ EarnedInv /\ HeardInv /\ [Next]_vars => TypeOK' /\ EarnedInv' /\ HeardInv'
  BY TypeStep, EarnedStep, HeardStep
<1>2. Init => HeardInv
  BY DEF Init, HeardInv, InboundIdle
<1>3. HeardInv => HeardHavePaths
  BY DEF HeardInv, HeardHavePaths, Pending, Busy
<1>4. QED
  BY <1>1, <1>2, <1>3, TypeInit, EarnedInit, PTL DEF Spec
-----------------------------------------------------------------------------
(* Why a datagram may go to a peer that refuses it.                        *)

LEMMA IndexStep ==
    ASSUME TypeOK, IndexInv, [Next]_vars
    PROVE  IndexInv'
<1>1. CASE EventStep
  <2>1. PICK A : Fills(A) /\ Takes(A)
    BY <1>1, EventsFill DEF EventStep
  <2>2. A.shuffled \/ \A k, l \in DOMAIN A.table :
          A.peers[A.table[k]].index = A.peers[A.table[l]].index => k = l
    BY <2>1 DEF Fills
  <2>3. QED
    BY <2>1, <2>2 DEF Takes, IndexInv
<1>2. CASE ~EventStep
  <2>1. UNCHANGED <<table, shuffled>>
    BY <1>2, StepKinds, SendKeeps, RecordOrSelectKeeps, QuietKeeps
    DEF InboundStep, Inbound, ReceiveFound, ReceiveUnknown, Try, GiveUp, Confirm, Drain,
        ProbeSource, RecordSource, InboundFail, history
  <2>2. \A k \in DOMAIN table : peers'[table[k]].index = peers[table[k]].index
    BY TypeStep DEF Grown, TypeOK, TableOK
  <2>3. QED
    BY <2>1, <2>2 DEF IndexInv
<1>3. QED
  BY <1>1, <1>2

\* What has been verified, answered with a cookie or shuffled stays so.
LEMMA HistoryGrows ==
    ASSUME TypeOK, [Next]_vars
    PROVE  /\ UNCHANGED scenario
           /\ heard \subseteq heard' /\ cookied \subseteq cookied'
           /\ shuffled => shuffled'
<1>1. CASE EventStep
  <2>1. shuffled => shuffled'
    BY <1>1 DEF EventStep, Replace, Upsert, TakeEvent
  <2>2. QED
    BY <1>1, <2>1, EventKeeps
<1>2. CASE SendStep \/ RecordOrSelect \/ QuietStep
  BY <1>2, SendKeeps, RecordOrSelectKeeps, QuietKeeps
<1>3. ASSUME NEW d \in inbox, ReceiveFound(d)
      PROVE  /\ UNCHANGED <<scenario, shuffled>>
             /\ heard \subseteq heard' /\ cookied \subseteq cookied'
  BY <1>3 DEF ReceiveFound, Decapsulate
<1>4. ASSUME NEW p \in Created, Try(p)
      PROVE  /\ UNCHANGED <<scenario, shuffled>>
             /\ heard \subseteq heard' /\ cookied \subseteq cookied'
  BY <1>4 DEF Try, Decapsulate
<1>5. CASE \/ \E d \in inbox : ReceiveUnknown(d)
           \/ GiveUp \/ Confirm \/ Drain \/ ProbeSource \/ RecordSource \/ InboundFail
  <2>1. UNCHANGED <<scenario, heard, cookied, shuffled>>
    BY <1>5 DEF ReceiveUnknown, GiveUp, Confirm, Drain, ProbeSource, RecordSource, InboundFail,
                history
  <2>2. QED
    BY <2>1
<1>6. CASE InboundStep
  <2>1. \/ \E d \in inbox : ReceiveFound(d)
        \/ \E p \in Created : Try(p)
        \/ \E d \in inbox : ReceiveUnknown(d)
        \/ GiveUp \/ Confirm \/ Drain \/ ProbeSource \/ RecordSource \/ InboundFail
    BY <1>6 DEF InboundStep, Inbound
  <2>2. QED
    BY <1>3, <1>4, <1>5, <2>1
<1>7. QED
  BY <1>1, <1>2, <1>6, StepKinds

\* Why a datagram from e, which is for peer q, may have gone to another.
Explained(q, e) ==
    \/ shuffled
    \/ \E p \in Created : /\ peers[p].key # peers[q].key
                          /\ e \in Told(p) \/ Earned(p, e)

LEMMA StaysExplained ==
    ASSUME TypeOK, [Next]_vars, NEW q \in Created, NEW e, Explained(q, e)
    PROVE  Explained(q, e)'
<1>1. Grown /\ UNCHANGED scenario /\ heard \subseteq heard' /\ cookied \subseteq cookied'
  BY TypeStep, HistoryGrows
<1>2. CASE shuffled
  BY <1>2, HistoryGrows DEF Explained
<1>3. CASE ~shuffled
  <2>1. PICK p \in Created : /\ peers[p].key # peers[q].key
                             /\ e \in Told(p) \/ Earned(p, e)
    BY <1>3 DEF Explained
  <2>2. e \in Told(p)' \/ Earned(p, e)'
    BY <1>1, <2>1, ToldKept
  <2>3. p \in Created' /\ peers'[p].key # peers'[q].key
    BY <1>1, <2>1 DEF Grown
  <2>4. QED
    BY <2>2, <2>3 DEF Explained
<1>4. QED
  BY <1>2, <1>3

\* The first lookup that finds a peer other than the one a datagram is for has
\* found it by an endpoint it was told of or has earned, or by a shared index.
LEMMA MissExplained ==
    ASSUME TypeOK, EarnedInv, IndexInv, NEW d, Sealed(d),
           NEW p \in Found(d), NEW q \in Takers(p, d)
    PROVE  q \in Created /\ Explained(q, d.src)
<1>1. q \in Current /\ Accepts(q, d) /\ ~Accepts(p, d) /\ p # q
  BY DEF Takers
<1>2. /\ p \in Current
      /\ \/ HasEndpoint(p, d.src)
         \/ d.kind # "init" /\ peers[p].index = peers[d.for].index
  BY DEF Found, ByEndpoint, ByIndex
<1>3. PICK k \in DOMAIN table : p = table[k]
  BY <1>2 DEF Current
<1>4. PICK l \in DOMAIN table : q = table[l]
  BY <1>1 DEF Current
<1>5. p \in Created /\ q \in Created /\ peers[p].key = k /\ peers[q].key = l /\ k # l
  BY <1>1, <1>3, <1>4 DEF TypeOK, TableOK
<1>6. CASE HasEndpoint(p, d.src)
  <2>1. d.src \in Told(p) \/ Earned(p, d.src)
    BY <1>5, <1>6 DEF HasEndpoint, EarnedInv, EndpointsTold, PathsEarned
  <2>2. QED
    BY <1>5, <2>1 DEF Explained
<1>7. CASE d.kind # "init" /\ peers[p].index = peers[d.for].index
  <2>1. peers[table[k]].index = peers[table[l]].index
    BY <1>1, <1>3, <1>4, <1>7 DEF Accepts
  <2>2. shuffled
    BY <1>5, <2>1 DEF IndexInv
  <2>3. QED
    BY <1>5, <2>2 DEF Explained
<1>8. QED
  BY <1>2, <1>6, <1>7

LEMMA MissedStep ==
    ASSUME TypeOK, EarnedInv, IndexInv, MissesExplained, [Next]_vars
    PROVE  MissesExplained'
<1>1. ASSUME NEW q, NEW e, <<q, e>> \in missed
      PROVE  q \in Created /\ Explained(q, e)
  BY <1>1 DEF MissesExplained, Explained, TypeOK, HeardOK
<1>2. ASSUME NEW q, NEW e, <<q, e>> \in missed' \ missed
      PROVE  q \in Created /\ Explained(q, e)
  <2>1. PICK d \in inbox : ReceiveFound(d)
    <3>1. SUFFICES ASSUME ~ \E d \in inbox : ReceiveFound(d) PROVE UNCHANGED missed
      BY <1>2
    <3>2. QED
      BY <3>1, StepKinds, EventKeeps, SendKeeps, RecordOrSelectKeeps, QuietKeeps
      DEF InboundStep, Inbound, ReceiveUnknown, Try, GiveUp, Confirm, Drain, ProbeSource,
          RecordSource, InboundFail, history
  <2>2. PICK p \in Created : /\ p \in Found(d) /\ Sealed(d)
                             /\ missed' = missed \cup (Takers(p, d) \X {d.src})
    BY <2>1, ReceiveFoundResult
  <2>3. q \in Takers(p, d) /\ e = d.src
    BY <1>2, <2>2
  <2>4. QED
    BY <2>2, <2>3, MissExplained
<1>3. \A miss \in missed' : miss \in Created' \X Endpoints
  BY TypeStep DEF TypeOK, HeardOK
<1>4. ASSUME NEW miss \in missed'
      PROVE  Explained(miss[1], miss[2])'
  <2>1. PICK q \in Created', e \in Endpoints : miss = <<q, e>>
    BY <1>3
  <2>2. q \in Created /\ Explained(q, e)
    BY <1>1, <1>2, <2>1
  <2>3. Explained(q, e)'
    BY <2>2, StaysExplained
  <2>4. QED
    BY <2>1, <2>3
<1>5. QED
  BY <1>4 DEF MissesExplained, Explained

\* When the first lookup that finds a peer, by endpoint or by index, gives a
\* datagram to one whose tunnel refuses it, while that of another would take it,
\* then the device was told of the endpoint for a peer with another key or has
\* earned it for one, or a snapshot named a new peer before a known one.  No
\* order in which the hash map is walked and no peers that came, went and
\* changed their endpoints mislead it otherwise (runtime.rs:185-232).
THEOREM MissesAreExplained == Spec => []MissesExplained
<1>1. TypeOK /\ EarnedInv /\ IndexInv /\ MissesExplained /\ [Next]_vars
        => TypeOK' /\ EarnedInv' /\ IndexInv' /\ MissesExplained'
  BY TypeStep, EarnedStep, IndexStep, MissedStep
<1>2. Init => IndexInv
  <2>1. SUFFICES ASSUME Init PROVE IndexInv
    OBVIOUS
  <2>2. PICK infos \in Snapshots :
          /\ peers = [i \in DOMAIN infos |->
                        [key |-> infos[i].public_key, index |-> i, endpoints |-> infos[i].endpoints,
                         paths |-> [e \in {} |-> e]]]
          /\ DOMAIN table = {infos[i].public_key : i \in DOMAIN infos}
    BY <2>1 DEF Init
  <2>3. TableOK
    BY <2>1, TypeInit DEF TypeOK
  <2>4. \A k \in DOMAIN table : /\ table[k] \in DOMAIN infos
                                /\ peers[table[k]].index = table[k]
                                /\ peers[table[k]].key = k
    BY <2>2, <2>3 DEF TableOK, Created
  <2>5. QED
    BY <2>4 DEF IndexInv
<1>3. Init => MissesExplained
  BY DEF Init, MissesExplained
<1>4. QED
  BY <1>1, <1>2, <1>3, TypeInit, EarnedInit, PTL DEF Spec
=============================================================================
