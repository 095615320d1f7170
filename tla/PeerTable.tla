----------------------------- MODULE PeerTable -----------------------------
(***************************************************************************)
(* The peer table of one device (core/src/device/peer.rs): the peers by    *)
(* public key, each with the index its tunnel was created with, the        *)
(* DeviceInfo the coordinator last told, and the paths the device has      *)
(* probed or heard from.                                                   *)
(*                                                                         *)
(* The event task replaces and upserts, several tasks record probes, the   *)
(* inbound task confirms endpoints.  Every operation runs under the        *)
(* table's or the peer's lock and has no await, so each is one action;     *)
(* Peer::update takes two locks in turn, but the paths it could drop       *)
(* between them do not depend on the second.                               *)
(*                                                                         *)
(* Time is a logical clock that may stand still between two readings, as   *)
(* Instant::now may.  Endpoints are numbers because the code orders them.  *)
(***************************************************************************)
EXTENDS Integers, Sequences, FiniteSets, SequencesExt

CONSTANTS
    Keys,        \* public keys of peers
    Addresses,   \* virtual addresses
    Endpoints,   \* socket addresses
    Lists,       \* endpoint lists the coordinator may send
    MaxPeers,    \* bound: length of a list that replaces the table
    MaxTunnels,  \* bound: tunnels created
    MaxClock     \* bound: the clock

ASSUME EndpointsAssumption == Endpoints \subseteq Nat /\ Lists \subseteq Seq(Endpoints)
ASSUME TableBoundsAssumption ==
    MaxPeers \in Nat /\ MaxTunnels \in Nat /\ MaxClock \in Nat

VARIABLES
    peers,    \* public key -> Peer
    tunnels,  \* tunnels created so far; the last one's identity
    clock     \* the latest reading of the clock

vars == <<peers, tunnels, clock>>

None == -1  \* Option::None for a time or a latency

OptionalTime == 0 .. MaxClock \cup {None}
Info == [public_key : Keys, address : Addresses, endpoints : Lists]
Path == [endpoint : Endpoints, reachable : BOOLEAN, latency : OptionalTime,
         last_seen : OptionalTime, last_probe : OptionalTime]

Known == DOMAIN peers
-----------------------------------------------------------------------------
(* Peer and PeerPath.                                                      *)

NewPath(e) == [endpoint |-> e, reachable |-> FALSE, latency |-> None,
               last_seen |-> None, last_probe |-> None]

HasRuntimeState(path) ==
    path.reachable \/ path.latency # None \/ path.last_seen # None
                   \/ path.last_probe # None

\* A new peer: its tunnel is given the index, and sessions of the tunnel are
\* addressed by it.
FromInfo(index, tunnel, info) ==
    [index |-> index, tunnel |-> tunnel, info |-> info, paths |-> [e \in {} |-> e]]

\* Mutant: an update forgets the paths.
UpdateForgets(peer, info) == [peer EXCEPT !.info = info, !.paths = [e \in {} |-> e]]

\* Peer::update: stale paths go, the info is exchanged, the rest stays.
Update(peer, info) ==
    LET kept == {e \in DOMAIN peer.paths :
                   e \in Range(info.endpoints) \/ HasRuntimeState(peer.paths[e])}
    IN  [peer EXCEPT !.info = info, !.paths = [e \in kept |-> peer.paths[e]]]

\* compare_peer_paths: the lower latency, an unmeasured one last; then the
\* path seen more recently; then the lower endpoint.
LatencyBefore(a, b) ==
    \/ a # None /\ b = None
    \/ a # None /\ b # None /\ a < b

\* Mutant: no tie-break by endpoint.
PathBeforeUntied(a, b) ==
    \/ LatencyBefore(a.latency, b.latency)
    \/ a.latency = b.latency /\ a.last_seen > b.last_seen

PathBefore(a, b) ==
    \/ LatencyBefore(a.latency, b.latency)
    \/ /\ a.latency = b.latency
       /\ \/ a.last_seen > b.last_seen
          \/ a.last_seen = b.last_seen /\ a.endpoint < b.endpoint

Reachable(peer) == {p \in Range(peer.paths) : p.reachable}

\* The paths min_by may return, whatever order the map is walked in.
BestPaths(peer) ==
    {p \in Reachable(peer) : \A q \in Reachable(peer) : ~PathBefore(q, p)}

\* The endpoints selected_endpoint may return.
Selected(peer) ==
    IF Reachable(peer) # {} THEN {p.endpoint : p \in BestPaths(peer)}
                            ELSE {peer.info.endpoints[1]}
-----------------------------------------------------------------------------
(* PeerTable.                                                              *)

\* Mutant: the index counts the peers.
CountingIndex(used) == 1 + Cardinality(used)

\* next_peer_index, from the indexes in the table that is being filled.
NextPeerIndex(used) == 1 + Max({0} \cup used)

With(table, k, peer) ==
    [j \in DOMAIN table \cup {k} |-> IF j = k THEN peer ELSE table[j]]

\* The infos that the loop of `replace` takes: those before the first without an
\* endpoint, at which it returns.
Taken(infos) == {i \in DOMAIN infos : \A j \in 1 .. i : infos[j].endpoints # <<>>}

Named(infos) == {infos[i].public_key : i \in Taken(infos)}
At(infos, k) == CHOOSE i \in DOMAIN infos : infos[i].public_key = k

\* The index of the peer of each info: a known one keeps its own, that of a new
\* one is drawn from the peers moved to the new table before it.
Indexes(infos) ==
    LET index[i \in DOMAIN infos] ==
          IF infos[i].public_key \in Known THEN peers[infos[i].public_key].index
          ELSE NextPeerIndex({index[j] : j \in 1 .. i - 1})
    IN  index

\* The places of the new peers that are created, up to place n.
Creations(infos, n) == {i \in Taken(infos) : i <= n /\ infos[i].public_key \notin Known}

\* A known peer is updated in place, so it is in the old table as well.
Updated(infos, k) ==
    IF k \in Named(infos) THEN Update(peers[k], infos[At(infos, k)]) ELSE peers[k]

Admitted(infos, i) ==
    FromInfo(Indexes(infos)[i], tunnels + Cardinality(Creations(infos, i)), infos[i])

\* The lists a snapshot may hold: at most one info per key, in any order,
\* because the coordinator walks a HashMap.
Snapshots ==
    {infos \in UNION {[1 .. n -> Info] : n \in 0 .. MaxPeers} :
       \A i, j \in DOMAIN infos : infos[i].public_key = infos[j].public_key => i = j}

Init == peers = [k \in {} |-> k] /\ tunnels = 0 /\ clock = 0

\* `replace`: the new table takes the place of the old one.
Replace(infos) ==
    /\ Taken(infos) = DOMAIN infos
    /\ tunnels' = tunnels + Cardinality(Creations(infos, Len(infos)))
    /\ tunnels' <= MaxTunnels
    /\ peers' = [k \in Named(infos) |->
                   IF k \in Known THEN Updated(infos, k) ELSE Admitted(infos, At(infos, k))]
    /\ UNCHANGED clock

\* An info has no endpoint: the table stays, with the updates made before.
ReplaceStops(infos) ==
    /\ Taken(infos) # DOMAIN infos
    /\ tunnels' = tunnels + Cardinality(Creations(infos, Len(infos)))
    /\ tunnels' <= MaxTunnels
    /\ peers' = [k \in Known |-> Updated(infos, k)]
    /\ UNCHANGED clock

\* `upsert` of a known key.
UpsertKnown(info) ==
    /\ info.public_key \in Known
    /\ info.endpoints # <<>>
    /\ peers' = [peers EXCEPT ![info.public_key] = Update(@, info)]
    /\ UNCHANGED <<tunnels, clock>>

\* `upsert` of a new key.
UpsertNew(info) ==
    /\ info.public_key \notin Known
    /\ info.endpoints # <<>>
    /\ tunnels < MaxTunnels
    /\ peers' = With(peers, info.public_key,
                     FromInfo(NextPeerIndex({peers[k].index : k \in Known}), tunnels + 1,
                              info))
    /\ tunnels' = tunnels + 1
    /\ UNCHANGED clock

Readings == {t \in {clock, clock + 1} : t <= MaxClock}

\* A probe was sent to e: an advertised endpoint without a path, the source
\* of a verified packet, or one the user names.
RecordEndpointProbe(k, e) ==
    \E now \in Readings :
      /\ LET path == IF e \in DOMAIN peers[k].paths THEN peers[k].paths[e] ELSE NewPath(e)
         IN  peers' = [peers EXCEPT ![k].paths =
                         With(@, e, [path EXCEPT !.last_probe = now])]
      /\ clock' = now
      /\ UNCHANGED tunnels

\* Mutant: a confirmation that answers no probe clears the latency.
ConfirmClearsLatency(k, e) ==
    LET path == peers[k].paths[e] IN
    /\ e \in DOMAIN peers[k].paths
    /\ \E now \in Readings :
         /\ peers' = [peers EXCEPT ![k].paths[e] =
              [path EXCEPT !.reachable = TRUE, !.last_seen = now, !.last_probe = None,
                           !.latency = IF path.last_probe = None THEN None
                                       ELSE now - path.last_probe]]
         /\ clock' = now
         /\ UNCHANGED tunnels

\* A packet from e was verified.  Without a path nothing is confirmed.
ConfirmEndpoint(k, e) ==
    LET path == peers[k].paths[e] IN
    /\ e \in DOMAIN peers[k].paths
    /\ \E now \in Readings :
         /\ peers' = [peers EXCEPT ![k].paths[e] =
              [path EXCEPT !.reachable = TRUE, !.last_seen = now, !.last_probe = None,
                           !.latency = IF path.last_probe = None THEN @
                                       ELSE now - path.last_probe]]
         /\ clock' = now
         /\ UNCHANGED tunnels

Next ==
    \/ \E infos \in Snapshots : Replace(infos) \/ ReplaceStops(infos)
    \/ \E info \in Info : UpsertKnown(info) \/ UpsertNew(info)
    \/ \E k \in Known, e \in Endpoints : RecordEndpointProbe(k, e) \/ ConfirmEndpoint(k, e)

Spec == Init /\ [][Next]_vars
-----------------------------------------------------------------------------
(* Properties.                                                             *)

\* find_by_index has one answer: the peer whose sessions carry the index.
\* The test of replace (peer.rs:639) finds every peer under an index of its
\* own.  A snapshot that names a new peer before a known one refutes this.
IndexesUnique ==
    \A j, k \in Known : peers[j].index = peers[k].index => j = k

\* Nothing else does: two peers come to share an index only in a snapshot that
\* names the one, which is new, before the other, which keeps its index.  No
\* upsert, no new peers among each other, no known peers, no index that was
\* given up and drawn again, and no failed snapshot make them collide
\* (peer.rs:306-361).
CollisionsNeedOrder ==
    [][\A j, k \in DOMAIN peers' :
         j # k /\ peers'[j].index = peers'[k].index =>
           \/ {j, k} \subseteq Known /\ peers[j].index = peers[k].index
           \/ \E infos \in Snapshots :
                /\ Replace(infos)
                /\ \E new \in {j, k} \ Known, known \in {j, k} \cap Known :
                     At(infos, new) < At(infos, known)]_vars

\* A path is in one of three stages: probed and silent, answered, or probed
\* again after it answered.  So a reachable path always has a latency, and
\* no recorded path ever looks unused to remove_stale_paths
\* (peer.rs:154-179, 229-234).
PathStages ==
    \A k \in Known : \A e \in DOMAIN peers[k].paths :
      LET path == peers[k].paths[e]
          measured == path.latency # None /\ path.last_seen # None
      IN  /\ path \in Path /\ path.endpoint = e
          /\ IF path.reachable THEN measured
             ELSE ~measured /\ path.last_seen = None /\ path.last_probe # None

\* However the map is walked, the selection has one answer, and it is a
\* reachable endpoint as soon as there is one (peer.rs:56-80, 363-376).
SelectionDetermined ==
    \A k \in Known :
      LET peer == peers[k] IN
      \E e \in Endpoints :
        /\ Selected(peer) = {e}
        /\ Reachable(peer) # {} => e \in DOMAIN peer.paths /\ peer.paths[e].reachable

\* While a peer stays in the table it keeps its tunnel and index, hence its
\* sessions, and every path it ever had, through every update, snapshot,
\* failed snapshot and probe (peer.rs:181-202, 306-352).
PeersKeepSessionsAndPaths ==
    [][\A k \in Known \cap DOMAIN peers' :
         /\ peers'[k].index = peers[k].index
         /\ peers'[k].tunnel = peers[k].tunnel
         /\ DOMAIN peers[k].paths \subseteq DOMAIN peers'[k].paths
         /\ \A e \in DOMAIN peers[k].paths :
              peers[k].paths[e].reachable => peers'[k].paths[e].reachable]_vars
=============================================================================
