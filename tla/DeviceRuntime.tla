--------------------------- MODULE DeviceRuntime ---------------------------
(***************************************************************************)
(* One device at work (core/src/device/runtime.rs and wireguard.rs): the   *)
(* probes of Device::start, then the four tasks that share its peer table, *)
(* its socket and its TUN device, against a network that loses, delays and *)
(* reorders datagrams.                                                     *)
(*                                                                         *)
(* A peer is kept by identity, because a task goes on with the Arc<Peer>   *)
(* it has looked up while the event task replaces the table.  Of a path    *)
(* only its stage is kept: probed or reachable.  Latencies, and which of   *)
(* several reachable paths is selected, are PeerTable.tla's subject: here  *)
(* any of them is.                                                         *)
(*                                                                         *)
(* Tunnels (boringtun) and remote devices are external.  A tunnel accepts  *)
(* a datagram only if its own peer sealed it, and anything but an          *)
(* initiation only if it was sealed for this very tunnel.  It may refuse   *)
(* an answer to an initiation that a later one has replaced, and anything  *)
(* else where datagrams are lost.  Under load it answers any datagram of a *)
(* handshake with a cookie, unverified.                                    *)
(***************************************************************************)
EXTENDS Integers, Sequences, FiniteSets, SequencesExt

CONSTANTS
    Keys,           \* public keys of remote devices
    Endpoints,      \* socket addresses
    Home,           \* key -> endpoints its device sends from and answers at
    UserEndpoints,  \* key -> endpoints a user may ask to probe its device at
    Nobody,         \* no peer
    MaxTunnels,     \* bound: peers created
    MaxInFlight,    \* bound: datagrams on their way to the device
    Scenarios,      \* bound: what may happen together in a behaviour
    InfosIn         \* scenario -> the DeviceInfos the coordinator may tell in it

ASSUME HomeAssumption == {Home, UserEndpoints} \subseteq [Keys -> SUBSET Endpoints]
ASSUME NobodyAssumption == Nobody \notin Nat

\* The coordinator sends events, remote devices begin handshakes, they answer
\* from another endpoint than was probed, packets come from TUN devices, tunnels
\* time out, a user probes, tunnels are under load, datagrams are lost or
\* refused, a task fails.
Happenings == {"events", "remote", "roaming", "packets", "timeouts", "user", "load",
               "loss", "failure"}

ASSUME ScenariosAssumption == Scenarios \subseteq SUBSET Happenings
ASSUME InfosAssumption ==
    \A s \in Scenarios : \A info \in InfosIn[s] :
      info.public_key \in Keys /\ info.endpoints \in Seq(Endpoints) \ {<<>>}
ASSUME RuntimeBoundsAssumption == MaxTunnels \in Nat /\ MaxInFlight \in Nat

VARIABLES
    phase,     \* of Device::start
    scenario,  \* what may happen; constant in a behaviour
    table,     \* PeerTable: public key -> peer
    peers,     \* every Peer ever created, by identity
    tunnels,   \* external: the tunnel of each peer
    events,    \* the peer event task; before that, the probes of start
    inbound,   \* the inbound task
    ended,     \* the tasks that have ended with an error
    user,      \* a caller of probe_peer or probe_peer_endpoint
    inbox,     \* datagrams on their way to the device
    heard,     \* history: <<peer, endpoint>> a tunnel verified a datagram of
    cookied,   \* history: <<peer, endpoint>> of which a cookie passed for that
    late,      \* history: <<peer, endpoint>> of answers refused as replaced
    missed,    \* history: <<peer, endpoint>> of datagrams given to another peer
    shuffled   \* history: did a snapshot name a new peer before a known one?

tasks == <<events, inbound, ended, user>>
history == <<heard, cookied, late, missed, shuffled>>
vars == <<phase, scenario, table, peers, tunnels, tasks, inbox, history>>

Infos == InfosIn[scenario]
Created == DOMAIN peers
Current == {table[k] : k \in DOMAIN table}  \* peers.all()

EventsIdle == [at |-> "wait", todo |-> {}, peer |-> Nobody, endpoints |-> <<>>]
InboundIdle == [at |-> "recv", peer |-> Nobody, src |-> Nobody, mode |-> "verified",
                result |-> "none", confirmed |-> FALSE, trying |-> {}, datagram |-> Nobody]
UserIdle == [at |-> "idle", peer |-> Nobody, endpoint |-> Nobody]

\* One task ends with an error.
MayFail == "failure" \in scenario /\ ended = {}

Runs(task) == phase = "running" /\ task \notin ended
-----------------------------------------------------------------------------
(* Peer and PeerTable, as far as the tasks tell states apart.              *)

HasEndpoint(p, e) ==
    e \in DOMAIN peers[p].paths \/ e \in Range(peers[p].endpoints)

\* endpoints_to_probe, at their places in the info.
EndpointsToProbe(p) ==
    RestrictValues(peers[p].endpoints, LAMBDA e : e \notin DOMAIN peers[p].paths)

\* selected_endpoint: a reachable path, or the first endpoint of the info.
Selected(p) ==
    LET reachable == {e \in DOMAIN peers[p].paths : peers[p].paths[e] = "reachable"}
    IN  IF reachable # {} THEN reachable ELSE {peers[p].endpoints[1]}

WithPath(peer, e, stage) ==
    [peer EXCEPT !.paths = [x \in DOMAIN @ \cup {e} |-> IF x = e THEN stage ELSE @[x]]]

\* Mutant: only a path that exists is updated.
RecordKnown(peer, e) == peer

\* record_endpoint_probe: a reachable path stays so.
RecordProbe(peer, e) ==
    WithPath(peer, e, IF e \in DOMAIN peer.paths THEN peer.paths[e] ELSE "probed")

\* Mutant: the greatest index in use instead of the one after it.
SameIndex(used) == Max({1} \cup used)

\* next_peer_index, from the indexes already in the table being filled.
NextIndex(used) == 1 + Max({0} \cup used)

\* Infos of different peers.
Snapshots ==
    {infos \in UNION {[1 .. n -> Infos] : n \in 0 .. Cardinality(Keys)} :
       \A i, j \in DOMAIN infos : infos[i].public_key = infos[j].public_key => i = j}

\* The index of the peer of each info: a known one keeps its own, that of a new
\* one follows those that are in the table being filled, where there are at
\* first the staying peers.
Indexes(infos, staying) ==
    LET index[i \in DOMAIN infos] ==
          IF infos[i].public_key \in DOMAIN table
          THEN peers[table[infos[i].public_key]].index
          ELSE NextIndex({peers[table[k]].index : k \in staying}
                         \cup {index[j] : j \in 1 .. i - 1})
    IN  index

Named(infos) == {infos[i].public_key : i \in DOMAIN infos}
At(infos, k) == CHOOSE i \in DOMAIN infos : infos[i].public_key = k

\* The keys of the new peers.
News(infos) == SetToSeq(Named(infos) \ DOMAIN table)

\* Peer::update of a known peer, which keeps its index and its paths.
Updated(p, infos) ==
    IF p \in Current /\ peers[p].key \in Named(infos)
    THEN [peers[p] EXCEPT !.endpoints = infos[At(infos, peers[p].key)].endpoints]
    ELSE peers[p]

\* Peer::from_info of a new one.
FromInfo(info, index) ==
    [key |-> info.public_key, index |-> index, endpoints |-> info.endpoints,
     paths |-> [e \in {} |-> e]]

\* The loop over the infos: all peers ever created ...
AllPeers(infos, staying) ==
    LET n == Len(peers)
        i(q) == At(infos, News(infos)[q])
    IN  [p \in 1 .. n + Len(News(infos)) |->
           IF p <= n THEN Updated(p, infos)
           ELSE FromInfo(infos[i(p - n)], Indexes(infos, staying)[i(p - n)])]

\* ... and the table.
Filled(infos, staying) ==
    LET place(k) == CHOOSE q \in DOMAIN News(infos) : News(infos)[q] = k
    IN  [k \in Named(infos) \cup staying |->
           IF k \in DOMAIN table THEN table[k] ELSE Len(peers) + place(k)]

\* Does a new peer come before a known one?
Shuffles(infos) ==
    \E i, j \in DOMAIN infos :
      i < j /\ infos[i].public_key \notin DOMAIN table /\ infos[j].public_key \in DOMAIN table
-----------------------------------------------------------------------------
(* The tunnel and the network, both external.                              *)

Fresh == [state |-> "fresh", queued |-> FALSE]

\* A tunnel for every peer.
WithTunnels(n) == [p \in 1 .. n |-> IF p \in DOMAIN tunnels THEN tunnels[p] ELSE Fresh]

\* What the tunnel of p takes.
Accepts(p, d) == d.by = peers[p].key /\ (d.kind = "init" \/ d.for = p)

\* What decapsulate may return.
Results(p, d) ==
    (IF ~Accepts(p, d) \/ d.replaced \/ "loss" \in scenario THEN {"err"} ELSE {})
    \cup (IF "load" \in scenario /\ d.kind # "data" THEN {"cookie"} ELSE {})
    \cup (IF ~Accepts(p, d) THEN {}
          ELSE CASE d.kind = "init" -> {"response"}
                 [] d.kind = "response" -> {"keepalive"}
                 [] d.kind = "data" ->
                      IF tunnels[p].state = "fresh" THEN {"err"} ELSE {"packet"})

\* The tunnel of p has begun another handshake or given up: what answers its
\* initiations on their way may come too late.
Replaced(p, datagrams) ==
    {IF d.kind = "response" /\ d.for = p THEN [d EXCEPT !.replaced = TRUE] ELSE d :
       d \in datagrams}

\* An accepted initiation makes a session that works once data has come
\* through it; an accepted response makes one that works.  Sessions are
\* followed where there are packets to send through them.
Shaken(p, result) ==
    CASE "packets" \notin scenario -> tunnels[p].state
      [] result = "response" /\ tunnels[p].state = "fresh" -> "responded"
      [] result \in {"keepalive", "packet"} -> "up"
      [] OTHER -> tunnels[p].state

\* decapsulate: the session, what is left of the datagrams on their way, and
\* what is known of the peer.
Decapsulate(p, d, result, left) ==
    /\ tunnels' = [tunnels EXCEPT ![p].state = Shaken(p, result)]
    /\ inbox' = IF result = "response" THEN Replaced(p, left) ELSE left
    /\ heard' = IF result \in {"response", "keepalive", "packet"}
                THEN heard \cup {<<p, d.src>>} ELSE heard
    /\ late' = IF result = "err" /\ d.replaced /\ Accepts(p, d)
               THEN late \cup {<<p, d.src>>} ELSE late

\* send_to of an initiation.  A remote device answers it when it has the
\* endpoint; it keeps no state here, so all delays are those of the answer.
Probe(p, e) ==
    LET k == peers[p].key IN
    \/ e \notin Home[k] /\ inbox' = Replaced(p, inbox)
    \/ /\ e \in Home[k]
       /\ \E src \in IF "roaming" \in scenario THEN Home[k] ELSE {e} :
            inbox' = Replaced(p, inbox)
                     \cup {[kind |-> "response", by |-> k, for |-> p, src |-> src,
                           replaced |-> FALSE]}

\* A remote device sends an initiation of its own.
RemoteInitiates(k, e) ==
    /\ "remote" \in scenario
    /\ e \in Home[k]
    /\ Cardinality(inbox) < MaxInFlight
    /\ inbox' = inbox \cup {[kind |-> "init", by |-> k, for |-> Nobody, src |-> e,
                             replaced |-> FALSE]}
    /\ UNCHANGED <<phase, scenario, table, peers, tunnels, tasks, history>>

\* It sends a packet through the tunnel.
RemoteSends(p, e) ==
    /\ tunnels[p].state # "fresh"
    /\ e \in Home[peers[p].key]
    /\ Cardinality(inbox) < MaxInFlight
    /\ inbox' = inbox \cup {[kind |-> "data", by |-> peers[p].key, for |-> p,
                             src |-> e, replaced |-> FALSE]}
    /\ UNCHANGED <<phase, scenario, table, peers, tunnels, tasks, history>>

Lose ==
    /\ "loss" \in scenario
    /\ \E d \in inbox : inbox' = inbox \ {d}
    /\ UNCHANGED <<phase, scenario, table, peers, tunnels, tasks, history>>
-----------------------------------------------------------------------------
(* Device::start from the registration on, and the peer event task.        *)

Init ==
    /\ scenario \in Scenarios
    /\ phase = "starting"
    /\ \E infos \in Snapshots :
         LET k(i) == infos[i].public_key
             ids == DOMAIN infos
         IN  /\ peers = [i \in ids |-> [key |-> k(i), index |-> i, endpoints |-> infos[i].endpoints,
                                        paths |-> [e \in {} |-> e]]]
             /\ table = [key \in {k(i) : i \in ids} |-> CHOOSE i \in ids : k(i) = key]
             /\ tunnels = [i \in ids |-> Fresh]
             /\ events = [EventsIdle EXCEPT !.at = "probe", !.todo = ids]
    /\ inbound = InboundIdle
    /\ ended = {}
    /\ user = UserIdle
    /\ inbox = {}
    /\ heard = {} /\ cookied = {} /\ late = {} /\ missed = {}
    /\ shuffled = FALSE

\* An event changes the table, then every peer of it is probed.
TakeEvent(infos, staying) ==
    /\ Runs("events")
    /\ "events" \in scenario
    /\ events.at = "wait"
    /\ Len(peers) + Len(News(infos)) <= MaxTunnels
    /\ peers' = AllPeers(infos, staying)
    /\ table' = Filled(infos, staying)
    /\ tunnels' = WithTunnels(Len(peers) + Len(News(infos)))
    /\ events' = [EventsIdle EXCEPT !.at = "probe",
                    !.todo = {Filled(infos, staying)[k] : k \in Named(infos) \cup staying}]
    /\ shuffled' = (shuffled \/ Shuffles(infos))
    /\ UNCHANGED <<phase, scenario, inbound, ended, user, inbox, heard, cookied, late, missed>>

\* A snapshot, in any order: peers it does not name leave the table.
Replace(infos) == TakeEvent(infos, {})

\* The other peers stay.
Upsert(info) == TakeEvent(<<info>>, DOMAIN table)

\* probe_peer_endpoints: the endpoints without a path of the next peer.
EventsPeer(p) ==
    /\ events.at = "probe"
    /\ events.endpoints = <<>>
    /\ p \in events.todo
    /\ events' = [events EXCEPT !.todo = @ \ {p},
                                !.peer = IF EndpointsToProbe(p) = <<>> THEN Nobody ELSE p,
                                !.endpoints = EndpointsToProbe(p)]
    /\ UNCHANGED <<phase, scenario, table, peers, tunnels, inbound, ended, user, inbox, history>>

\* Those that are left are probed in the order of the info.
Place == Min(DOMAIN events.endpoints)

\* probe_endpoint: the initiation is sent first ...
EventsSend ==
    /\ events.at = "probe"
    /\ events.endpoints # <<>>
    /\ events' = [events EXCEPT !.at = "record"]
    /\ Probe(events.peer, events.endpoints[Place])
    /\ UNCHANGED <<phase, scenario, table, peers, tunnels, inbound, ended, user, history>>

\* ... and recorded afterwards.
EventsRecord ==
    /\ events.at = "record"
    /\ peers' = [peers EXCEPT ![events.peer] = RecordProbe(@, events.endpoints[Place])]
    /\ LET left == Restrict(events.endpoints, DOMAIN events.endpoints \ {Place})
       IN  events' = [events EXCEPT !.at = "probe", !.endpoints = left,
                                    !.peer = IF left = <<>> THEN Nobody ELSE @]
    /\ UNCHANGED <<phase, scenario, table, tunnels, inbound, ended, user, inbox, history>>

\* All are probed: start spawns the tasks, or the task waits for an event.
EventsDone ==
    /\ events.at = "probe"
    /\ events.endpoints = <<>>
    /\ events.todo = {}
    /\ events' = EventsIdle
    /\ phase' = "running"
    /\ UNCHANGED <<scenario, table, peers, tunnels, inbound, ended, user, inbox, history>>

\* A probe cannot be sent: start fails, or the task ends.
EventsFail ==
    /\ events.at = "probe"
    /\ events.endpoints # <<>>
    /\ MayFail
    /\ events' = EventsIdle
    /\ ended' = ended \cup {"events"}
    /\ phase' = IF phase = "starting" THEN "failed" ELSE phase
    /\ UNCHANGED <<scenario, table, peers, tunnels, inbound, user, inbox, history>>
-----------------------------------------------------------------------------
(* The outbound and timer tasks, and the user.                             *)

\* An initiation goes to an endpoint that was selected.
Initiate(p) == \E e \in Selected(p) : Probe(p, e)

\* A packet from the TUN device for the device with key k.  Without a session
\* that works the tunnel queues it, and may want a handshake first.  Between
\* the tunnel and the socket there is nothing another task could disturb: the
\* endpoint might as well have been selected at once.
Encapsulate(k) ==
    /\ Runs("outbound")
    /\ "packets" \in scenario
    /\ k \in DOMAIN table
    /\ LET p == table[k] IN
       /\ tunnels' = [tunnels EXCEPT ![p].queued = @ \/ tunnels[p].state # "up"]
       /\ UNCHANGED inbox \/ (tunnels[p].state # "up" /\ Initiate(p))
    /\ UNCHANGED <<phase, scenario, table, peers, tasks, history>>

\* update_timers, every 250 ms for every peer: a handshake to begin or repeat,
\* or a session that has expired, with what was queued for it.  The walk may
\* come to a peer that has left the table meanwhile.
UpdateTimers(p) ==
    /\ Runs("timer")
    /\ "timeouts" \in scenario
    /\ \/ Initiate(p) /\ UNCHANGED tunnels
       \/ tunnels' = [tunnels EXCEPT ![p] = Fresh] /\ inbox' = Replaced(p, inbox)
    /\ UNCHANGED <<phase, scenario, table, peers, tasks, history>>

\* A datagram cannot be sent, or a packet from the TUN device not be parsed.
TaskFails(task) ==
    /\ Runs(task)
    /\ MayFail
    /\ ended' = ended \cup {task}
    /\ UNCHANGED <<phase, scenario, table, peers, tunnels, events, inbound, user, inbox, history>>

\* probe_peer and probe_peer_endpoint.
UserProbe(k, e) ==
    /\ phase = "running"
    /\ "user" \in scenario
    /\ user.at = "idle"
    /\ k \in DOMAIN table
    /\ e \in Selected(table[k]) \cup UserEndpoints[k]
    /\ Probe(table[k], e)
    /\ user' = [at |-> "record", peer |-> table[k], endpoint |-> e]
    /\ UNCHANGED <<phase, scenario, table, peers, tunnels, events, inbound, ended, history>>

UserRecord ==
    /\ user.at = "record"
    /\ peers' = [peers EXCEPT ![user.peer] = RecordProbe(@, user.endpoint)]
    /\ user' = UserIdle
    /\ UNCHANGED <<phase, scenario, table, tunnels, events, inbound, ended, inbox, history>>
-----------------------------------------------------------------------------
(* The inbound task.                                                       *)

ByEndpoint(d) == {p \in Current : HasEndpoint(p, d.src)}

\* find_by_index; packet_receiver_index finds none in an initiation.
ByIndex(d) ==
    {p \in Current : d.kind # "init" /\ peers[p].index = peers[d.for].index}

\* The peers the first lookup with an answer may find.
Found(d) == IF ByEndpoint(d) # {} THEN ByEndpoint(d) ELSE ByIndex(d)

\* The task has a result of peer p and goes on, or waits for a datagram.
Handling(p, d, mode, result) ==
    IF result = "err" THEN InboundIdle
    ELSE [InboundIdle EXCEPT !.at = "confirm", !.peer = p, !.src = d.src, !.mode = mode,
                             !.result = result]

\* The current peers whose tunnels would take a datagram that p refuses.
Takers(p, d) == {q \in Current : Accepts(q, d) /\ ~Accepts(p, d)}

\* A datagram from an endpoint, or with an index, that a peer has: no other
\* peer is asked.
ReceiveFound(d) ==
    /\ Runs("inbound")
    /\ inbound.at = "recv"
    /\ \E p \in Found(d) : \E result \in Results(p, d) :
         /\ Decapsulate(p, d, result, inbox \ {d})
         /\ inbound' = Handling(p, d, "verified", result)
         /\ cookied' = IF result = "cookie" THEN cookied \cup {<<p, d.src>>} ELSE cookied
         /\ missed' = missed \cup (Takers(p, d) \X {d.src})
    /\ UNCHANGED <<phase, scenario, table, peers, events, ended, user, shuffled>>

\* Any other datagram is tried on all peers.
ReceiveUnknown(d) ==
    /\ Runs("inbound")
    /\ inbound.at = "recv"
    /\ Found(d) = {}
    /\ inbox' = inbox \ {d}
    /\ inbound' = [InboundIdle EXCEPT !.at = "trial", !.trying = Current, !.datagram = d]
    /\ UNCHANGED <<phase, scenario, table, peers, tunnels, events, ended, user,
                   history>>

Try(p) ==
    /\ inbound.at = "trial"
    /\ p \in inbound.trying
    /\ LET d == inbound.datagram IN
       \E result \in Results(p, d) :
         /\ Decapsulate(p, d, result, inbox)
         /\ inbound' = IF result = "err" THEN [inbound EXCEPT !.trying = @ \ {p}]
                       ELSE Handling(p, d, "trial", result)
    /\ UNCHANGED <<phase, scenario, table, peers, events, ended, user, cookied, missed, shuffled>>

\* "Received packet from unknown peer".
GiveUp ==
    /\ inbound.at = "trial"
    /\ inbound.trying = {}
    /\ inbound' = InboundIdle
    /\ UNCHANGED <<phase, scenario, table, peers, tunnels, events, ended, user, inbox, history>>

\* Mutant: whatever is not an error confirms.
ConfirmsAnything == TRUE

\* should_confirm_endpoint: a peer found by trial must have produced a
\* handshake response.
ShouldConfirm == inbound.mode = "verified" \/ inbound.result = "response"

\* confirm_endpoint.
Confirm ==
    /\ inbound.at = "confirm"
    /\ LET p == inbound.peer
           known == ShouldConfirm /\ inbound.src \in DOMAIN peers[p].paths
       IN  /\ peers' = IF known THEN [peers EXCEPT ![p] = WithPath(@, inbound.src, "reachable")]
                                ELSE peers
           /\ inbound' = [inbound EXCEPT !.at = "drain", !.confirmed = known]
    /\ UNCHANGED <<phase, scenario, table, tunnels, events, ended, user, inbox, history>>

\* Mutant: drain_peer is left out.
DrainNothing(p) == UNCHANGED tunnels

\* drain_peer: with a session that works, all that was queued leaves.
DrainPeer(p) ==
    tunnels' = [tunnels EXCEPT ![p].queued = @ /\ tunnels[p].state # "up"]

\* Mutant: an endpoint that could not be confirmed is left alone.
DrainOnly ==
    /\ inbound.at = "drain"
    /\ DrainPeer(inbound.peer)
    /\ inbound' = InboundIdle
    /\ UNCHANGED <<phase, scenario, table, peers, events, ended, user, inbox, history>>

\* handle_tunn_result sends an answer to the source or, if the peer has its
\* source address, a packet to the TUN device; then the queue is drained.
Drain ==
    /\ inbound.at = "drain"
    /\ DrainPeer(inbound.peer)
    /\ inbound' = IF ShouldConfirm /\ ~inbound.confirmed
                  THEN [inbound EXCEPT !.at = "probe"] ELSE InboundIdle
    /\ UNCHANGED <<phase, scenario, table, peers, events, ended, user, inbox, history>>

\* An endpoint that could not be confirmed is probed.
ProbeSource ==
    /\ inbound.at = "probe"
    /\ Probe(inbound.peer, inbound.src)
    /\ inbound' = [inbound EXCEPT !.at = "record"]
    /\ UNCHANGED <<phase, scenario, table, peers, tunnels, events, ended, user, history>>

RecordSource ==
    /\ inbound.at = "record"
    /\ peers' = [peers EXCEPT ![inbound.peer] = RecordProbe(@, inbound.src)]
    /\ inbound' = InboundIdle
    /\ UNCHANGED <<phase, scenario, table, tunnels, events, ended, user, inbox, history>>

\* A send fails.
InboundFail ==
    /\ inbound.at \in {"drain", "probe"}
    /\ MayFail
    /\ inbound' = InboundIdle
    /\ ended' = ended \cup {"inbound"}
    /\ UNCHANGED <<phase, scenario, table, peers, tunnels, events, user, inbox, history>>
-----------------------------------------------------------------------------
Inbound ==
    \/ \E d \in inbox : ReceiveFound(d) \/ ReceiveUnknown(d)
    \/ \E p \in Created : Try(p)
    \/ GiveUp \/ Confirm \/ Drain \/ ProbeSource \/ RecordSource

Probing == (\E p \in Created : EventsPeer(p)) \/ EventsSend \/ EventsRecord \/ EventsDone

Failures == EventsFail \/ InboundFail \/ TaskFails("outbound") \/ TaskFails("timer")

Next ==
    \/ Inbound \/ Probing \/ Failures \/ Lose
    \/ \E infos \in Snapshots : Replace(infos)
    \/ \E info \in Infos : Upsert(info)
    \/ \E k \in Keys : Encapsulate(k)
    \/ \E p \in Created : UpdateTimers(p)
    \/ UserRecord
    \/ \E k \in Keys, e \in Endpoints : RemoteInitiates(k, e) \/ UserProbe(k, e)
    \/ \E p \in Created, e \in Endpoints :
         RemoteSends(p, e)

\* The tasks of a device run whenever they can, and its socket's queue is
\* served.  Nothing else is obliged to happen.
Spec == Init /\ [][Next]_vars /\ WF_vars(Probing) /\ WF_vars(Inbound)
-----------------------------------------------------------------------------
(* Properties.                                                             *)

\* Endpoints the coordinator may tell of the device with key k.
Advertised(k) ==
    UNION {Range(info.endpoints) : info \in {i \in Infos : i.public_key = k}}

\* Endpoints a device is probed at without having been heard from there.
Told(p) ==
    Advertised(peers[p].key)
    \cup (IF "user" \in scenario THEN UserEndpoints[peers[p].key] ELSE {})

\* A tunnel of p verified a datagram from e, or it was loaded and answered one
\* with a cookie, which proves nothing and still counts as verified
\* (wireguard.rs:89-108, 236-250).
Earned(p, e) == <<p, e>> \in heard \cup cookied

\* A device has a path to an endpoint only if it was told of the endpoint or
\* has earned it, and a path is reachable only after the latter: whatever other
\* peers' datagrams, trials of the wrong tunnel, cookies in answer to a trial and
\* changes of the table came between (wireguard.rs:89-128, runtime.rs:185-258).
PathsEarned ==
    \A p \in Created : \A e \in DOMAIN peers[p].paths :
      \/ Earned(p, e)
      \/ e \in Told(p) /\ peers[p].paths[e] # "reachable"

\* Once the inbound task is done with a verified datagram, the peer has a path
\* to where it came from, so the next one confirms it.  This is so although a
\* probe is recorded only after it is sent, and its answer may be handled
\* before that (wireguard.rs:100-128).
HeardHavePaths ==
    inbound.at = "recv" /\ "inbound" \notin ended =>
      \A p \in Created, e \in Endpoints :
        <<p, e>> \in heard => e \in DOMAIN peers[p].paths

\* A datagram goes to a peer whose tunnel refuses it, while that of another
\* would take it, for one of two reasons: the device was told of the endpoint
\* for two peers, or has earned it for the wrong one; or a snapshot named a new
\* peer before a known one, so that they share an index.  Nothing else misleads
\* the lookups: no removed peer, no index or endpoint that passed to another
\* peer, no probe that is not recorded yet (runtime.rs:185-232).
MissesExplained ==
    \A miss \in missed :
      \/ shuffled
      \/ \E p \in Created :
           /\ peers[p].key # peers[miss[1]].key
           /\ miss[2] \in Told(p) \/ Earned(p, miss[2])

\* A packet that was queued for want of a session leaves with the datagram that
\* brings the session up, although the outbound and inbound tasks use the
\* tunnel in turns (runtime.rs:168, wireguard.rs:159-181).
QueueDrained ==
    \A p \in Created :
      tunnels[p].state = "up" /\ tunnels[p].queued =>
        \/ inbound.peer = p /\ inbound.at \in {"confirm", "drain"}
        \/ "inbound" \in ended

\* Nothing is lost, and no other datagrams keep the inbound task from those
\* that answer the device's own probes: the order of the socket's queue is not
\* modelled.
Calm == scenario \subseteq {"events"}

\* An endpoint that the device with key k advertises and answers at.
Wanted(k, e) ==
    /\ Calm
    /\ k \in DOMAIN table
    /\ e \in Range(peers[table[k]].endpoints)

Reachable(k, e) ==
    LET paths == peers[table[k]].paths IN e \in DOMAIN paths /\ paths[e] = "reachable"

\* Where the network is calm, every endpoint a peer advertises and answers at
\* becomes reachable or is withdrawn, however its answer overtakes the record of
\* the probe and however often the table changes; unless the answer was refused,
\* because the probe of another endpoint replaced the initiation, or went to
\* another peer.  Then the endpoint is not probed again
\* (runtime.rs:136-153, 264-272).
EndpointsFound ==
    \A k \in Keys : \A e \in Home[k] :
      Wanted(k, e) ~> \/ ~Wanted(k, e)
                      \/ Reachable(k, e)
                      \/ <<table[k], e>> \in late \cup missed
=============================================================================
