# Lattis: specifications

This directory holds TLA+ specifications of the Lattis repository, the TLC
configurations that check them on small instances, and proofs of their central
properties for TLAPS. Paths below are relative to `src/`.

    tlc -workers 2 -config sync_safety.cfg MCPeerSync.tla    # check a run
    tlapm PeerSyncProofs.tla                                 # check proofs; *Proofs.tla hold them

`PROJECT.json` names, for each definition, the lines of code it models, and for
each checked property a plausible bug that TLC then finds.

## 1. The system

Lattis connects devices. A **coordinator** (`core/src/coordinator`) gives each
device a virtual address and tells it of the others; a **device**
(`core/src/device`) keeps a table of peers, finds out by which of their
endpoints they can be reached and carries packets to them through WireGuard
tunnels. **netlab** (`netlab/`) builds test networks out of Linux namespaces:
LANs, routers with routes, masquerading and UDP NAT, and hosts in which code
runs.

| part | state | operations | talks to |
|---|---|---|---|
| registry (`coordinator/registry.rs`) | map from device id to `DeviceInfo`, behind an RwLock; a broadcast channel of 128 updates | `register`, `peer_list`, `subscribe` | API handlers; publishes on the channel |
| event streams (`coordinator/api.rs`) | per connection: a receiver of the channel | snapshot, next update, resynchronisation after a lag, rejection | registry; devices by server-sent events |
| coordinator client (`device/coordinator.rs`) | the event source | register, next event, reconnect or give up | the coordinator by HTTP |
| peer table (`device/peer.rs`) | peers by key: tunnel, index, info, paths | `replace`, `upsert`, probe, confirm, lookups, selection | the device's four tasks |
| device runtime (`device/runtime.rs`, `wireguard.rs`) | tasks: peer events, outbound, inbound, timer | one loop each | peer table, tunnels, socket, TUN device |
| device start and drop (`device/builder.rs`, `runtime.rs`, `tun.rs`, `route.rs`) | interface, route, port, task handles | `start`, `Drop` | the host's kernel |
| UDP NAT table (`netlab/src/nat.rs`) | mappings, ports, next port, behind a mutex | translate outbound and inbound, allocate a port | workers |
| UDP NAT workers (`netlab/src/nat.rs`) | a shared map of public sockets, a watch channel | `start`, drop, private and public workers | the table; hosts' sockets |
| topology (`netlab/src/topology`) | `NetState` behind a mutex; the kernel's interfaces, routes and rules | `join_host`, `attach`, `set_gateway`, `enable_masquerade`, `enable_udp_nat` | netlink, nftables, executor |
| route convergence (`netlab/src/net.rs`) | the routers' static routes | `converge` | `NetState`, netlink |
| namespace executor (`netlab/src/runtime/executor.rs`) | worker threads with queues and counters; a runtime thread | `spawn_blocking`, `spawn`, drop | every operation that runs in a namespace |

What is hard about it, and what must hold nevertheless:

- **Registry and streams.** The registry is changed under a lock, the change is
  published after the lock is released, a stream subscribes before it reads its
  snapshot, the channel overwrites what a slow stream has not read, connections
  are lost, the coordinator forgets everything when it restarts. Addresses and
  keys must stay unique, addresses stable, and no update may be lost.
- **Peer table.** Updates arrive late and, after a resynchronisation, out of order;
  a table is replaced while probes and answers to probes are under way. Sessions
  and measured paths must survive updates, and lookups must have one answer.
- **Device runtime.** Four tasks share the table, the tunnels and the socket and
  interleave at every `await`: a probe is recorded after it is sent, a task goes on
  with a peer that the table no longer has, a packet is queued while a handshake
  completes, datagrams are lost, delayed and reordered. A path must be earned by
  an answer, an endpoint that answers must be found, a datagram must reach the peer
  it is for.
- **Device start and drop.** What start has taken must be given back wherever it
  fails; a drop only tells tasks to abort and leaves the route to one more task, so
  the host may still be occupied when a `Device` is gone.
- **UDP NAT.** Four NAT types, preferred ports that collide, a pool that runs
  out. Replies must come back, nothing uninvited may come in. Workers on several
  threads open the sockets of shared ports between two sections of a lock, and must
  all learn that the NAT is dropped, also those spawned afterwards.
- **Topology.** Calls overlap at every `await`, and fail half-way. A host must
  not miss its gateway; an address must not be given twice; what LANs and routers
  record must agree.
- **Routes.** Every router is searched from separately, in the arbitrary order
  of hash maps. Routes must fit together, also after changes and failed calls.
- **Executor.** Atomics read while others change them, nested jobs, panics and a
  drop that joins threads. Every accepted job must get its result.

`PROJECT.json` lists these dangers line by line under `hazards`, with the
properties that cover each.

## 2. The modules

    Leases            abstract: slots leased to owners, for good or until a reset
      Coordinator     implements Leases (addresses to devices)
        PeerSync      Coordinator composed with the devices that listen to it
      NatTable        implements Leases (ports to mapping keys)
        UdpNat        NatTable composed with the sockets and workers around it
      Attachment      implements Leases (LAN addresses to attachments)
    PeerTable         one device's table in detail
    DeviceRuntime     one device's tasks, its table in outline, and the network
    DeviceLife        what devices take from their host, from start to drop
    Converge          routes of the test network
    NamespaceExecutor

`MC*.tla` give the constants of the runs. `PeerSyncProofs` (of `Coordinator` and
`PeerSync`), `PeerTableProofs`, `DeviceRuntimeProofs`, `DeviceLifeProofs`, `UdpNatProofs`
(of `NatTable` and `UdpNat`), `AttachmentProofs`, `ConvergeProofs` and
`NamespaceExecutorProofs` hold the theorems. A definition with the
comment "Mutant" is a wrong version of the one that follows and is used by nothing;
it documents a bug that the properties would find.

### Coordinator
`peers` is the map of the registry, `events` all that was ever published (the
channel is its last `Capacity` elements), `streams[s].next` the position of the
receiver, `wire[s]` what the connection holds. `calls[c]` is a handler between
the release of the lock and its publication. `Register` and `Publish` are the
two halves of `register`; `Refuse` is every error. A stream is `Subscribe`,
then `Snapshot` or `Reject`, then `Receive`, or `Lag` and `Resync`. The
environment loses connections (`Drop`) and restarts the process (`Restart`).
The addresses of a `DeviceInfo` are always one `/32`, so it is one field; its
endpoints are a set because the code removes duplicates and nothing at the
coordinator depends on their order.

### PeerSync
Adds to each coordinator action what the device does with it. `client[s]` is the
stage of `Device::start` and its event task, `table[s]` the keyed content of its
peer table. A rejection or an error event ends the task for good, as in the code, and so
does an error of the task itself (`TaskFails`: the table does not take the event, or a
probe cannot be sent); a `start` may also fail after it has registered. A lost connection
is reopened by the event source. `WillKnow` says what a device will
know once it has read what is on the wire: the last event that concerns a key decides,
as applying them in turn would.

### PeerTable
`peers[k]` has the index, the identity of the tunnel, the info and the paths.
The loop of `replace` is one action. `Taken` are the infos before the first without an
endpoint, at which it returns (`ReplaceStops`): known peers are updated in place, so
those updates stay. `Indexes` are drawn one after the other from the peers already
moved. `Instant::now` is a clock that may stand still between
two readings.

### NatTable
`mappings`, `ports` and `next_port` are those of `NatTable`; `sent` is history.
`AllocatePort` says which port the scan finds, by distance from `next_port`. `Turns` is
the loop of the code, turn by turn; that both find the same is `ScanIsLoop`.

### UdpNat
Extends `NatTable` and adds the tasks around it. `private[w]` is where the worker of a
relayed port is between `recv` and `send`: translating, looking a socket up, binding
one, inserting it, spawning its reader, each a step because the code takes a lock or
awaits there. `public_sockets` is the shared map, `public` the readers. A socket is
open while someone holds it, so `Bound` is derived. A socket may refuse to send: then the
packet is dropped, and an answer that was let in goes to `failed`. `shutdown` is the watch channel:
`Drop` sends, a `start` that fails closes it; both stop a worker that looks.

### DeviceRuntime
`phase` and `events` are `Device::start` with its probes and then the peer event task,
`inbound` the inbound task from `recv` through the three ways of finding a peer
(`ReceiveFound`, by endpoint or index; `Try`, one tunnel after the other) to `Confirm`,
`Drain`, `ProbeSource` and `RecordSource`. The outbound task (`Encapsulate`) and the
timer (`UpdateTimers`) touch shared state once in a turn, so each turn is one action.
`UserProbe` and `UserRecord` are `probe_peer` and `probe_peer_endpoint`. Peers are kept
by identity, as tasks keep an `Arc<Peer>` across a replacement of the table. Tunnels and
remote devices are external and may do whatever WireGuard lets them: a tunnel under load
answers any datagram of a handshake with a cookie, and may refuse an answer to an
initiation that a later probe has replaced. `AllPeers` and `Filled` are what the loops of
`replace` and `upsert` make of the peers and the table, for infos in any order, with the
`Indexes` drawn on the way. `EndpointsToProbe` keeps the places of the endpoints in the
info, of which the least is probed next. `heard`, `cookied`, `late`, `missed` and
`shuffled` are history. A behaviour has one of the `Scenarios`, the things that may happen
in it, and `InfosIn` says what the coordinator may tell in each.

### DeviceLife
`stage[c]` is how far the caller's `Device::start` has got. `holders[c]` is who has an
`Arc<WireGuardIo>`: the last to let go closes the interface, which takes its route with
it, and the socket. `deleting` has the interface indexes whose routes a task spawned by
a dropped guard will delete. `SpawnFails` is every failure after the guard exists,
`AddRouteFails`, `OpenTunFails` and `RegisterFails` those before; cancelling `start` is one of them.

### Converge
`topology` is `NetState`, read once by `TakeSnapshot`. A search is one action for
each LAN of each router it looks at; hash map order is an existential. `updates`
are the deletions and additions of each router in order, applied one at a time;
`Fail` ends the call after any number of them. The reference for the result is written
independently of the search: `InReach(t, r, l, n)` says that a router within `n` hops of
`r`, over routers that lead on, exports `l`, and `Packet(r, l)` where a packet is after
each hop of the routes. Both are recursive functions over numbers of hops. Routers are
finitely many, as they are in a `NetState`.

### Attachment
Each critical section and each `await` of `join_host`, `attach`, `set_gateway`,
`enable_masquerade` and `enable_udp_nat` is a step, and each `await` may fail;
`calls[c].stage` is where a call is, `calls[c].lan` the LAN it is attaching to.
`interfaces`, `default_route` and `nft` are the kernel's. What the calls do, `job`,
is chosen in `Init` from the workloads of `MCAttachment`. `holder` is history: which
attachment (a call and a LAN) was given each address.

### NamespaceExecutor
`call` is the `spawn_blocking` that holds the mutex of the worker list; every load
of a pending counter and every update of one is a step. `workers[w].thread` is
where the worker's loop is; `jobs` and `running` belong to the runtime thread.
`inner`, chosen in `Init`, says which job spawns which and waits for it.

## 3. The runs

| run | instance | shows |
|---|---|---|
| `coordinator` | 3 devices, 3 keys, 2 addresses, 2 handlers, overlapping requests of one device, keys that change, one stream on a channel of 1, 3 registrations, 1 lost connection, 1 restart | `UniqueAddresses`, `UniqueKeys`, and that the registry implements `Leases` (`LeasesSpec`) |
| `sync_safety` | 3 devices of which 1 listens, a channel of 1, a wire of 2, 4 registrations, 1 lost connection | `Announced`, `NoUpdateLost`, `UnambiguousTable`, `QuietTableIsExact` |
| `sync_live` | 2 devices of which 1 listens, 3 registrations, 1 lost connection, 1 restart | `Converges`, `OnlyRestartRefuses` |
| `table` | 2 peers, 2 endpoints, 3 tunnels, clock 0 to 1 | `CollisionsNeedOrder` (snapshots in any order), `PeersKeepSessionsAndPaths`, `PathStages`, `SelectionDetermined` |
| `table_indexes` | 2 peers, snapshots in any order | that `IndexesUnique` is **violated**, see section 5 |
| `runtime` | 2 devices with 3 endpoints, one of them advertised for both, and a dead one, 2 tunnels, 1 datagram in flight, 8 scenarios | `PathsEarned`, `HeardHavePaths`, `MissesExplained`, `QueueDrained`, `EndpointsFound` |
| `device_life` | 3 callers, two with one interface name, all with one port, 2 faults, 2 pending deletions | `RunningConnected`, `NothingLeaks`, `RetrySucceeds` |
| `nat_table` | all 4 NAT types, 4 sources, 3 remotes, 3 dynamic ports | `RepliesReturn`, `InboundWasInvited`, `PortPerNatType`, `ScanIsLoop`, `PortsPermanent` |
| `udp_nat` | all 4 NAT types, 2 relays, one port that is free and one that is taken, 3 packets, 1 answer that is let in and not sent on | `LossesExplained`, `AnswersArrive`, `EverythingStops` |
| `attachment` | 4 workloads of 4 calls, 3 addresses, any await may fail | `GatewayReachesHosts`, `AddressesWork`, `RecordsAgree`, `MasqueradeKept`, `AddressesLeased` |
| `converge` | every topology of 3 routers and 3 LANs, 2 calls, 1 `attach` or `enable_masquerade` between or during them; a ring of 4 routers with a LAN behind one, at most 1 masqueraded attachment, 1 call | `RoutesExactly`, `ShortestPaths` |
| `executor` | 3 jobs alone or 2 nested, 2 workers, 2 tasks | `PendingCounts`, `QueuesOnlyWhenFull`, `JobsResolve`, `DropEnds` |

Why the bounds are enough for the interesting cases:

- With a channel of one update, any second update overruns a stream that has not
  read: lag, resynchronisation and the replay of updates older than the snapshot
  all occur. Three registrations make a lag, a resynchronisation and one more
  update possible; the fourth adds a second lag.
- With two addresses and three devices the pool runs out; two handlers are enough
  for every pair of concurrent requests, since a handler shares nothing else.
- In `runtime` two peers are enough for a datagram to be offered to the wrong tunnel and
  for a table to lose and regain a peer, and each device's second endpoint lets it be
  heard from where it was not told. One datagram in flight already overtakes the record
  of the probe it answers, and the next is sent while the first is handled. The second
  device may be told by the first one's endpoint, and snapshots come in any order, so
  both ways to mislead a lookup occur. What may
  happen is split into scenarios because all of it together is out of reach; each names
  the pair or triple of happenings that meet in one piece of state. The coordinator tells
  shared endpoints in the scenarios with `events`, in which the table changes.
- In `device_life` a name is shared by two callers and not by the third, so that each of
  name, route and port is at some time the only thing that is busy. Two deletions may be
  late at once, one of them of a device that has been replaced twice.
- The NAT's three dynamic ports wrap around and run out; two sources prefer the
  same one, one has a port outside the range and one has none. In `udp_nat` cone NATs
  give both relays one port, which their workers race for, and a symmetric NAT a second
  one, whose socket cannot be opened.
- Routes that circle, or that are longer than necessary, need a choice between two
  ways round: the ring of four is the smallest topology that has one. Everything
  else shows with three routers, and there every topology is looked at.
- Two workers and three jobs force a job to queue; a second worker is there for
  the inner job of the nested pair.
- In `attachment` the pool is one address short of what the joins need, and each workload
  brings together calls that share a host, a LAN, a router's rules or a router's address.

`CHECK_DEADLOCK FALSE` stands where a system may stop: when nothing is left to
register, call, change or run within the bounds. `nat_table` never stops and checks
for deadlock.

Devices, keys, addresses, handlers and endpoints are symmetric where a run checks
no liveness; subscribers are not, nor are endpoints of `PeerTable`, which it orders.
The three routers and LANs of `converge` that take every topology are symmetric.

## 4. Fairness

- `PeerSync`: handlers that hold a publication publish; a device whose event source
  is disconnected connects; a stream and a device's event task go on whenever they
  can. All are tasks of a tokio runtime that wait for nothing else. Registrations,
  lost connections, restarts and errors of the devices' own tasks are not fair: they may stop. `WireCap` is
  backpressure of a connection, which the device's fair reading relieves.
- `NamespaceExecutor`: the caller that holds the mutex, each thread, the body of
  each job and a drop that has begun go on. Async tasks are *not* fair: they may
  never end, and `DropEnds` holds nevertheless because the runtime cancels them.
- `DeviceRuntime`: the event task (`Probing`) and the inbound task (`Inbound`) go on when
  they can; both are tokio tasks that wait for nothing but the socket. Remote devices,
  the network, the user and the timer owe nothing; that a remote device answers a probe
  is part of the probe's delivery and only assumed in the calm scenario.
- `UdpNat`: what a worker has begun it ends, a socket's datagrams come in turn, a reader
  looks at its channel. A private worker gets strong fairness for looking at the channel:
  packets may come all the time, but `select!` chooses at random among what is ready. No
  one is obliged to send or to drop the NAT.
- `DeviceLife`: the coordinator answers, a caller that failed tries again, the runtime
  drops aborted tasks and runs the deletions. That callers try again is what the property
  asks about; that no one is obliged to drop a device is why it excuses a running one.
- The other modules state safety only and assume no fairness.

## 5. What the code does otherwise

`table_indexes`: `PeerTable::replace` draws the index of a new peer from the peers
already moved to the new table (`core/src/device/peer.rs:321`), not from all. A
snapshot that names a new peer before a known one, which the coordinator's walk of a
`HashMap` may produce, gives both the same index, and `find_by_index` then finds
either of them. The test at `peer.rs:639` expects an index of its own for each peer,
and only replaces an empty table. The run `table` shows, and `OnlyOrderCollides`
proves, that nothing else makes two indexes collide.

## 6. Named restrictions

Each is a constant, an instance or a guard that excludes a behaviour of the code. Where it
is a constant that protects a property, TLC finds that violated with its other value, so
these are also facts about the code:

- `Overlapping = FALSE` (`sync_*`): registrations of *one*
  device do not overlap. If they did, they might publish in the wrong order and
  `Announced`, `NoUpdateLost`, `QuietTableIsExact` and `Converges` fail. The device of this repository
  registers once.
- `KeyRotation = FALSE` (`sync_*`): a device keeps its key. Otherwise the upsert of
  its new key leaves the entry of its old one in every table until the next snapshot,
  and `UnambiguousTable` and `QuietTableIsExact` fail.
- `SerialMasquerade = TRUE`: two `enable_masquerade` calls of one router that overlap
  may replace each other's rules.
- Nested jobs have a worker for each (`executor`): with all workers busy an inner job
  may be queued behind the job that waits for it. The code allows 512.
- `DeviceRuntime`: a remote device keeps no state, so it answers every initiation that
  reaches it; a user probes a device at what is selected or one of `UserEndpoints`. With a
  shared endpoint, or after a shuffled snapshot, the first lookup may find the wrong
  peer, whose tunnel refuses the datagram, and it is dropped: `MissesExplained` says that
  this happens for no other reason. `EndpointsFound` speaks of the calm scenario only, as a
  lost probe is repeated by nobody but the user; even there an endpoint is not found whose
  answer went to another peer (`missed`), or came after the next probe had replaced the
  initiation (`late`). A cookie, which a tunnel does not verify, may pass for an answer and
  open a path; `PathsEarned` says how far.
- `UdpNat`: at most `MaxFailed` ports and remotes have an answer that is let in and not
  sent on; `AnswersArrive` excuses those.
- `DeviceLife`: at most `MaxPending` deletions wait at once, and callers drop devices
  while no more do. The coordinator's addresses, one of which every attempt to start uses
  up, are not part of it.
- Guards with no property behind them: `Converge` attaches a LAN only to a router without
  a static route to it, and only while no call applies its updates, since which route then
  wins is the kernel's choice; it also says nothing of firewalls: a masquerading router on
  the way drops new connections.
- `Attachment.AttachNode` is three awaits of the code in one: forwarding, the veth pair and
  its port. No other step of the model reads what they change before the attachment
  has its address, and a failure of any of them is a failure of the action.

## 7. What is proved

Proofs hold for every value of the constants that satisfies the named assumptions.

**`PeerSyncProofs`**, first of the coordinator alone, from the assumptions that
`Coordinator` names:
- `TypeCorrect`: each action preserves `TypeOK`; `RegisterFiles` says that a
  registration files the device under its own id and changes no other entry.
- `AddressesAlwaysUnique`, `KeysAlwaysUnique`: `RegistryInv`, types with uniqueness,
  is inductive. `RegistrySteps` reduces all steps to three: the registry is as
  before, has one more or one changed entry whose address and key were free or its
  own, or is empty after a restart.
- `AddressesAlwaysStable`: from the same three kinds of steps.
- `CoordinatorImplementsLeases`: under the mapping that makes the registered device
  with an address its holder, a first registration is a `Lease`, a restart a `Reset`
  and everything else a stutter. Uniqueness is what makes the mapping well defined.
- `StreamsAlwaysOfRegistered`: a stream past its snapshot is of a registered device,
  so the error branch of the resynchronisation is dead code in a process that never
  unregisters.
- `CoordinatorAnnounces`: under `~Overlapping`, the last announcement of a device is
  its current registration unless that is still in a handler. The induction needs that
  at most one handler holds a registration of a device, and that it is the current one.

**`UdpNatProofs`**, first of the table alone: `IInv` joins types, `MapsAgree`, that each mapping belongs to the
source of its key, and that each packet that was sent is among the contacts of its
mapping and each contact was sent. It is inductive (`NextIInv`), and `MapsAlwaysAgree`,
`RepliesAlwaysReturn`, `InboundAlwaysInvited`, `PortAlwaysPerNatType` and
`PortsAreLeasedForGood` follow from it. `AllocatedPortIsFree` is the one fact about the
allocation they need. `ScanIsAlwaysLoop` is an induction over the turns of the loop
(`LoopFindsFirst`): until it finds a port it has met only ports in use, in the order of
`Distance`, and after as many turns as there are dynamic ports it has met all.

Then of the NAT with its workers, for any relays and packets: `NatImplementsTable`, since
a worker's step is one of the table or none; `NatInv` adds that whoever has a public socket
in hand, worker or reader, has it in the shared map (`SocketsKnown`), until the last private
worker has stopped. `LossesAreExplained` is what remains when a bind fails: another program,
or a worker between `bind` and `insert`. `DeliveriesAreInvited`: what reached the peer was
invited when the table let it in, and what was sent stays sent. `AnswersAreServed` is the
safety half of `AnswersArrive`: whatever left, or is in a worker's hands, is recorded as
sent (`SentOut`), so its answer is let in; and while the NAT runs every socket of the map
has a reader or a worker about to spawn it, and every socket used is in the map
(`SocketsRead`).

**`AttachmentProofs`**, for any nodes, LANs, pool and workload: `AttachInv` says for each
stage what a call has achieved by then (`Achieved`: what it has recorded, that it has an
address, whether it may be a join), that addresses were given in order and a call that
may yet be given one has none in that LAN (`Given`), and that while a call has a router's
rules in hand no other call of that router changes them (`OneAtATime`).
`QuietPreserves` covers every step that only adds records; the steps that give an
address, start, turn to a second LAN or replace rules have lemmas of their own. From it
follow `AddressesAreLeasedForGood`, `RecordsAlwaysAgree` and `MasqueradeAlwaysKept`, the
last if a router's calls do not overlap.

`AddressesAlwaysWork` and `GatewayAlwaysReachesHosts` add to it. `WorkInv`: from the stage
after `assign` on, the address in a call's hands is on an interface of its node to its
LAN (`HasAddresses`), each recorded address is on one (`RecordsWork`), and an interface
that has an address is not that of an attachment under way (`Assigned`), so assigning one
takes none away. `GatewayInv`: every host a LAN knows has a default route, or a join is
about to install it, or has failed to, or every `set_gateway` that has recorded its
gateway listed that host (`Reached`); and a `set_gateway` that is done has given a route
to every host of its list (`Routed`). Of a join and a `set_gateway` that overlap, one sees
the other.

**`DeviceLifeProofs`**, for any callers, names and ports: `LifeInv` says what is held in
each stage, that interfaces differ in index and name and sockets in port, that whoever
got past `add_route` has the only route, and that no pending deletion names the interface
of a device that has, or is about to have, it. `RunningAlwaysConnected` follows. The one
step where it matters that the kernel refuses a second route is `AddRoutePreserves`.
`NothingEverLeaks` adds `Remains`: a dropped device has its interface only as long as one of
its tasks holds it, since whoever lets go last closes it, and every route is that of an
interface that got past `add_route`. It is the safety part of `RetrySucceeds`.

**`PeerSyncProofs`**, then of the composition, for any devices, channel, wire and number
of restarts:
- `RefusalsNeedRestart`: before the first restart, a device that has registered
  stays registered, so neither its subscription nor its stream can be refused. What ends
  its stream besides is an error of its own.
- `NoUpdateIsLost`, under `~Overlapping`: `DeliveryInv` joins the property with
  `Announced`, the order of the channel (an update of a key's former holder is followed by
  one of its present holder, `KeysHandedOver`) and that a snapshot on the wire names no
  key twice. `WillKnow` follows an update from the channel over the wire into the table.
  It holds with `KeyRotation` and through restarts too, where the runs do not go.
- `TablesStayUnambiguous`, under `~KeyRotation`: all that is in a handler, in the channel
  or on the wire is recorded at the registry under the same id, key and address
  (`SentRecorded`), and so is each table; or the table is from before a restart, and a
  snapshot will replace it before any update reaches it (`BehindSnapshot`).
- `QuietTablesAreExact`, under `~Overlapping` and `~KeyRotation`: the two invariants above
  together give what `Converges` must end in. By the one every current registration is in
  a table that has nothing on its way, by the other each entry is recorded under the
  device's present key, and no device is there twice, so there is nothing else.
- `CompositionAnnounces`, `CompositionImplementsLeases`: `Announced` and the leases of the
  composition, from the coordinator's lemmas. They do not come for free: a device that
  gives up its stream (`SyncDeliver`, `TaskFails`) is a step that the coordinator alone does not take.

**`PeerTableProofs`**, for any peers, endpoints and lists:
- `OnlyOrderCollides`, for snapshots in any order: indexes are bounded (`IndexBound`), so
  there is a greatest one and `next_peer_index` exceeds all in use. `IndexesSolve` shows
  that the recursive `Indexes` has a solution, and `IndexesFollow` that a new peer's index
  exceeds those before it; both are inductions over places, by a least counterexample. What
  follows a new peer may only collide with it if it is known (`SnapshotExcuses`).
- `PathsGoThroughStages`: `StagesInv` adds that no probe lies in the future, or a latency
  could be negative.
- `SessionsAndPathsAreKept`: because of the stages, every recorded path has runtime state
  and `remove_stale_paths` removes none (`UpdateKeeps`).
- `SelectionAlwaysDetermined`: reachable paths have a latency and a time, so one comes
  before all others (`BestPath`).

**`DeviceRuntimeProofs`**, for any devices, infos, endpoints, scenarios and numbers of
peers and datagrams:
- `EventFills` says what a snapshot or an update makes of the peers and the table; the rest
  uses only that. It needs that the recursive `Indexes` has a solution (`IndexesSolve`) and
  where its values collide (`IndexesFollow`).
- `PathsAreEarned`: `EarnedInv` says the same of every endpoint that a task has in hand:
  the endpoints to probe were told, a user's probe was told or earned, and what the
  inbound task may confirm was earned, by a verified datagram or a cookie.
- `VerifiedEndpointsHavePaths`: a heard endpoint without a path is the one that the
  inbound task works on and has not given up (`HeardInv`). A tunnel that is tried can
  accept no more than an initiation, since the lookup by index has failed: that is why
  what it accepts always confirms, and why the invariant remembers whose index the
  datagram has, although the table changes while the trial goes on.
- `MissesAreExplained`, for any endpoints and orders: a peer found by endpoint has been told
  of it or has earned it (`EarnedInv`), and one found by index is the sender's unless some
  snapshot was shuffled (`IndexInv`). Both explanations, once true, stay so
  (`HistoryGrows`).
- `QueuedPacketsLeave`: only the inbound task brings a session up, and it goes on to the
  drain of that peer.

**`NamespaceExecutorProofs`**, for any workers, jobs and tasks: `ExecutorInv` says that the
caller who holds the mutex looks for the least loaded worker only when the list is full,
and that until then no worker has more than one job, the one about to be sent to it
included. `CountersAreTrue` and `JobsQueueOnlyWhenFull` follow. `KeptInv` adds that whoever
waits for a result has someone to give it: its caller, a worker, the runtime's queue or the
runtime (`Held`); and what each stage of the drop leaves behind (`DropInv`). That gives
`WaitingAlwaysHeld` and `DropAlwaysResolves`, the safety parts of `JobsResolve` and
`DropEnds`: a thread that has exited has an empty queue, because nobody sends once the drop
has begun and a thread exits only when its sender is gone and its queue empty.

**`ConvergeProofs`**, for any finite set of routers, any LANs and topologies, and any number
of calls, changes and failures:
- `IInvariant`: `IInv` has a part for each stage. During a search, what was visited and is
  not in the queue has been explored and its neighbours visited (`Explored`); the search is
  breadth first (`BreadthFirst`); and the gateway of a router in the queue is the first hop
  of a shortest way to it (`FirstHops`). Distances are never named: a router is as near as
  another (`AsNear`) when it is within every number of hops that the other is within, and
  the queue is in that order, from end to end at most one hop further (`NextTo`). For the
  updates, deletions precede additions (`DeletesFirst`), an addition is a route a search
  found (`AddsGood`), and what is not applied yet is promised for every LAN that the
  snapshot wants a route to (`Promises`). The whole was checked with TLC first, on all
  topologies of 3 routers and 3 LANs with 1 call and 1 change, on rings of 4, and with 2
  calls and 2 changes on 3 routers and 2 LANs.
- `GatewaysAreOnLink`: `OnLink` is part of `IInv`, in the middle of calls and after failed
  ones.
- `RoutesAreExact`: a search that ended has found all there is (`SearchFindsAll`), and all
  there is is within as many hops as there are routers (`ReachIsBounded`, a pigeonhole
  argument: an empty ring of hops ends the search for good).
- `PathsAreShortest`: each router's route leads to a router that is one hop nearer
  (`FirstExporterIsNearest`), although the two were searched from in different orders;
  `PacketHops` is the induction along the way.

`LeastNumber`, `AllNumbers` and `Iterates` stand in for the library's induction theorems,
which have an operator as parameter: a least counterexample, an inductive *set* of numbers,
and that a function defined by its predecessor exists.

`AddressesAlwaysStable`, `StreamsAlwaysOfRegistered`, `DeliveriesAreInvited`,
`AnswersAreServed`, `WaitingAlwaysHeld`, `DropAlwaysResolves`, `GatewaysAreOnLink`,
`NatImplementsTable`, the types of the coordinator and of the NAT table and its
`MapsAlwaysAgree` are proved and not part of a run.

**Only model-checked**: liveness (`Converges`, `JobsResolve`, `DropEnds`, `EndpointsFound`,
`AnswersArrive`, `EverythingStops`, `RetrySucceeds`), which TLAPS does not do under
fairness. Every invariant and every action property of the runs is proved.

## 8. What is not modelled

- `GET /devices/{id}/peers`: it only reads.
- The choice of local endpoints (`device/coordinator.rs`): a pure filter of the host's
  interfaces, input to the registration.
- Latencies together with the tasks: `PeerTable` has them and which path is selected,
  `DeviceRuntime` takes any reachable path.
- The packet trait, and the TUN device and routes on systems other than Linux, where
  `start` only fails.
- Creating hosts, LANs, routers, namespaces and veth pairs: each happens before anybody
  can refer to it. Entering and restoring a thread's namespace (`network/netns.rs`), the
  start of the executor's runtime, `Host::assert_can_reach` and the text of nftables rules:
  input, output and constants without a state of their own.
- The end of the tokio runtime under a running device, but for `DropDevice(c, FALSE)`,
  which leaves the route's deletion undone.
- Which of two routes to one LAN the kernel prefers (`net.rs:234`).
- CLI, app and web: stubs at this commit.

## 9. Plan

The order puts what the whole system depends on first; all but the last are done.

1. `Leases`, `Coordinator` and its proofs.
2. `PeerSync`, the composition with devices.
3. `PeerTable`; `NatTable` and its proofs.
4. `Converge`; `Attachment` and its proofs.
5. `NamespaceExecutor`.
6. `DeviceRuntime`.
7. `DeviceLife` and its proof.
8. `UdpNat`.
9. `Attachment` with `Converge`: `RecordsAgree` is what `Converge` assumes of the records
   and is proved; a joint run would add calls of `converge` to the workloads.

The liveness properties rest on safety steps that are proved: `QuietTablesAreExact` for
`Converges`, `WaitingAlwaysHeld` and `DropAlwaysResolves` for `JobsResolve` and `DropEnds`,
`AnswersAreServed` for `AnswersArrive`, `NothingEverLeaks` for `RetrySucceeds`, and for
`EndpointsFound` the theorem about `HeardHavePaths`. Still worth proving is such a step for
`EverythingStops`: that every worker that is alive after the shutdown has it still to see.
