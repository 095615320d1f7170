---------------------------- MODULE Coordinator ----------------------------
(***************************************************************************)
(* The coordinator process: the registry of devices behind one RwLock, the *)
(* broadcast channel of peer updates, and one server-sent-event stream per *)
(* subscribed device (core/src/coordinator).                               *)
(*                                                                         *)
(* A registration changes the registry under the write lock and announces  *)
(* the change on the channel after the lock is released; a stream          *)
(* subscribes to the channel first and reads its snapshot of the registry  *)
(* afterwards.  Each of these is an action of its own, so every            *)
(* interleaving of handlers is here.  Everything a handler does while it   *)
(* holds the lock contains no await and is one action.                     *)
(*                                                                         *)
(* Data: a device id, a key, an address and an endpoint are opaque values. *)
(* The code keeps a vector of addresses that always holds exactly one /32, *)
(* here `address`; the endpoint list is kept as the set of its members.    *)
(***************************************************************************)
EXTENDS Integers, Sequences, FiniteSets

CONSTANTS
    Devices,           \* device ids
    Keys,              \* WireGuard public keys
    Addresses,         \* the addresses of LATTIS_NETWORK (2^22 in the code)
    Endpoints,         \* socket addresses
    EndpointLists,     \* the endpoint lists a request may carry
    Calls,             \* concurrent POST /devices/register handlers
    Subscribers,       \* the devices that open an event stream
    NoCall,            \* an idle handler
    Free,              \* the holder of an address nobody leases
    Capacity,          \* of the broadcast channel (128 in the code)
    WireCap,           \* events a connection buffers before the stream waits
    Overlapping,       \* may two registrations of one device be in flight?
    KeyRotation,       \* may a device register again with another key?
    MaxRegistrations,  \* bound: registrations per life of the process
    MaxRestarts,       \* bound: restarts of the process
    MaxDrops           \* bound: connections lost

ASSUME CapacityAssumption == Capacity \in Nat \ {0} /\ WireCap \in Nat \ {0}
ASSUME ListsAssumption == EndpointLists \subseteq Seq(Endpoints)
ASSUME SubscribersAssumption == Subscribers \subseteq Devices
ASSUME FreeAddressAssumption == Free \notin Devices
ASSUME FlagsAssumption == Overlapping \in BOOLEAN /\ KeyRotation \in BOOLEAN
ASSUME BoundsAssumption ==
    MaxRegistrations \in Nat /\ MaxRestarts \in Nat /\ MaxDrops \in Nat

VARIABLES
    peers,     \* the registry: registered device id -> DeviceInfo
    calls,     \* handler -> NoCall, or the registration it is to publish
    events,    \* every peer update published, in channel order
    streams,   \* subscriber -> the server side of its event stream
    wire,      \* subscriber -> events sent and not yet read, first first
    restarts,  \* how often the process was restarted
    drops      \* how many connections were lost

vars == <<peers, calls, events, streams, wire, restarts, drops>>

DeviceInfo == [device_id : Devices, public_key : Keys,
               address : Addresses, endpoints : (SUBSET Endpoints) \ {{}}]

\* What a handler carries from the locked section to its publication.
Registration == [device : DeviceInfo, peers : SUBSET DeviceInfo]

ASSUME NoCallAssumption == NoCall \notin Registration

StreamStates == {"closed", "subscribed", "streaming", "lagged", "ended"}
StreamInfo == [state : StreamStates, next : Nat \ {0}]

\* A server-sent event; the answer 400 stands in the same queue.
SSE == [kind : {"peers", "peer", "error", "rejected"}, peers : SUBSET DeviceInfo]

Registered == DOMAIN peers
-----------------------------------------------------------------------------
(* The pure helpers of registry.rs.                                        *)

\* An empty list is refused; duplicates in a list collapse.
ValidRegistration(list) == list # <<>>
DedupEndpoints(list) == {list[i] : i \in DOMAIN list}

\* Mutant: a device that registers again may take another device's key.
PublicKeyUnused(d, k) ==
    d \in Registered \/ \A p \in Registered : peers[p].public_key # k

PublicKeyAvailable(d, k) ==
    \A p \in Registered : p # d => peers[p].public_key # k

UsesVirtualAddress(a) == \E p \in Registered : peers[p].address = a

\* Mutants: a new device draws any address; a known one draws a new address.
AnyAddress(d) == IF d \in Registered THEN {peers[d].address} ELSE Addresses
NewAddress(d) == {a \in Addresses : ~UsesVirtualAddress(a)}

\* A known device keeps its address; a new one draws any unused address.
PeerAddresses(d) ==
    IF d \in Registered THEN {peers[d].address}
                        ELSE {a \in Addresses : ~UsesVirtualAddress(a)}

Insert(ps, d, info) ==
    [p \in DOMAIN ps \cup {d} |-> IF p = d THEN info ELSE ps[p]]

\* Mutant: the device is not left out of its own list.
AllPeers(ps, d) == {ps[p] : p \in DOMAIN ps}

\* The other devices' infos, as a registration response or a snapshot.
CollectPeersFor(ps, d) == {ps[p] : p \in DOMAIN ps \ {d}}
-----------------------------------------------------------------------------
Init ==
    /\ peers = [d \in {} |-> {}]
    /\ calls = [c \in Calls |-> NoCall]
    /\ events = <<>>
    /\ streams = [s \in Subscribers |-> [state |-> "closed", next |-> 1]]
    /\ wire = [s \in Subscribers |-> <<>>]
    /\ restarts = 0
    /\ drops = 0

Pending == {c \in Calls : calls[c] # NoCall}
PendingOf(d) == {c \in Pending : calls[c].device.device_id = d}

\* Handler c runs the locked section of `register` for device d.
Register(c, d, k, list) ==
    /\ calls[c] = NoCall
    /\ Len(events) + Cardinality(Pending) < MaxRegistrations
    /\ Overlapping \/ PendingOf(d) = {}
    /\ KeyRotation \/ (d \in Registered => peers[d].public_key = k)
    /\ ValidRegistration(list)
    /\ PublicKeyAvailable(d, k)
    /\ \E a \in PeerAddresses(d) :
         LET info == [device_id |-> d, public_key |-> k, address |-> a,
                      endpoints |-> DedupEndpoints(list)]
             inserted == Insert(peers, d, info)
         IN  /\ peers' = inserted
             /\ calls' = [calls EXCEPT ![c] =
                  [device |-> info, peers |-> CollectPeersFor(inserted, d)]]
    /\ UNCHANGED <<events, streams, wire, restarts, drops>>

\* The handler is answered with an error and leaves no trace: no endpoint,
\* a key another device uses, or no address found.  An address is drawn at
\* random a bounded number of times, so a draw can fail as soon as one
\* address is in use.
Refuse(c, d, k, list) ==
    /\ calls[c] = NoCall
    /\ \/ ~ValidRegistration(list)
       \/ ~PublicKeyAvailable(d, k)
       \/ d \notin Registered /\ \E a \in Addresses : UsesVirtualAddress(a)
    /\ UNCHANGED vars

\* Mutant: the handler answers without announcing.
AnswerOnly(c) ==
    /\ calls[c] # NoCall
    /\ calls' = [calls EXCEPT ![c] = NoCall]
    /\ UNCHANGED <<peers, events, streams, wire, restarts, drops>>

\* The lock is released; the handler announces the update and answers.
Publish(c) ==
    /\ calls[c] # NoCall
    /\ events' = Append(events, calls[c].device)
    /\ calls' = [calls EXCEPT ![c] = NoCall]
    /\ UNCHANGED <<peers, streams, wire, restarts, drops>>
-----------------------------------------------------------------------------
(* GET /devices/{id}/peers/events.                                         *)

\* The channel retains the last Capacity updates.
Oldest == IF Len(events) > Capacity THEN Len(events) - Capacity + 1 ELSE 1

PeerEvent(info) == [kind |-> "peer", peers |-> {info}]
PeersEvent(s) ==
    IF s \in Registered
    THEN [kind |-> "peers", peers |-> CollectPeersFor(peers, s)]
    ELSE [kind |-> "error", peers |-> {}]
Rejection == [kind |-> "rejected", peers |-> {}]

Send(s, event) == wire' = [wire EXCEPT ![s] = Append(@, event)]
HasRoom(s) == Len(wire[s]) < WireCap

\* The handler subscribes to the channel before it reads the registry.
Subscribe(s) ==
    /\ streams[s].state = "closed"
    /\ streams' = [streams EXCEPT ![s] =
                     [state |-> "subscribed", next |-> Len(events) + 1]]
    /\ UNCHANGED <<peers, calls, events, wire, restarts, drops>>

\* It reads its snapshot, the first event of the stream.
Snapshot(s) ==
    /\ streams[s].state = "subscribed"
    /\ s \in Registered
    /\ streams' = [streams EXCEPT ![s].state = "streaming"]
    /\ Send(s, PeersEvent(s))
    /\ UNCHANGED <<peers, calls, events, restarts, drops>>

\* An unregistered device is answered 400 instead.
Reject(s) ==
    /\ streams[s].state = "subscribed"
    /\ s \notin Registered
    /\ streams' = [streams EXCEPT ![s].state = "ended"]
    /\ Send(s, Rejection)
    /\ UNCHANGED <<peers, calls, events, restarts, drops>>

\* The stream receives its next update; it skips the device's own.
Receive(s) ==
    /\ streams[s].state = "streaming"
    /\ streams[s].next \in Oldest .. Len(events)
    /\ HasRoom(s)
    /\ streams' = [streams EXCEPT ![s].next = @ + 1]
    /\ LET info == events[streams[s].next]
       IN  IF info.device_id = s THEN UNCHANGED wire ELSE Send(s, PeerEvent(info))
    /\ UNCHANGED <<peers, calls, events, restarts, drops>>

\* Its next update was overwritten: the channel moves the receiver to the
\* oldest update it still retains ...
Lag(s) ==
    /\ streams[s].state = "streaming"
    /\ streams[s].next < Oldest
    /\ HasRoom(s)
    /\ streams' = [streams EXCEPT ![s] = [state |-> "lagged", next |-> Oldest]]
    /\ UNCHANGED <<peers, calls, events, wire, restarts, drops>>

\* Mutant: a lag is passed over in silence.
ResumeSilently(s) ==
    /\ streams[s].state = "lagged"
    /\ streams' = [streams EXCEPT ![s].state = "streaming"]
    /\ UNCHANGED <<peers, calls, events, wire, restarts, drops>>

\* ... and the stream sends a fresh snapshot, or an error and ends.
Resync(s) ==
    /\ streams[s].state = "lagged"
    /\ Send(s, PeersEvent(s))
    /\ streams' = [streams EXCEPT ![s].state =
                     IF s \in Registered THEN "streaming" ELSE "ended"]
    /\ UNCHANGED <<peers, calls, events, restarts, drops>>
-----------------------------------------------------------------------------
(* The environment of the process.                                         *)

\* The device reads the next event off its connection.
Deliver(s) ==
    /\ wire[s] # <<>>
    /\ wire' = [wire EXCEPT ![s] = Tail(@)]
    /\ UNCHANGED <<peers, calls, events, streams, restarts, drops>>

\* A connection is lost with what was in flight; the handler's stream and
\* its receiver are dropped.
Drop(s) ==
    /\ streams[s].state # "closed"
    /\ drops < MaxDrops
    /\ streams' = [streams EXCEPT ![s].state = "closed"]
    /\ wire' = [wire EXCEPT ![s] = <<>>]
    /\ drops' = drops + 1
    /\ UNCHANGED <<peers, calls, events, restarts>>

\* The process dies and starts again: nothing is persisted.
Restart ==
    /\ restarts < MaxRestarts
    /\ peers' = [d \in {} |-> {}]
    /\ calls' = [c \in Calls |-> NoCall]
    /\ events' = <<>>
    /\ streams' = [s \in Subscribers |-> [state |-> "closed", next |-> 1]]
    /\ wire' = [s \in Subscribers |-> <<>>]
    /\ restarts' = restarts + 1
    /\ UNCHANGED drops

Handlers ==
    \E c \in Calls :
      \/ Publish(c)
      \/ \E d \in Devices, k \in Keys, list \in EndpointLists :
           Register(c, d, k, list) \/ Refuse(c, d, k, list)

Streams ==
    \E s \in Subscribers :
      \/ Subscribe(s) \/ Snapshot(s) \/ Reject(s)
      \/ Receive(s) \/ Lag(s) \/ Resync(s)
      \/ Deliver(s) \/ Drop(s)

Next == Handlers \/ Streams \/ Restart

Spec == Init /\ [][Next]_vars
-----------------------------------------------------------------------------
(* Properties.                                                             *)

\* Types of the state; every registered device is filed under its own id.
TypeOK ==
    /\ Registered \subseteq Devices
    /\ \A d \in Registered : peers[d] \in DeviceInfo /\ peers[d].device_id = d
    /\ peers = [d \in Registered |-> peers[d]]
    /\ calls \in [Calls -> {NoCall} \cup Registration]
    /\ events \in Seq(DeviceInfo)
    /\ streams \in [Subscribers -> StreamInfo]
    /\ wire \in [Subscribers -> Seq(SSE)]
    /\ restarts \in 0 .. MaxRestarts
    /\ drops \in 0 .. MaxDrops

\* No two registered devices share a virtual address: what routing by
\* destination address on every device relies on (registry.rs:118-141),
\* however many registrations run concurrently.
UniqueAddresses ==
    \A p, q \in Registered : peers[p].address = peers[q].address => p = q

\* No two registered devices share a public key: peer tables are keyed by it
\* (registry.rs:143-155).
UniqueKeys ==
    \A p, q \in Registered : peers[p].public_key = peers[q].public_key => p = q

\* As long as the process lives, a registered device stays registered and
\* keeps its address, whatever it registers again and whatever else happens
\* in between (registry.rs:107-116).
AddressesStable ==
    [][restarts' = restarts =>
         \A d \in Registered :
           d \in DOMAIN peers' /\ peers'[d].address = peers[d].address]_vars

\* A stream that serves a device never meets an unregistered one: the only
\* way into the stream is past the registration check and nothing ever
\* unregisters, so the error branch of the resync (api.rs:105-108) is never
\* taken and no device loses its stream to it.
StreamsOfRegistered ==
    \A s \in Subscribers :
      /\ streams[s].state \in {"streaming", "lagged"} => s \in Registered
      /\ \A i \in DOMAIN wire[s] : wire[s][i].kind # "error"

UpdatesOf(d, from) == {i \in from .. Len(events) : events[i].device_id = d}

\* What the registry holds for a device has been announced last, or is about
\* to be: between the release of the lock and the publication the update is
\* in a handler (registry.rs:51-53).
Announced ==
    \A d \in Registered :
      \/ \E c \in PendingOf(d) : calls[c].device = peers[d]
      \/ \E i \in UpdatesOf(d, 1) :
           /\ events[i] = peers[d]
           /\ \A j \in UpdatesOf(d, 1) : j <= i

\* The coordinator implements the address leases: the holder of an address
\* is the registered device that has it.
holder == [a \in Addresses |->
             IF UsesVirtualAddress(a)
             THEN CHOOSE d \in Registered : peers[d].address = a
             ELSE Free]
AddressLeases == INSTANCE Leases WITH Slots <- Addresses, Owners <- Devices
LeasesSpec == AddressLeases!Spec
=============================================================================
