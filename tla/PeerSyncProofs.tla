--------------------------- MODULE PeerSyncProofs ---------------------------
(***************************************************************************)
(* Proofs about the coordinator, and about the coordinator composed with   *)
(* the devices that listen to it, for any sets of devices, keys, addresses *)
(* and handlers, any number of subscribers, any capacity of the channel    *)
(* and of the connections, and any number of registrations, restarts and   *)
(* lost connections. Where a theorem assumes anything of the clients (that *)
(* no two registrations of one device are in flight) it says so.           *)
(*                                                                         *)
(* Of the composition, a step of a stream or of a device's event task is   *)
(* first described as one listener sees it (Idles, Closes, ..., Fails);    *)
(* the invariants are then preserved listener by listener.                 *)
(***************************************************************************)
EXTENDS PeerSync, TLAPS, SequenceTheorems

\* The effect of a registration on the registry: device d is filed under its
\* info, nobody else is touched.
Files(d, info) ==
    /\ info \in DeviceInfo /\ info.device_id = d
    /\ Registered' = Registered \cup {d}
    /\ peers'[d] = info
    /\ \A p \in Registered \ {d} : peers'[p] = peers[p]
    /\ peers' = [p \in Registered' |-> peers'[p]]

\* The address and the key it is filed under are its own: those it had, or
\* ones no other device uses.
FilesOwn(d, info) ==
    /\ d \in Registered => info.address = peers[d].address
    /\ d \notin Registered => ~UsesVirtualAddress(info.address)
    /\ PublicKeyAvailable(d, info.public_key)

\* The lists requests carry dedup to sets of endpoints, none of them empty
\* once the request is valid.
LEMMA DedupOfValid ==
    ASSUME NEW list \in EndpointLists, ValidRegistration(list)
    PROVE  DedupEndpoints(list) \in (SUBSET Endpoints) \ {{}}
<1>1. list \in Seq(Endpoints) /\ list # <<>>
  BY ListsAssumption DEF ValidRegistration
<1>2. PICK n \in Nat : DOMAIN list = 1 .. n /\ Len(list) = n
  BY <1>1
<1>3. n # 0
  BY <1>1, <1>2
<1>4. 1 \in DOMAIN list
  BY <1>2, <1>3
<1>5. \A i \in DOMAIN list : list[i] \in Endpoints
  BY <1>1
<1> QED BY <1>4, <1>5 DEF DedupEndpoints

\* What the locked section of `register` does (registry.rs:32-51).
LEMMA RegisterFiles ==
    ASSUME TypeOK, NEW c \in Calls, NEW d \in Devices, NEW k \in Keys,
           NEW list \in EndpointLists, Register(c, d, k, list)
    PROVE  \E info \in DeviceInfo :
             /\ Files(d, info)
             /\ FilesOwn(d, info)
             /\ calls' = [calls EXCEPT ![c] =
                           [device |-> info, peers |-> CollectPeersFor(peers', d)]]
<1>1. PICK a \in PeerAddresses(d) :
        LET info == [device_id |-> d, public_key |-> k, address |-> a,
                     endpoints |-> DedupEndpoints(list)]
        IN  /\ peers' = Insert(peers, d, info)
            /\ calls' = [calls EXCEPT ![c] =
                 [device |-> info, peers |-> CollectPeersFor(Insert(peers, d, info), d)]]
  BY DEF Register
<1> DEFINE info == [device_id |-> d, public_key |-> k, address |-> a,
                    endpoints |-> DedupEndpoints(list)]
<1>2. a \in Addresses
  BY DEF PeerAddresses, TypeOK, DeviceInfo
<1>3. info \in DeviceInfo
  BY <1>2, DedupOfValid DEF Register, DeviceInfo
<1>4. Files(d, info)
  BY <1>1, <1>3 DEF Files, Insert, Registered
<1>5. FilesOwn(d, info)
  BY DEF FilesOwn, PeerAddresses, Register
<1> QED BY <1>1, <1>3, <1>4, <1>5
-----------------------------------------------------------------------------
(* Types.                                                                  *)

LEMMA InitTypeOK == Init => TypeOK
<1> SUFFICES ASSUME Init PROVE TypeOK
  OBVIOUS
<1>1. streams \in [Subscribers -> StreamInfo]
  BY DEF Init, StreamInfo, StreamStates
<1> QED BY <1>1, BoundsAssumption DEF Init, TypeOK, Registered

\* The infos of a list are infos.
LEMMA CollectType ==
    ASSUME TypeOK, NEW s
    PROVE  CollectPeersFor(peers, s) \in SUBSET DeviceInfo
BY DEF TypeOK, CollectPeersFor, Registered

\* Every event a stream sends has its type.
LEMMA SendType ==
    ASSUME TypeOK, NEW s \in Subscribers, NEW e \in SSE, Send(s, e)
    PROVE  wire' \in [Subscribers -> Seq(SSE)]
<1>1. wire \in [Subscribers -> Seq(SSE)]
  BY DEF TypeOK
<1>2. Append(wire[s], e) \in Seq(SSE)
  BY <1>1
<1> QED BY <1>1, <1>2 DEF Send

LEMMA EventTypes ==
    ASSUME TypeOK, NEW s
    PROVE  PeersEvent(s) \in SSE /\ Rejection \in SSE
BY CollectType DEF PeersEvent, Rejection, SSE

LEMMA RegisterTypeOK ==
    ASSUME TypeOK, NEW c \in Calls, NEW d \in Devices, NEW k \in Keys,
           NEW list \in EndpointLists, Register(c, d, k, list)
    PROVE  TypeOK'
<1>1. PICK info \in DeviceInfo :
        /\ Files(d, info)
        /\ calls' = [calls EXCEPT ![c] =
                      [device |-> info, peers |-> CollectPeersFor(peers', d)]]
  BY RegisterFiles
<1>2. \A p \in Registered' : peers'[p] \in DeviceInfo /\ peers'[p].device_id = p
  BY <1>1 DEF Files, TypeOK
<1>3. CollectPeersFor(peers', d) \in SUBSET DeviceInfo
  BY <1>2 DEF CollectPeersFor, Registered
<1>4. calls' \in [Calls -> {NoCall} \cup Registration]
  BY <1>1, <1>3 DEF TypeOK, Registration
<1>5. Registered' \subseteq Devices /\ peers' = [p \in Registered' |-> peers'[p]]
  BY <1>1 DEF Files, TypeOK
<1>6. UNCHANGED <<events, streams, wire, restarts, drops>>
  BY DEF Register
<1> QED BY <1>2, <1>4, <1>5, <1>6 DEF TypeOK

LEMMA PublishTypeOK ==
    ASSUME TypeOK, NEW c \in Calls, Publish(c)
    PROVE  TypeOK'
<1>1. calls[c] \in Registration
  BY DEF TypeOK, Publish
<1>2. events' \in Seq(DeviceInfo)
  BY <1>1 DEF TypeOK, Publish, Registration
<1>3. calls' \in [Calls -> {NoCall} \cup Registration]
  BY DEF TypeOK, Publish
<1> QED BY <1>2, <1>3 DEF TypeOK, Publish, Registered

LEMMA StreamTypeOK ==
    ASSUME TypeOK, NEW s \in Subscribers,
           \/ Subscribe(s) \/ Snapshot(s) \/ Reject(s) \/ Receive(s)
           \/ Lag(s) \/ Resync(s) \/ Deliver(s) \/ Drop(s)
    PROVE  TypeOK'
<1>0. /\ streams \in [Subscribers -> StreamInfo]
      /\ wire \in [Subscribers -> Seq(SSE)]
      /\ Len(events) \in Nat
      /\ Oldest \in Nat \ {0}
  <2>1. streams \in [Subscribers -> StreamInfo] /\ wire \in [Subscribers -> Seq(SSE)]
    BY DEF TypeOK
  <2>2. Len(events) \in Nat
    BY DEF TypeOK
  <2>3. Oldest \in Nat \ {0}
    BY <2>2, CapacityAssumption DEF Oldest
  <2> QED BY <2>1, <2>2, <2>3
<1>0a. \A x \in StreamStates : [streams[s] EXCEPT !.state = x] \in StreamInfo
  BY <1>0 DEF StreamInfo
<1>0b. [streams[s] EXCEPT !.next = @ + 1] \in StreamInfo
  <2>1. streams[s].next + 1 \in Nat \ {0}
    BY <1>0 DEF StreamInfo
  <2>2. \A n \in Nat \ {0} : [streams[s] EXCEPT !.next = n] \in StreamInfo
    BY <1>0 DEF StreamInfo
  <2> QED BY <2>1, <2>2
<1>1. CASE Subscribe(s)
  <2>1. streams' \in [Subscribers -> StreamInfo]
    BY <1>0, <1>1 DEF Subscribe, StreamInfo, StreamStates
  <2> QED BY <2>1, <1>1 DEF TypeOK, Subscribe, Registered
<1>2. CASE Snapshot(s) \/ Reject(s) \/ Resync(s)
  <2>1. streams' \in [Subscribers -> StreamInfo]
    BY <1>0, <1>0a, <1>2 DEF Snapshot, Reject, Resync, StreamStates
  <2>2. wire' \in [Subscribers -> Seq(SSE)]
    BY <1>2, SendType, EventTypes DEF Snapshot, Reject, Resync
  <2> QED BY <2>1, <2>2, <1>2 DEF TypeOK, Snapshot, Reject, Resync, Registered
<1>3. CASE Receive(s)
  <2>1. streams' \in [Subscribers -> StreamInfo]
    BY <1>0, <1>0b, <1>3 DEF Receive
  <2>2. streams[s].next \in 1 .. Len(events)
    BY <1>0, <1>3 DEF Receive
  <2>3. PeerEvent(events[streams[s].next]) \in SSE
    BY <2>2 DEF TypeOK, PeerEvent, SSE
  <2>4. wire' \in [Subscribers -> Seq(SSE)]
    BY <1>0, <1>3, <2>3, SendType DEF Receive
  <2> QED BY <2>1, <2>4, <1>3 DEF TypeOK, Receive, Registered
<1>4. CASE Lag(s)
  <2>1. streams' \in [Subscribers -> StreamInfo]
    BY <1>0, <1>4 DEF Lag, StreamInfo, StreamStates
  <2> QED BY <2>1, <1>4 DEF TypeOK, Lag, Registered
<1>5. CASE Deliver(s)
  <2>1. wire[s] \in Seq(SSE) /\ wire[s] # <<>>
    BY <1>0, <1>5 DEF Deliver
  <2>1a. Tail(wire[s]) \in Seq(SSE)
    BY <2>1
  <2>2. wire' \in [Subscribers -> Seq(SSE)]
    BY <1>0, <1>5, <2>1a DEF Deliver
  <2> QED BY <2>2, <1>5 DEF TypeOK, Deliver, Registered
<1>6. CASE Drop(s)
  <2>1. streams' \in [Subscribers -> StreamInfo]
    BY <1>0, <1>0a, <1>6 DEF Drop, StreamStates
  <2>2. wire' \in [Subscribers -> Seq(SSE)]
    BY <1>0, <1>6, EmptySeq DEF Drop
  <2>3. drops' \in 0 .. MaxDrops
    BY <1>6, BoundsAssumption DEF Drop, TypeOK
  <2> QED BY <2>1, <2>2, <2>3, <1>6 DEF TypeOK, Drop, Registered
<1> QED BY <1>1, <1>2, <1>3, <1>4, <1>5, <1>6

LEMMA RestartTypeOK ==
    ASSUME TypeOK, Restart
    PROVE  TypeOK'
<1>1. streams' \in [Subscribers -> StreamInfo]
  BY DEF Restart, StreamInfo, StreamStates
<1>2. restarts' \in 0 .. MaxRestarts
  BY BoundsAssumption DEF Restart, TypeOK
<1> QED BY <1>1, <1>2 DEF Restart, TypeOK, Registered

LEMMA NextTypeOK == TypeOK /\ [Next]_vars => TypeOK'
<1> SUFFICES ASSUME TypeOK, [Next]_vars PROVE TypeOK'
  OBVIOUS
<1>1. CASE UNCHANGED vars
  BY <1>1 DEF vars, TypeOK, Registered
<1>2. CASE Handlers
  <2> SUFFICES ASSUME NEW c \in Calls,
                      \/ Publish(c)
                      \/ \E d \in Devices, k \in Keys, list \in EndpointLists :
                           Register(c, d, k, list) \/ Refuse(c, d, k, list)
               PROVE  TypeOK'
    BY <1>2 DEF Handlers
  <2> QED BY PublishTypeOK, RegisterTypeOK, <1>1 DEF Refuse
<1>3. CASE Streams
  BY <1>3, StreamTypeOK DEF Streams
<1>4. CASE Restart
  BY <1>4, RestartTypeOK
<1> QED BY <1>1, <1>2, <1>3, <1>4 DEF Next

\* The state keeps its types (core/src/coordinator).
THEOREM TypeCorrect == Spec => []TypeOK
BY InitTypeOK, NextTypeOK, PTL DEF Spec
-----------------------------------------------------------------------------
(* The registry.                                                           *)

\* Every step registers one device, forgets all of them, or leaves the
\* registry alone.
LEMMA RegistrySteps ==
    ASSUME TypeOK, [Next]_vars
    PROVE  \/ \E d \in Devices, info \in DeviceInfo :
                Files(d, info) /\ FilesOwn(d, info) /\ UNCHANGED <<streams, wire, restarts>>
           \/ Registered' = {} /\ restarts' = restarts + 1
           \/ UNCHANGED <<peers, restarts>>
<1>1. CASE UNCHANGED vars
  BY <1>1 DEF vars
<1>2. ASSUME NEW c \in Calls, Publish(c)
      PROVE  UNCHANGED <<peers, restarts>>
  BY <1>2 DEF Publish
<1>3. ASSUME NEW c \in Calls, NEW d \in Devices, NEW k \in Keys,
             NEW list \in EndpointLists, Register(c, d, k, list)
      PROVE  \E info \in DeviceInfo :
               Files(d, info) /\ FilesOwn(d, info) /\ UNCHANGED <<streams, wire, restarts>>
  <2>1. UNCHANGED <<streams, wire, restarts>>
    BY <1>3 DEF Register
  <2> QED BY <1>3, <2>1, RegisterFiles
<1>4. CASE Streams
  BY <1>4 DEF Streams, Subscribe, Snapshot, Reject, Receive, Lag, Resync, Deliver, Drop
<1>5. CASE Restart
  BY <1>5 DEF Restart, Registered
<1>6. CASE Handlers
  BY <1>1, <1>2, <1>3, <1>6 DEF Handlers, Refuse
<1> QED BY <1>1, <1>4, <1>5, <1>6 DEF Next

LEMMA NextUnique ==
    ASSUME TypeOK, UniqueAddresses, UniqueKeys, [Next]_vars
    PROVE  UniqueAddresses' /\ UniqueKeys'
<1>1. ASSUME NEW d \in Devices, NEW info \in DeviceInfo, Files(d, info), FilesOwn(d, info)
      PROVE  UniqueAddresses' /\ UniqueKeys'
  <2>1. \A p \in Registered \ {d} : peers[p].address # info.address
    <3>1. CASE d \in Registered
      BY <1>1, <3>1 DEF FilesOwn, UniqueAddresses
    <3>2. CASE d \notin Registered
      BY <1>1, <3>2 DEF FilesOwn, UsesVirtualAddress
    <3> QED BY <3>1, <3>2
  <2>2. \A p \in Registered \ {d} : peers[p].public_key # info.public_key
    BY <1>1 DEF FilesOwn, PublicKeyAvailable
  <2>3. UniqueAddresses'
    BY <1>1, <2>1 DEF Files, UniqueAddresses
  <2>4. UniqueKeys'
    BY <1>1, <2>2 DEF Files, UniqueKeys
  <2> QED BY <2>3, <2>4
<1>2. CASE Registered' = {}
  BY <1>2 DEF UniqueAddresses, UniqueKeys
<1>3. CASE UNCHANGED peers
  BY <1>3 DEF UniqueAddresses, UniqueKeys, Registered
<1> QED BY <1>1, <1>2, <1>3, RegistrySteps

LEMMA InitUnique == Init => UniqueAddresses /\ UniqueKeys
BY DEF Init, UniqueAddresses, UniqueKeys, Registered

RegistryInv == TypeOK /\ UniqueAddresses /\ UniqueKeys

LEMMA RegistryInvariant == Spec => []RegistryInv
<1>1. Init => RegistryInv
  BY InitTypeOK, InitUnique DEF RegistryInv
<1>2. RegistryInv /\ [Next]_vars => RegistryInv'
  BY NextTypeOK, NextUnique DEF RegistryInv
<1> QED BY <1>1, <1>2, PTL DEF Spec

\* No two registered devices ever share a virtual address, whatever
\* registrations run concurrently and however small the pool
\* (registry.rs:107-141).
THEOREM AddressesAlwaysUnique == Spec => []UniqueAddresses
<1>1. RegistryInv => UniqueAddresses
  BY DEF RegistryInv
<1> QED BY <1>1, RegistryInvariant, PTL

\* No two registered devices ever share a public key, also when devices
\* change their keys (registry.rs:143-155).
THEOREM KeysAlwaysUnique == Spec => []UniqueKeys
<1>1. RegistryInv => UniqueKeys
  BY DEF RegistryInv
<1> QED BY <1>1, RegistryInvariant, PTL

\* While the process lives no device loses its registration or its address
\* (registry.rs:107-116).
THEOREM AddressesAlwaysStable == Spec => AddressesStable
<1> DEFINE Stable == restarts' = restarts =>
             \A d \in Registered :
               d \in DOMAIN peers' /\ peers'[d].address = peers[d].address
<1>1. ASSUME TypeOK, [Next]_vars PROVE Stable
  <2>1. ASSUME NEW d \in Devices, NEW info \in DeviceInfo, Files(d, info), FilesOwn(d, info)
        PROVE  Stable
    BY <2>1 DEF Files, FilesOwn, Registered
  <2>2. CASE restarts' = restarts + 1
    BY <1>1, <2>2 DEF TypeOK
  <2>3. CASE UNCHANGED peers
    BY <2>3 DEF Registered
  <2> QED BY <1>1, <2>1, <2>2, <2>3, RegistrySteps
<1>2. TypeOK /\ [Next]_vars => [Stable]_vars
  BY <1>1
<1> QED BY <1>2, TypeCorrect, PTL DEF Spec, AddressesStable

\* Every step of the registry leases the address of a new device, leaves the
\* lease of a known one alone, or ends all leases at once.
LEMMA RegistryLeases ==
    ASSUME RegistryInv, [Next]_vars
    PROVE  [AddressLeases!Grow \/ AddressLeases!Reset]_holder
<1>1. \A d \in Registered : holder[peers[d].address] = d
  BY DEF RegistryInv, TypeOK, UniqueAddresses, DeviceInfo, holder, UsesVirtualAddress
<1>2. \A a \in Addresses : ~UsesVirtualAddress(a) => holder[a] = Free
  BY DEF holder
<1>3. ASSUME NEW d \in Devices, NEW info \in DeviceInfo, Files(d, info), FilesOwn(d, info)
      PROVE  AddressLeases!Grow \/ UNCHANGED holder
  <2>0. /\ info.address \in Addresses
        /\ UniqueAddresses'
    BY NextUnique DEF RegistryInv, DeviceInfo
  <2>1. \A a \in Addresses :
          UsesVirtualAddress(a)' <=> (UsesVirtualAddress(a) \/ a = info.address)
    <3> SUFFICES ASSUME NEW a \in Addresses
                 PROVE  UsesVirtualAddress(a)' <=> (UsesVirtualAddress(a) \/ a = info.address)
      OBVIOUS
    <3>1. UsesVirtualAddress(a)' <=> \E p \in Registered' : peers'[p].address = a
      BY DEF UsesVirtualAddress
    <3> QED BY <1>3, <3>1 DEF Files, FilesOwn, UsesVirtualAddress
  <2>2. \A p \in Registered' : holder'[peers'[p].address] = p
    <3> SUFFICES ASSUME NEW p \in Registered' PROVE holder'[peers'[p].address] = p
      OBVIOUS
    <3>1. peers'[p].address \in Addresses
      BY <1>3 DEF Files, RegistryInv, TypeOK, DeviceInfo
    <3>2. holder'[peers'[p].address] =
            CHOOSE q \in Registered' : peers'[q].address = peers'[p].address
      BY <3>1 DEF holder, UsesVirtualAddress
    <3> QED BY <2>0, <3>2 DEF UniqueAddresses
  <2>3. \A a \in Addresses : ~UsesVirtualAddress(a)' => holder'[a] = Free
    BY DEF holder
  <2>4. \A a \in Addresses \ {info.address} : holder'[a] = holder[a]
    <3> SUFFICES ASSUME NEW a \in Addresses, a # info.address PROVE holder'[a] = holder[a]
      OBVIOUS
    <3>1. CASE ~UsesVirtualAddress(a)
      BY <3>1, <2>1, <2>3, <1>2
    <3>2. CASE UsesVirtualAddress(a)
      <4>1. PICK p \in Registered : peers[p].address = a
        BY <3>2 DEF UsesVirtualAddress
      <4>2. p # d
        BY <1>3, <4>1 DEF FilesOwn
      <4>3. p \in Registered' /\ peers'[p] = peers[p]
        BY <1>3, <4>2 DEF Files
      <4> QED BY <4>1, <4>3, <1>1, <2>2
    <3> QED BY <3>1, <3>2
  <2>5. holder'[info.address] = d
    BY <1>3, <2>2 DEF Files
  <2>5a. /\ holder = [a \in Addresses |-> holder[a]]
         /\ holder' = [a \in Addresses |-> holder'[a]]
    <3>1. holder = [a \in Addresses |-> holder[a]]
      BY DEF holder
    <3>2. holder' = [a \in Addresses |-> holder'[a]]
      BY DEF holder
    <3> QED BY <3>1, <3>2
  <2>6. CASE d \in Registered
    <3>1. holder[info.address] = d
      BY <1>1, <1>3, <2>6 DEF FilesOwn
    <3>2. holder' = holder
      BY <2>4, <2>5, <2>5a, <3>1
    <3> QED BY <3>2
  <2>7. CASE d \notin Registered
    <3>1. holder[info.address] = Free
      BY <1>2, <1>3, <2>0, <2>7 DEF FilesOwn
    <3>2. \A t \in Addresses : holder[t] # d
      <4> SUFFICES ASSUME NEW t \in Addresses PROVE holder[t] # d
        OBVIOUS
      <4>1. CASE UsesVirtualAddress(t)
        BY <4>1, <1>1, <2>7 DEF UsesVirtualAddress
      <4>2. CASE ~UsesVirtualAddress(t)
        BY <4>2, <1>2, FreeAddressAssumption
      <4> QED BY <4>1, <4>2
    <3>3. holder' = [holder EXCEPT ![info.address] = d]
      BY <2>4, <2>5, <2>5a
    <3> QED BY <2>0, <3>1, <3>2, <3>3 DEF AddressLeases!Grow, AddressLeases!Lease
  <2> QED BY <2>6, <2>7
<1>4. CASE Registered' = {}
  BY <1>4 DEF AddressLeases!Reset, holder, UsesVirtualAddress
<1>5. CASE UNCHANGED peers
  BY <1>5 DEF holder, UsesVirtualAddress, Registered
<1> QED BY <1>3, <1>4, <1>5, RegistrySteps DEF RegistryInv

\* The coordinator implements the address leases: the lease of an address ends
\* only when the process does (registry.rs:107-141).
THEOREM CoordinatorImplementsLeases == Spec => LeasesSpec
<1>1. Init => AddressLeases!Init
  BY DEF Init, AddressLeases!Init, holder, UsesVirtualAddress, Registered
<1> QED BY <1>1, RegistryLeases, RegistryInvariant, PTL DEF Spec, LeasesSpec, AddressLeases!Spec
-----------------------------------------------------------------------------
(* The streams.                                                            *)

NoError(queue) == \A i \in DOMAIN queue : queue[i].kind # "error"

LEMMA AppendNoError ==
    ASSUME NEW queue \in Seq(SSE), NoError(queue), NEW e \in SSE, e.kind # "error"
    PROVE  NoError(Append(queue, e))
<1>1. \A i \in DOMAIN Append(queue, e) :
        \/ i \in DOMAIN queue /\ Append(queue, e)[i] = queue[i]
        \/ Append(queue, e)[i] = e
  OBVIOUS
<1> QED BY <1>1 DEF NoError

LEMMA TailNoError ==
    ASSUME NEW queue \in Seq(SSE), NoError(queue), queue # <<>>
    PROVE  NoError(Tail(queue))
<1>1. \A i \in DOMAIN Tail(queue) : i + 1 \in DOMAIN queue /\ Tail(queue)[i] = queue[i + 1]
  OBVIOUS
<1> QED BY <1>1 DEF NoError

\* A step of the stream of s touches no other stream; it serves s only when
\* s is registered, and sends no error then.
LEMMA StreamStep ==
    ASSUME TypeOK, StreamsOfRegistered, NEW s \in Subscribers,
           \/ Subscribe(s) \/ Snapshot(s) \/ Reject(s) \/ Receive(s)
           \/ Lag(s) \/ Resync(s) \/ Deliver(s) \/ Drop(s)
    PROVE  StreamsOfRegistered'
<1>0. /\ streams \in [Subscribers -> StreamInfo]
      /\ wire \in [Subscribers -> Seq(SSE)]
      /\ NoError(wire[s])
      /\ peers' = peers
  BY DEF TypeOK, StreamsOfRegistered, NoError, Subscribe, Snapshot, Reject,
         Receive, Lag, Resync, Deliver, Drop
<1>1. \A t \in Subscribers \ {s} : streams'[t] = streams[t] /\ wire'[t] = wire[t]
  BY <1>0 DEF Subscribe, Snapshot, Reject, Receive, Lag, Resync, Deliver, Drop, Send
<1>2. SUFFICES /\ streams'[s].state \in {"streaming", "lagged"} => s \in Registered
               /\ NoError(wire'[s])
  BY <1>0, <1>1 DEF StreamsOfRegistered, NoError, Registered
<1>3. streams[s].state \in {"streaming", "lagged"} => s \in Registered
  BY DEF StreamsOfRegistered
<1>4. \A e \in SSE : e.kind # "error" /\ Send(s, e) => NoError(wire'[s])
  BY <1>0, AppendNoError DEF Send
<1>5. CASE Subscribe(s) \/ Lag(s)
  BY <1>0, <1>3, <1>5 DEF Subscribe, Lag
<1>6. CASE Snapshot(s) \/ Resync(s)
  <2>1. s \in Registered
    BY <1>3, <1>6 DEF Snapshot, Resync
  <2>2. PeersEvent(s) \in SSE /\ PeersEvent(s).kind # "error"
    BY <2>1, EventTypes DEF PeersEvent
  <2>3. Send(s, PeersEvent(s))
    BY <1>6 DEF Snapshot, Resync
  <2> QED BY <2>1, <2>2, <2>3, <1>4
<1>7. CASE Reject(s)
  <2>1. Rejection \in SSE /\ Rejection.kind # "error"
    BY EventTypes DEF Rejection
  <2>2. streams'[s].state = "ended" /\ Send(s, Rejection)
    BY <1>0, <1>7 DEF Reject, StreamInfo
  <2> QED BY <2>1, <2>2, <1>4
<1>8. CASE Receive(s)
  <2>1. s \in Registered
    BY <1>3, <1>8 DEF Receive
  <2>2. streams[s].next \in 1 .. Len(events)
    BY <1>0, <1>8, CapacityAssumption DEF Receive, Oldest, StreamInfo, TypeOK
  <2>3. /\ PeerEvent(events[streams[s].next]) \in SSE
        /\ PeerEvent(events[streams[s].next]).kind # "error"
    BY <2>2 DEF TypeOK, PeerEvent, SSE
  <2>4. NoError(wire'[s])
    BY <1>0, <1>4, <1>8, <2>3 DEF Receive
  <2> QED BY <2>1, <2>4
<1>9. CASE Deliver(s)
  <2>1. NoError(Tail(wire[s])) /\ wire'[s] = Tail(wire[s])
    BY <1>0, <1>9, TailNoError DEF Deliver
  <2> QED BY <2>1, <1>3, <1>9 DEF Deliver
<1>10. CASE Drop(s)
  <2>1. streams'[s].state = "closed" /\ wire'[s] = <<>>
    BY <1>0, <1>10 DEF Drop, StreamInfo
  <2> QED BY <2>1 DEF NoError
<1> QED BY <1>5, <1>6, <1>7, <1>8, <1>9, <1>10

\* The coordinator never ends a stream with an error for want of a
\* registration, in any order of subscribing, lagging and registering
\* (api.rs:69-113).
THEOREM StreamsAlwaysOfRegistered == Spec => []StreamsOfRegistered
<1>1. Init => StreamsOfRegistered
  BY DEF Init, StreamsOfRegistered
<1>2. TypeOK /\ StreamsOfRegistered /\ [Next]_vars => StreamsOfRegistered'
  <2> SUFFICES ASSUME TypeOK, StreamsOfRegistered, [Next]_vars
               PROVE  StreamsOfRegistered'
    OBVIOUS
  <2>1. CASE UNCHANGED <<peers, streams, wire>>
    BY <2>1 DEF StreamsOfRegistered, Registered
  <2>2. ASSUME NEW c \in Calls, NEW d \in Devices, NEW k \in Keys,
               NEW list \in EndpointLists, Register(c, d, k, list)
        PROVE  StreamsOfRegistered'
    <3>1. Registered \subseteq Registered'
      BY <2>2, RegisterFiles DEF Files
    <3> QED BY <2>2, <3>1 DEF Register, StreamsOfRegistered
  <2>3. CASE Handlers
    BY <2>1, <2>2, <2>3 DEF Handlers, Refuse, Publish, vars
  <2>4. CASE Streams
    BY <2>4, StreamStep DEF Streams
  <2>5. CASE Restart
    BY <2>5 DEF Restart, StreamsOfRegistered
  <2> QED BY <2>1, <2>3, <2>4, <2>5 DEF Next, vars
<1> QED BY <1>1, <1>2, TypeCorrect, PTL DEF Spec
-----------------------------------------------------------------------------
(* Announcements.                                                          *)

\* Without overlapping registrations of one device, what a handler is about
\* to publish is what the registry holds, and no other handler is about to
\* publish for the same device.
PendingCurrent ==
    /\ \A c \in Pending : /\ calls[c].device.device_id \in Registered
                          /\ peers[calls[c].device.device_id] = calls[c].device
    /\ \A b, c \in Pending : calls[b].device.device_id = calls[c].device.device_id => b = c

LEMMA RegisterAnnounces ==
    ASSUME TypeOK, ~Overlapping, PendingCurrent, Announced,
           NEW c \in Calls, NEW d \in Devices, NEW k \in Keys,
           NEW list \in EndpointLists, Register(c, d, k, list)
    PROVE  PendingCurrent' /\ Announced'
<1>1. PICK info \in DeviceInfo :
        /\ Files(d, info)
        /\ calls' = [calls EXCEPT ![c] =
                      [device |-> info, peers |-> CollectPeersFor(peers', d)]]
  BY RegisterFiles
<1>2. calls \in [Calls -> {NoCall} \cup Registration] /\ calls[c] = NoCall
  BY DEF TypeOK, Register
<1>3. calls'[c].device = info /\ calls'[c] # NoCall
  <2>1. TypeOK'
    BY RegisterTypeOK
  <2>2. CollectPeersFor(peers', d) \in SUBSET DeviceInfo
    BY <2>1 DEF TypeOK, CollectPeersFor, Registered
  <2>3. [device |-> info, peers |-> CollectPeersFor(peers', d)] \in Registration
    BY <2>2 DEF Registration
  <2> QED BY <1>1, <1>2, <2>3, NoCallAssumption
<1>4. \A b \in Calls \ {c} : calls'[b] = calls[b]
  BY <1>1, <1>2
<1>5. Pending' = Pending \cup {c}
  BY <1>3, <1>4 DEF Pending
<1>6. \A b \in Pending : b # c /\ calls[b].device.device_id # d
  BY <1>2 DEF Register, PendingOf, Pending
<1>7. PendingCurrent'
  <2>1. \A b \in Pending' : /\ calls'[b].device.device_id \in Registered'
                            /\ peers'[calls'[b].device.device_id] = calls'[b].device
    BY <1>1, <1>3, <1>4, <1>5, <1>6 DEF PendingCurrent, Files, Pending
  <2>2. \A a, b \in Pending' :
          calls'[a].device.device_id = calls'[b].device.device_id => a = b
    BY <1>1, <1>3, <1>4, <1>5, <1>6 DEF PendingCurrent, Files, Pending
  <2> QED BY <2>1, <2>2 DEF PendingCurrent
<1>8. Announced'
  <2> SUFFICES ASSUME NEW p \in Registered'
               PROVE  \/ \E b \in PendingOf(p)' : calls'[b].device = peers'[p]
                      \/ \E i \in UpdatesOf(p, 1)' :
                           /\ events'[i] = peers'[p]
                           /\ \A j \in UpdatesOf(p, 1)' : j <= i
    BY DEF Announced
  <2>1. CASE p = d
    BY <2>1, <1>1, <1>3, <1>5 DEF PendingOf, Files
  <2>2. CASE p # d
    <3>1. p \in Registered /\ peers'[p] = peers[p]
      BY <2>2, <1>1 DEF Files
    <3>2. UpdatesOf(p, 1)' = UpdatesOf(p, 1) /\ events' = events
      BY DEF Register, UpdatesOf
    <3>3. \A b \in PendingOf(p) : b \in PendingOf(p)' /\ calls'[b] = calls[b]
      BY <1>4, <1>5, <1>6 DEF PendingOf, Pending
    <3> QED BY <3>1, <3>2, <3>3 DEF Announced
  <2> QED BY <2>1, <2>2
<1> QED BY <1>7, <1>8

LEMMA PublishAnnounces ==
    ASSUME TypeOK, PendingCurrent, Announced, NEW c \in Calls, Publish(c)
    PROVE  PendingCurrent' /\ Announced'
<1> DEFINE info == calls[c].device
           n == Len(events)
<1>1. /\ c \in Pending
      /\ events' = Append(events, info)
      /\ calls' = [calls EXCEPT ![c] = NoCall]
      /\ UNCHANGED peers
  BY DEF Publish, Pending
<1>2. calls \in [Calls -> {NoCall} \cup Registration]
  BY DEF TypeOK
<1>3. Pending' = Pending \ {c} /\ \A b \in Calls \ {c} : calls'[b] = calls[b]
  BY <1>1, <1>2 DEF Pending
<1>4. PendingCurrent'
  BY <1>1, <1>3 DEF PendingCurrent, Pending, Registered
<1>5. /\ n \in Nat /\ Len(events') = n + 1
      /\ events'[n + 1] = info
      /\ \A i \in 1 .. n : events'[i] = events[i]
  <2>1. info \in DeviceInfo
    BY <1>1, <1>2 DEF Pending, Registration
  <2> QED BY <1>1, <2>1 DEF TypeOK
<1>6. Announced'
  <2> SUFFICES ASSUME NEW p \in Registered
               PROVE  \/ \E b \in PendingOf(p)' : calls'[b].device = peers[p]
                      \/ \E i \in UpdatesOf(p, 1)' :
                           /\ events'[i] = peers[p]
                           /\ \A j \in UpdatesOf(p, 1)' : j <= i
    BY <1>1 DEF Announced, Registered
  <2>0. UpdatesOf(p, 1)' = {i \in 1 .. n + 1 : events'[i].device_id = p}
    BY <1>5 DEF UpdatesOf
  <2>1. CASE p = info.device_id
    <3>1. info = peers[p]
      BY <2>1, <1>1 DEF PendingCurrent
    <3>2. n + 1 \in UpdatesOf(p, 1)' /\ \A j \in UpdatesOf(p, 1)' : j <= n + 1
      BY <2>0, <2>1, <1>5
    <3> QED BY <3>1, <3>2, <1>5
  <2>2. CASE p # info.device_id
    <3>1. UpdatesOf(p, 1)' = UpdatesOf(p, 1)
      BY <2>0, <2>2, <1>5 DEF UpdatesOf
    <3>2. \A i \in UpdatesOf(p, 1) : events'[i] = events[i]
      BY <1>5 DEF UpdatesOf
    <3>3. \A b \in PendingOf(p) : b \in PendingOf(p)' /\ calls'[b] = calls[b]
      BY <2>2, <1>3 DEF PendingOf, Pending
    <3> QED BY <3>1, <3>2, <3>3 DEF Announced
  <2> QED BY <2>1, <2>2
<1> QED BY <1>4, <1>6

\* When no two registrations of one device overlap, the registry never holds
\* anything for a device that was not the last thing announced of it or is
\* in a handler on its way to the channel (registry.rs:32-53).
THEOREM CoordinatorAnnounces ==
    ASSUME ~Overlapping
    PROVE  Spec => []Announced
<1> DEFINE Inv == PendingCurrent /\ Announced
<1>1. Init => Inv
  BY DEF Init, PendingCurrent, Announced, Pending, Registered
<1>2. TypeOK /\ Inv /\ [Next]_vars => Inv'
  <2> SUFFICES ASSUME TypeOK, PendingCurrent, Announced, [Next]_vars
               PROVE  PendingCurrent' /\ Announced'
    OBVIOUS
  <2>1. CASE UNCHANGED <<peers, calls, events>>
    BY <2>1 DEF PendingCurrent, Announced, Pending, PendingOf, UpdatesOf, Registered
  <2>2. CASE Handlers
    BY <2>1, <2>2, RegisterAnnounces, PublishAnnounces DEF Handlers, Refuse, vars
  <2>3. CASE Streams
    BY <2>1, <2>3 DEF Streams, Subscribe, Snapshot, Reject, Receive, Lag, Resync,
                      Deliver, Drop
  <2>4. CASE Restart
    BY <2>4 DEF Restart, PendingCurrent, Announced, Pending, Registered
  <2> QED BY <2>1, <2>2, <2>3, <2>4 DEF Next, vars
<1> QED BY <1>1, <1>2, TypeCorrect, PTL DEF Spec
-----------------------------------------------------------------------------
(* The coordinator with its listeners.                                     *)

\* What a table is: infos filed under their keys.
IsTable(t) ==
    /\ t = [k \in DOMAIN t |-> t[k]]
    /\ \A k \in DOMAIN t : t[k] \in DeviceInfo /\ t[k].public_key = k

\* An update on a connection carries one info.
SingleUpdates(s) ==
    \A i \in DOMAIN wire[s] :
      wire[s][i].kind = "peer" => \E info \in DeviceInfo : wire[s][i].peers = {info}

SyncTypeOK ==
    /\ TypeOK
    /\ client \in [Subscribers -> Stages]
    /\ table = [s \in Subscribers |-> table[s]]
    /\ \A s \in Subscribers : IsTable(table[s]) /\ SingleUpdates(s)

\* No two infos of a list share a key.
KeysApart(infos) == \A a, b \in infos : a.public_key = b.public_key => a = b
-----------------------------------------------------------------------------
(* The operations on a table, and the sequences of a connection.           *)

LEMMA ReplaceTable ==
    ASSUME NEW infos \in SUBSET DeviceInfo
    PROVE  /\ IsTable(Replace(infos))
           /\ \A k \in DOMAIN Replace(infos) : Replace(infos)[k] \in infos
           /\ \A info \in infos :
                /\ info.public_key \in DOMAIN Replace(infos)
                /\ KeysApart(infos) => Replace(infos)[info.public_key] = info
<1> DEFINE t == Replace(infos)
<1>1. /\ DOMAIN t = {info.public_key : info \in infos}
      /\ t = [k \in DOMAIN t |-> t[k]]
  BY DEF Replace
<1>2. \A k \in DOMAIN t : t[k] = CHOOSE info \in infos : info.public_key = k
  BY DEF Replace
<1>3. \A k \in DOMAIN t : t[k] \in infos /\ t[k].public_key = k
  BY <1>1, <1>2
<1> HIDE DEF t
<1>4. IsTable(t)
  BY <1>1, <1>3 DEF IsTable
<1>5. \A info \in infos : KeysApart(infos) => t[info.public_key] = info
  BY <1>1, <1>3 DEF KeysApart
<1> QED BY <1>1, <1>3, <1>4, <1>5 DEF t

LEMMA UpsertTable ==
    ASSUME NEW t, IsTable(t), NEW info \in DeviceInfo
    PROVE  /\ IsTable(Upsert(t, info))
           /\ DOMAIN Upsert(t, info) = DOMAIN t \cup {info.public_key}
           /\ Upsert(t, info)[info.public_key] = info
           /\ \A k \in DOMAIN t \ {info.public_key} : Upsert(t, info)[k] = t[k]
BY DEF IsTable, Upsert

\* The cases of an applied event.
LEMMA AppliedEvent ==
    ASSUME NEW t, NEW e \in SSE
    PROVE  /\ e.kind = "peers" => ApplyEvent(t, e) = Replace(e.peers)
           /\ \A info : e.kind = "peer" /\ e.peers = {info} => ApplyEvent(t, e) = Upsert(t, info)
           /\ EndsTask(e) => ApplyEvent(t, e) = t
           /\ ~EndsTask(e) => e.kind \in {"peers", "peer"}
<1>1. e.kind \in {"peers", "peer", "error", "rejected"}
  BY DEF SSE
<1>2. ASSUME NEW info, e.kind = "peer", e.peers = {info}
      PROVE  ApplyEvent(t, e) = Upsert(t, info)
  <2>1. (CHOOSE i \in e.peers : TRUE) = info
    BY <1>2
  <2> QED BY <1>2, <2>1 DEF ApplyEvent
<1> QED BY <1>1, <1>2 DEF ApplyEvent, EndsTask

LEMMA Appended ==
    ASSUME NEW q \in Seq(SSE), NEW e \in SSE
    PROVE  /\ Append(q, e) \in Seq(SSE)
           /\ Len(q) \in Nat
           /\ DOMAIN q = 1 .. Len(q)
           /\ DOMAIN Append(q, e) = 1 .. Len(q) + 1
           /\ Append(q, e)[Len(q) + 1] = e
           /\ \A i \in 1 .. Len(q) : Append(q, e)[i] = q[i]
OBVIOUS

LEMMA TailOf ==
    ASSUME NEW q \in Seq(SSE), q # <<>>
    PROVE  /\ Tail(q) \in Seq(SSE)
           /\ Len(q) \in Nat \ {0}
           /\ DOMAIN q = 1 .. Len(q)
           /\ Head(q) = q[1] /\ Head(q) \in SSE
           /\ DOMAIN Tail(q) = 1 .. Len(q) - 1
           /\ \A i \in 1 .. Len(q) - 1 : Tail(q)[i] = q[i + 1]
OBVIOUS
-----------------------------------------------------------------------------
(* A step as listener s sees it: what happens to its stream, its           *)
(* connection and its table.                                               *)

Idles(s) == UNCHANGED <<streams[s], wire[s], client[s], table[s]>>

Closes(s) ==
    /\ streams'[s] = [streams[s] EXCEPT !.state = "closed"] /\ wire'[s] = <<>>
    /\ table'[s] = table[s]
    /\ \/ client'[s] = client[s]
       \/ \E i \in DOMAIN wire[s] : EndsTask(wire[s][i])

Connects(s) ==
    /\ Running(s) /\ streams[s].state = "closed"
    /\ streams'[s] = [state |-> "subscribed", next |-> Len(events) + 1]
    /\ UNCHANGED <<wire[s], client[s], table[s]>>

Serves(s) ==
    /\ streams[s].state \in {"subscribed", "lagged"} /\ s \in Registered
    /\ streams'[s] = [streams[s] EXCEPT !.state = "streaming"]
    /\ wire'[s] = Append(wire[s], [kind |-> "peers", peers |-> CollectPeersFor(peers, s)])
    /\ UNCHANGED <<client[s], table[s]>>

Refuses(s) ==
    /\ streams[s].state \in {"subscribed", "lagged"} /\ s \notin Registered
    /\ streams'[s] = [streams[s] EXCEPT !.state = "ended"]
    /\ \E x \in {"rejected", "error"} :
         wire'[s] = Append(wire[s], [kind |-> x, peers |-> {}])
    /\ UNCHANGED <<client[s], table[s]>>

Skips(s) ==
    /\ streams[s].state = "streaming"
    /\ streams[s].next \in 1 .. Len(events) /\ Oldest <= streams[s].next
    /\ events[streams[s].next].device_id = s
    /\ streams'[s] = [streams[s] EXCEPT !.next = @ + 1]
    /\ UNCHANGED <<wire[s], client[s], table[s]>>

Relays(s) ==
    /\ streams[s].state = "streaming"
    /\ streams[s].next \in 1 .. Len(events) /\ Oldest <= streams[s].next
    /\ events[streams[s].next].device_id # s
    /\ streams'[s] = [streams[s] EXCEPT !.next = @ + 1]
    /\ wire'[s] = Append(wire[s], PeerEvent(events[streams[s].next]))
    /\ UNCHANGED <<client[s], table[s]>>

Lags(s) ==
    /\ streams[s].state = "streaming"
    /\ streams'[s] = [state |-> "lagged", next |-> Oldest]
    /\ UNCHANGED <<wire[s], client[s], table[s]>>

Takes(s) ==
    /\ wire[s] # <<>> /\ ~EndsTask(Head(wire[s]))
    /\ table'[s] = ApplyEvent(table[s], Head(wire[s]))

Reads(s) ==
    /\ Takes(s)
    /\ wire'[s] = Tail(wire[s])
    /\ UNCHANGED <<streams[s], client[s]>>

Fails(s) ==
    /\ Takes(s) \/ table'[s] = table[s]
    /\ client'[s] = "failed"
    /\ streams'[s] = [streams[s] EXCEPT !.state = "closed"] /\ wire'[s] = <<>>

Sees(s) ==
    \/ Idles(s) \/ Closes(s) \/ Connects(s) \/ Serves(s) \/ Refuses(s)
    \/ Skips(s) \/ Relays(s) \/ Lags(s) \/ Reads(s) \/ Fails(s)

\* What the stream and the event task of t do.
Turn(t) ==
    \/ SyncSubscribe(t) \/ SyncDeliver(t) \/ TaskFails(t)
    \/ /\ Snapshot(t) \/ Reject(t) \/ Receive(t) \/ Lag(t) \/ Resync(t) \/ Drop(t)
       /\ UNCHANGED <<client, table>>

LEMMA OldestType ==
    ASSUME TypeOK
    PROVE  Len(events) \in Nat /\ Oldest \in 1 .. Len(events) + 1
<1>1. Len(events) \in Nat
  BY DEF TypeOK
<1> QED BY <1>1, CapacityAssumption DEF Oldest

LEMMA TurnSeen ==
    ASSUME SyncTypeOK, NEW t \in Subscribers, Turn(t)
    PROVE  /\ UNCHANGED <<peers, calls, events, restarts>>
           /\ \A s \in Subscribers : Sees(s)
<1>0. /\ streams \in [Subscribers -> StreamInfo]
      /\ wire \in [Subscribers -> Seq(SSE)]
      /\ client \in [Subscribers -> Stages]
      /\ table = [s \in Subscribers |-> table[s]]
      /\ streams[t] \in StreamInfo
  BY DEF SyncTypeOK, TypeOK
<1>1. UNCHANGED <<peers, calls, events, restarts>>
  BY DEF Turn, SyncSubscribe, SyncDeliver, TaskFails, Subscribe, Snapshot, Reject, Receive, Lag,
         Resync, Drop
<1>2. \A s \in Subscribers \ {t} : Idles(s)
  BY <1>0 DEF Turn, SyncSubscribe, SyncDeliver, TaskFails, Subscribe, Snapshot, Reject, Receive, Lag,
         Resync, Drop, Send, Idles
<1> SUFFICES Sees(t)
  BY <1>1, <1>2 DEF Sees
<1>3. CASE SyncSubscribe(t)
  BY <1>0, <1>3 DEF SyncSubscribe, Subscribe, Sees, Connects
<1>4. CASE SyncDeliver(t)
  <2> DEFINE e == Head(wire[t])
  <2>1. /\ wire[t] # <<>>
        /\ table'[t] = ApplyEvent(table[t], e)
        /\ client'[t] = IF EndsTask(e) THEN "refused" ELSE client[t]
        /\ streams'[t] = IF EndsTask(e) THEN [streams[t] EXCEPT !.state = "closed"]
                                        ELSE streams[t]
        /\ wire'[t] = IF EndsTask(e) THEN <<>> ELSE Tail(wire[t])
    <3>1. streams'[t] = [streams[t] EXCEPT !.state = IF EndsTask(e) THEN "closed" ELSE @]
      BY <1>0, <1>4 DEF SyncDeliver
    <3>2. [streams[t] EXCEPT !.state = @] = streams[t]
      BY <1>0 DEF StreamInfo
    <3> QED BY <1>0, <1>4, <3>1, <3>2 DEF SyncDeliver
  <2>2. wire[t] \in Seq(SSE)
    BY <1>0
  <2>3. e \in SSE /\ 1 \in DOMAIN wire[t] /\ e = wire[t][1]
    BY <2>1, <2>2, TailOf
  <2>4. CASE EndsTask(e)
    <3>1. table'[t] = table[t]
      BY <2>1, <2>3, <2>4, AppliedEvent
    <3>2. streams'[t].state = "closed"
      BY <1>0, <2>1, <2>4 DEF StreamInfo
    <3> QED BY <2>1, <2>3, <2>4, <3>1, <3>2 DEF Sees, Closes
  <2>5. CASE ~EndsTask(e)
    BY <2>1, <2>5 DEF Sees, Reads, Takes
  <2> QED BY <2>4, <2>5
<1>5. CASE Snapshot(t) /\ UNCHANGED <<client, table>>
  BY <1>0, <1>5 DEF Snapshot, Send, PeersEvent, Sees, Serves
<1>6. CASE Reject(t) /\ UNCHANGED <<client, table>>
  BY <1>0, <1>6 DEF Reject, Send, Rejection, Sees, Refuses
<1>7. CASE Receive(t) /\ UNCHANGED <<client, table>>
  <2>1. streams[t].next \in 1 .. Len(events) /\ Oldest <= streams[t].next
    BY <1>0, <1>7, OldestType DEF Receive, SyncTypeOK, StreamInfo
  <2> QED BY <1>0, <1>7, <2>1 DEF Receive, Send, Sees, Skips, Relays
<1>8. CASE Lag(t) /\ UNCHANGED <<client, table>>
  BY <1>0, <1>8 DEF Lag, Sees, Lags
<1>9. CASE Resync(t) /\ UNCHANGED <<client, table>>
  BY <1>0, <1>9 DEF Resync, Send, PeersEvent, Sees, Serves, Refuses
<1>10. CASE Drop(t) /\ UNCHANGED <<client, table>>
  BY <1>0, <1>10 DEF Drop, Sees, Closes, StreamInfo
<1>11. CASE TaskFails(t)
  <2>1. /\ wire[t] # <<>> /\ ~EndsTask(Head(wire[t]))
        /\ client'[t] = "failed" /\ wire'[t] = <<>>
        /\ streams'[t] = [streams[t] EXCEPT !.state = "closed"]
    BY <1>0, <1>11 DEF TaskFails
  <2>2. table'[t] = table[t] \/ table'[t] = ApplyEvent(table[t], Head(wire[t]))
    BY <1>0, <1>11 DEF TaskFails
  <2> QED BY <2>1, <2>2 DEF Sees, Fails, Takes
<1> QED BY <1>3, <1>4, <1>5, <1>6, <1>7, <1>8, <1>9, <1>10, <1>11 DEF Turn
-----------------------------------------------------------------------------
(* Types.                                                                  *)

LEMMA SyncInitTypeOK == SyncInit => SyncTypeOK
<1> SUFFICES ASSUME SyncInit PROVE SyncTypeOK
  OBVIOUS
<1>1. TypeOK
  BY InitTypeOK DEF SyncInit
<1>2. IsTable(EmptyTable)
  BY DEF IsTable, EmptyTable
<1>3. \A s \in Subscribers : wire[s] = <<>> /\ table[s] = EmptyTable
  BY DEF SyncInit, Init
<1>4. \A s \in Subscribers : SingleUpdates(s)
  BY <1>3 DEF SingleUpdates
<1> QED BY <1>1, <1>2, <1>3, <1>4 DEF SyncInit, SyncTypeOK, Stages

\* A response in a handler is a list of infos.
LEMMA ResponseType ==
    ASSUME TypeOK, NEW c \in Calls, calls[c] # NoCall
    PROVE  /\ calls[c] \in Registration
           /\ calls[c].device \in DeviceInfo
           /\ calls[c].peers \in SUBSET DeviceInfo
BY DEF TypeOK, Registration

\* Whom a published response makes a running device, and what table it has.
LEMMA PublishSeen ==
    ASSUME SyncTypeOK, NEW c \in Calls, SyncPublish(c), NEW s \in Subscribers
    PROVE  /\ UNCHANGED <<streams[s], wire[s]>>
           /\ \/ UNCHANGED <<client[s], table[s]>>
              \/ /\ s = calls[c].device.device_id
                 /\ client[s] = "registering" /\ client'[s] = "running"
                 /\ table'[s] = Replace(calls[c].peers)
              \/ client[s] = "registering" /\ client'[s] = "failed" /\ table'[s] = table[s]
BY DEF SyncPublish, Publish, Starting

\* What is on a connection after a step was there before, or is what the
\* stream has just sent.
LEMMA WireSeen ==
    ASSUME SyncTypeOK, NEW s \in Subscribers, Sees(s), NEW j \in DOMAIN wire'[s]
    PROVE  \/ \E i \in DOMAIN wire[s] : wire'[s][j] = wire[s][i]
           \/ Serves(s) /\ wire'[s][j] = [kind |-> "peers", peers |-> CollectPeersFor(peers, s)]
           \/ /\ Refuses(s)
              /\ wire'[s][j].kind \in {"rejected", "error"} /\ wire'[s][j].peers = {}
           \/ Relays(s) /\ wire'[s][j] = PeerEvent(events[streams[s].next])
<1>0. wire[s] \in Seq(SSE) /\ events \in Seq(DeviceInfo) /\ TypeOK
  BY DEF SyncTypeOK, TypeOK
<1>1. CASE wire'[s] = wire[s]
  BY <1>1
<1>2. CASE Closes(s) \/ Fails(s)
  BY <1>2 DEF Closes, Fails
<1>3. CASE Serves(s)
  <2> DEFINE e == [kind |-> "peers", peers |-> CollectPeersFor(peers, s)]
  <2>1. e \in SSE /\ wire'[s] = Append(wire[s], e)
    BY <1>0, <1>3, CollectType DEF Serves, SSE
  <2> HIDE DEF e
  <2> QED BY <1>0, <1>3, <2>1, Appended DEF e
<1>4. CASE Refuses(s)
  <2>1. PICK x \in {"rejected", "error"} : wire'[s] = Append(wire[s], [kind |-> x, peers |-> {}])
    BY <1>4 DEF Refuses
  <2> DEFINE e == [kind |-> x, peers |-> {}]
  <2>2. e \in SSE /\ e.kind \in {"rejected", "error"} /\ e.peers = {}
    BY DEF SSE
  <2> HIDE DEF e
  <2> QED BY <1>0, <1>4, <2>1, <2>2, Appended DEF e
<1>5. CASE Relays(s)
  <2> DEFINE e == PeerEvent(events[streams[s].next])
  <2>1. e \in SSE /\ wire'[s] = Append(wire[s], e)
    BY <1>0, <1>5 DEF Relays, SSE, PeerEvent
  <2> HIDE DEF e
  <2> QED BY <1>0, <1>5, <2>1, Appended DEF e
<1>6. CASE Reads(s)
  <2>1. wire[s] # <<>> /\ wire'[s] = Tail(wire[s])
    BY <1>6 DEF Reads, Takes
  <2> QED BY <1>0, <2>1, TailOf
<1> QED BY <1>1, <1>2, <1>3, <1>4, <1>5, <1>6 DEF Sees, Idles, Connects, Skips, Lags

LEMMA TurnTypeOK ==
    ASSUME SyncTypeOK, NEW s \in Subscribers, Turn(s)
    PROVE  TypeOK'
<1>0. TypeOK
  BY DEF SyncTypeOK
<1>1. CASE ~SyncDeliver(s) /\ ~TaskFails(s)
  BY <1>0, <1>1, StreamTypeOK DEF Turn, SyncSubscribe
<1>2. CASE SyncDeliver(s) \/ TaskFails(s)
  <2>1. /\ wire \in [Subscribers -> Seq(SSE)] /\ wire[s] \in Seq(SSE) /\ wire[s] # <<>>
        /\ streams \in [Subscribers -> StreamInfo] /\ streams[s] \in StreamInfo
    BY <1>0, <1>2 DEF TypeOK, SyncDeliver, TaskFails
  <2>2. Tail(wire[s]) \in Seq(SSE) /\ <<>> \in Seq(SSE)
    BY <2>1, TailOf
  <2>3. \A x \in StreamStates : [streams[s] EXCEPT !.state = x] \in StreamInfo
    BY <2>1 DEF StreamInfo
  <2>4. streams[s].state \in StreamStates
    BY <2>1 DEF StreamInfo
  <2>5. wire' \in [Subscribers -> Seq(SSE)]
    BY <1>2, <2>1, <2>2 DEF SyncDeliver, TaskFails
  <2>6. streams' \in [Subscribers -> StreamInfo]
    BY <1>2, <2>1, <2>3, <2>4 DEF SyncDeliver, TaskFails, StreamStates
  <2> QED BY <1>0, <1>2, <2>5, <2>6 DEF SyncDeliver, TaskFails, TypeOK, Registered
<1> QED BY <1>1, <1>2

LEMMA SeenTables ==
    ASSUME SyncTypeOK, NEW s \in Subscribers, Sees(s)
    PROVE  IsTable(table'[s]) /\ SingleUpdates(s)'
<1>0. wire[s] \in Seq(SSE) /\ events \in Seq(DeviceInfo)
  BY DEF SyncTypeOK, TypeOK
<1>1. IsTable(table'[s])
  <2>1. CASE table'[s] = table[s]
    BY <2>1 DEF SyncTypeOK
  <2>2. CASE (Reads(s) \/ Fails(s)) /\ table'[s] # table[s]
    <3> DEFINE e == Head(wire[s])
    <3>1. /\ e \in SSE /\ ~EndsTask(e) /\ table'[s] = ApplyEvent(table[s], e)
          /\ 1 \in DOMAIN wire[s] /\ e = wire[s][1]
      BY <1>0, <2>2, TailOf DEF Reads, Takes, Fails
    <3>2. CASE e.kind = "peers"
      BY <3>1, <3>2, AppliedEvent, ReplaceTable DEF SSE
    <3>3. CASE e.kind = "peer"
      <4>1. PICK info \in DeviceInfo : e.peers = {info}
        BY <3>1, <3>3 DEF SyncTypeOK, SingleUpdates
      <4>2. IsTable(Upsert(table[s], info))
        BY UpsertTable DEF SyncTypeOK
      <4> QED BY <3>1, <3>3, <4>1, <4>2, AppliedEvent
    <3> QED BY <3>1, <3>2, <3>3, AppliedEvent
  <2> QED BY <2>1, <2>2 DEF Sees, Idles, Closes, Connects, Serves, Refuses, Skips, Relays, Lags
<1>2. ASSUME NEW j \in DOMAIN wire'[s], wire'[s][j].kind = "peer"
      PROVE  \E info \in DeviceInfo : wire'[s][j].peers = {info}
  <2>1. CASE \E i \in DOMAIN wire[s] : wire'[s][j] = wire[s][i]
    BY <1>2, <2>1 DEF SyncTypeOK, SingleUpdates
  <2>2. CASE Relays(s) /\ wire'[s][j] = PeerEvent(events[streams[s].next])
    <3>1. events[streams[s].next] \in DeviceInfo
      BY <1>0, <2>2 DEF Relays
    <3> QED BY <2>2, <3>1 DEF PeerEvent
  <2>3. CASE wire'[s][j] = [kind |-> "peers", peers |-> CollectPeersFor(peers, s)]
    BY <1>2, <2>3
  <2>4. CASE wire'[s][j].kind \in {"rejected", "error"}
    BY <1>2, <2>4
  <2> QED BY <1>2, <2>1, <2>2, <2>3, <2>4, WireSeen
<1> QED BY <1>1, <1>2 DEF SingleUpdates

LEMMA NextSyncTypeOK == SyncTypeOK /\ [SyncNext]_syncVars => SyncTypeOK'
<1> SUFFICES ASSUME SyncTypeOK, [SyncNext]_syncVars PROVE SyncTypeOK'
  OBVIOUS
<1>0. TypeOK
  BY DEF SyncTypeOK
<1>1. CASE UNCHANGED syncVars
  BY <1>0, <1>1, NextTypeOK DEF SyncTypeOK, syncVars, vars, IsTable, SingleUpdates
<1>2. ASSUME NEW c \in Calls, NEW d \in Devices, NEW k \in Keys, NEW list \in EndpointLists,
             SyncRegister(c, d, k, list)
      PROVE  SyncTypeOK'
  <2>1. TypeOK'
    BY <1>0, <1>2, RegisterTypeOK DEF SyncRegister
  <2>2. UNCHANGED <<wire, table>> /\ client' \in [Subscribers -> Stages]
    BY <1>2 DEF SyncRegister, Register, SyncTypeOK, Stages
  <2> QED BY <2>1, <2>2 DEF SyncTypeOK, IsTable, SingleUpdates
<1>3. ASSUME NEW c \in Calls, SyncPublish(c) PROVE SyncTypeOK'
  <2>1. TypeOK'
    BY <1>0, <1>3, PublishTypeOK DEF SyncPublish
  <2>2. IsTable(Replace(calls[c].peers))
    BY <1>0, <1>3, ResponseType, ReplaceTable DEF SyncPublish, Publish
  <2>3. /\ client' \in [Subscribers -> Stages]
        /\ table' = [s \in Subscribers |-> table'[s]]
        /\ UNCHANGED wire
    BY <1>3 DEF SyncPublish, Publish, SyncTypeOK, Stages
  <2>4. \A s \in Subscribers : IsTable(table'[s])
    BY <1>3, <2>2, PublishSeen DEF SyncTypeOK
  <2> QED BY <2>1, <2>3, <2>4 DEF SyncTypeOK, IsTable, SingleUpdates
<1>4. ASSUME NEW s \in Subscribers, Turn(s) PROVE SyncTypeOK'
  <2>1. TypeOK'
    BY <1>4, TurnTypeOK
  <2>2. \A t \in Subscribers : IsTable(table'[t]) /\ SingleUpdates(t)'
    BY <1>4, TurnSeen, SeenTables
  <2>3. client' \in [Subscribers -> Stages] /\ table' = [x \in Subscribers |-> table'[x]]
    BY <1>4 DEF Turn, SyncSubscribe, SyncDeliver, TaskFails, SyncTypeOK, Stages
  <2> QED BY <2>1, <2>2, <2>3 DEF SyncTypeOK, IsTable, SingleUpdates
<1>5. CASE SyncRestart
  <2>1. TypeOK'
    BY <1>0, <1>5, RestartTypeOK DEF SyncRestart
  <2>2. /\ client' \in [Subscribers -> Stages] /\ table' = table
        /\ \A s \in Subscribers : wire'[s] = <<>>
    BY <1>5 DEF SyncRestart, Restart, SyncTypeOK, Stages
  <2> QED BY <2>1, <2>2 DEF SyncTypeOK, IsTable, SingleUpdates
<1> QED BY <1>1, <1>2, <1>3, <1>4, <1>5 DEF SyncNext, SyncHandlers, SyncStreams, Turn

LEMMA SyncTypeCorrect == SyncSpec => []SyncTypeOK
BY SyncInitTypeOK, NextSyncTypeOK, PTL DEF SyncSpec
-----------------------------------------------------------------------------
(* The coordinator's own guarantees hold in the composition.               *)

\* A device that hangs up is the only step the coordinator alone does not
\* take, and it touches neither the registry nor the channel.
LEMMA SyncSteps ==
    ASSUME SyncTypeOK, [SyncNext]_syncVars
    PROVE  [Next]_vars \/ UNCHANGED <<peers, calls, events, restarts>>
<1>1. ASSUME NEW s \in Subscribers, Turn(s)
      PROVE  UNCHANGED <<peers, calls, events, restarts>>
  BY <1>1, TurnSeen
<1>2. CASE UNCHANGED syncVars
  BY <1>2 DEF syncVars, vars
<1>3. CASE SyncHandlers
  BY <1>3 DEF SyncHandlers, SyncPublish, SyncRegister, Handlers, Next
<1>4. CASE SyncRestart
  BY <1>4 DEF SyncRestart, Next
<1> QED BY <1>1, <1>2, <1>3, <1>4 DEF SyncNext, SyncStreams, Turn

SyncRegistryInv == SyncTypeOK /\ UniqueAddresses /\ UniqueKeys

\* Addresses and keys stay unique whatever the devices do with their streams.
LEMMA SyncRegistryCorrect == SyncSpec => []SyncRegistryInv
<1>1. SyncInit => SyncRegistryInv
  BY SyncInitTypeOK
     DEF SyncInit, Init, SyncRegistryInv, UniqueAddresses, UniqueKeys, Registered
<1>2. SyncRegistryInv /\ [SyncNext]_syncVars => SyncRegistryInv'
  <2> SUFFICES ASSUME SyncRegistryInv, [SyncNext]_syncVars PROVE SyncRegistryInv'
    OBVIOUS
  <2>1. SyncTypeOK'
    BY NextSyncTypeOK DEF SyncRegistryInv
  <2>2. CASE [Next]_vars
    BY <2>1, <2>2, NextUnique DEF SyncRegistryInv, SyncTypeOK
  <2>3. CASE UNCHANGED peers
    BY <2>1, <2>3 DEF SyncRegistryInv, UniqueAddresses, UniqueKeys, Registered
  <2> QED BY <2>2, <2>3, SyncSteps DEF SyncRegistryInv
<1> QED BY <1>1, <1>2, PTL DEF SyncSpec

\* Addresses stay leased as the coordinator alone promises, also with devices
\* that come and go, give up their streams and live through its restarts
\* (registry.rs:107-141).
THEOREM CompositionImplementsLeases == SyncSpec => LeasesSpec
<1>1. SyncInit => AddressLeases!Init
  BY DEF SyncInit, Init, AddressLeases!Init, holder, UsesVirtualAddress, Registered
<1>2. ASSUME SyncRegistryInv, [SyncNext]_syncVars
      PROVE  [AddressLeases!Grow \/ AddressLeases!Reset]_holder
  <2>1. CASE [Next]_vars
    BY <1>2, <2>1, RegistryLeases DEF SyncRegistryInv, SyncTypeOK, RegistryInv
  <2>2. CASE UNCHANGED peers
    BY <2>2 DEF holder, UsesVirtualAddress, Registered
  <2> QED BY <1>2, <2>1, <2>2, SyncSteps DEF SyncRegistryInv
<1> QED BY <1>1, <1>2, SyncRegistryCorrect, PTL DEF SyncSpec, LeasesSpec, AddressLeases!Spec
-----------------------------------------------------------------------------
(* Who gives up its stream.                                                *)

\* Before any restart, whoever has registered is registered, so nobody is
\* refused and nothing on a connection ends a device's task.
NeverRefused(s) ==
    restarts = 0 =>
      /\ client[s] # "refused"
      /\ client[s] \in {"registering", "running"} => s \in Registered
      /\ streams[s].state # "closed" => s \in Registered
      /\ \A i \in DOMAIN wire[s] : ~EndsTask(wire[s][i])

LEMMA SeenNeverRefused ==
    ASSUME SyncTypeOK, UNCHANGED <<peers, restarts>>,
           NEW s \in Subscribers, Sees(s), NeverRefused(s)
    PROVE  NeverRefused(s)'
<1> SUFFICES ASSUME restarts = 0 PROVE NeverRefused(s)'
  BY DEF NeverRefused
<1>0. streams \in [Subscribers -> StreamInfo]
  BY DEF SyncTypeOK, TypeOK
<1>1. /\ client[s] # "refused"
      /\ client[s] \in {"registering", "running"} => s \in Registered
      /\ streams[s].state # "closed" => s \in Registered
      /\ \A i \in DOMAIN wire[s] : ~EndsTask(wire[s][i])
  BY DEF NeverRefused
<1>2. ~Refuses(s)
  BY <1>1 DEF Refuses
<1>3. client'[s] \in {client[s], "failed"}
  BY <1>1 DEF Sees, Idles, Closes, Connects, Serves, Refuses, Skips, Relays, Lags, Reads, Fails
<1>4. streams'[s].state # "closed" => s \in Registered
  BY <1>0, <1>1, <1>2
     DEF Sees, Idles, Closes, Connects, Serves, Skips, Relays, Lags, Reads, Fails, Running,
         StreamInfo
<1>5. ASSUME NEW j \in DOMAIN wire'[s] PROVE ~EndsTask(wire'[s][j])
  <2>1. \/ \E i \in DOMAIN wire[s] : wire'[s][j] = wire[s][i]
        \/ wire'[s][j].kind \in {"peers", "peer"}
    <3>1. \/ \E i \in DOMAIN wire[s] : wire'[s][j] = wire[s][i]
          \/ wire'[s][j] = [kind |-> "peers", peers |-> CollectPeersFor(peers, s)]
          \/ wire'[s][j] = PeerEvent(events[streams[s].next])
      BY <1>2, <1>5, WireSeen
    <3> QED BY <3>1 DEF PeerEvent
  <2> QED BY <1>1, <2>1 DEF EndsTask
<1> QED BY <1>1, <1>3, <1>4, <1>5 DEF NeverRefused, Registered

\* As long as the coordinator has not restarted, no lost connection, slow
\* reader or order of registration and subscription makes it refuse the stream
\* of a device that started (runtime.rs:141-153, api.rs:69-113); what ends the
\* stream besides is an error of the device itself.
THEOREM RefusalsNeedRestart == SyncSpec => []OnlyRestartRefuses
<1> DEFINE Inv == \A s \in Subscribers : NeverRefused(s)
<1>1. SyncInit => Inv
  BY DEF SyncInit, Init, NeverRefused
<1>2. SyncTypeOK /\ Inv /\ [SyncNext]_syncVars => Inv'
  <2> SUFFICES ASSUME SyncTypeOK, Inv, [SyncNext]_syncVars, NEW s \in Subscribers
               PROVE  NeverRefused(s)'
    OBVIOUS
  <2>0. TypeOK /\ NeverRefused(s) /\ restarts \in Nat
    BY BoundsAssumption DEF SyncTypeOK, TypeOK
  <2>1. CASE UNCHANGED syncVars
    BY <2>0, <2>1 DEF syncVars, vars, NeverRefused, Registered
  <2>2. ASSUME NEW c \in Calls, NEW d \in Devices, NEW k \in Keys, NEW list \in EndpointLists,
               SyncRegister(c, d, k, list)
        PROVE  NeverRefused(s)'
    <3>1. Registered' = Registered \cup {d}
      BY <2>0, <2>2, RegisterFiles DEF SyncRegister, Files
    <3>2. /\ UNCHANGED <<streams, wire, restarts>>
          /\ client'[s] = IF s = d /\ client[s] = "new" THEN "registering" ELSE client[s]
      BY <2>2 DEF SyncRegister, Register
    <3> QED BY <2>0, <3>1, <3>2 DEF NeverRefused
  <2>3. ASSUME NEW c \in Calls, SyncPublish(c) PROVE NeverRefused(s)'
    BY <2>0, <2>3, PublishSeen DEF SyncPublish, Publish, NeverRefused, Registered
  <2>4. ASSUME NEW t \in Subscribers, Turn(t) PROVE NeverRefused(s)'
    BY <2>0, <2>4, TurnSeen, SeenNeverRefused
  <2>5. CASE SyncRestart
    BY <2>0, <2>5 DEF SyncRestart, Restart, NeverRefused
  <2> QED BY <2>1, <2>2, <2>3, <2>4, <2>5 DEF SyncNext, SyncHandlers, SyncStreams, Turn
<1>3. SyncTypeOK /\ Inv => OnlyRestartRefuses
  BY BoundsAssumption DEF SyncTypeOK, TypeOK, NeverRefused, OnlyRestartRefuses
<1> QED BY <1>1, <1>2, <1>3, SyncTypeCorrect, PTL DEF SyncSpec
-----------------------------------------------------------------------------
(* Tables that stay unambiguous.                                           *)

\* The registry files the device of info under info's key and address.
Recorded(info) ==
    /\ info.device_id \in Registered
    /\ peers[info.device_id].public_key = info.public_key
    /\ peers[info.device_id].address = info.address

\* Everything the coordinator has in a handler, in the channel or on a
\* connection is recorded, and never addressed to the device it is about.
SentRecorded ==
    /\ \A c \in Pending :
         /\ Recorded(calls[c].device)
         /\ \A info \in calls[c].peers :
              Recorded(info) /\ info.device_id # calls[c].device.device_id
    /\ \A i \in DOMAIN events : Recorded(events[i])
    /\ \A s \in Subscribers : \A i \in DOMAIN wire[s] : \A info \in wire[s][i].peers :
         Recorded(info) /\ info.device_id # s

TableRecorded(s) == \A k \in DOMAIN table[s] : Recorded(table[s][k])

\* A table from before a restart: no update reaches it before a snapshot
\* replaces it.
BehindSnapshot(s) ==
    /\ \A i \in DOMAIN wire[s] :
         wire[s][i].kind = "peer" => \E j \in DOMAIN wire[s] : j < i /\ wire[s][j].kind = "peers"
    /\ streams[s].state \in {"streaming", "lagged"} =>
         \E j \in DOMAIN wire[s] : wire[s][j].kind = "peers"

TableApart(s) ==
    \A k \in DOMAIN table[s] :
      /\ table[s][k].device_id # s
      /\ \A j \in DOMAIN table[s] :
           \/ table[s][j].address = table[s][k].address
           \/ table[s][j].device_id = table[s][k].device_id
           => j = k

TableInv(s) == TableApart(s) /\ (TableRecorded(s) \/ BehindSnapshot(s))

TablesInv == SentRecorded /\ \A s \in Subscribers : TableInv(s)

\* Two recorded infos agree on the device, the key and the address together.
LEMMA RecordedAgree ==
    ASSUME UniqueAddresses, UniqueKeys, NEW a, NEW b, Recorded(a), Recorded(b),
           \/ a.device_id = b.device_id
           \/ a.address = b.address
    PROVE  a.public_key = b.public_key
BY DEF Recorded, UniqueAddresses, UniqueKeys

LEMMA RecordedApart ==
    ASSUME UniqueAddresses, UniqueKeys, NEW s, NEW t, IsTable(t),
           \A k \in DOMAIN t : Recorded(t[k]) /\ t[k].device_id # s
    PROVE  \A k \in DOMAIN t :
             /\ t[k].device_id # s
             /\ \A j \in DOMAIN t :
                  \/ t[j].address = t[k].address
                  \/ t[j].device_id = t[k].device_id
                  => j = k
<1> SUFFICES ASSUME NEW k \in DOMAIN t, NEW j \in DOMAIN t,
                    \/ t[j].address = t[k].address
                    \/ t[j].device_id = t[k].device_id
             PROVE  j = k
  OBVIOUS
<1>1. t[j].public_key = t[k].public_key
  BY RecordedAgree
<1> QED BY <1>1 DEF IsTable

\* A device that keeps its key stays recorded as it was when it registers
\* again, and nobody else's record changes.
LEMMA RegisterKeepsRecords ==
    ASSUME TypeOK, ~KeyRotation, NEW c \in Calls, NEW d \in Devices, NEW k \in Keys,
           NEW list \in EndpointLists, Register(c, d, k, list),
           NEW info, Recorded(info)
    PROVE  Recorded(info)'
<1>1. PICK a \in PeerAddresses(d) :
        peers' = Insert(peers, d, [device_id |-> d, public_key |-> k, address |-> a,
                                   endpoints |-> DedupEndpoints(list)])
  BY DEF Register
<1>2. d \in Registered => peers[d].public_key = k /\ peers[d].address = a
  BY <1>1 DEF Register, PeerAddresses
<1>3. Registered' = Registered \cup {d}
  BY <1>1 DEF Insert, Registered
<1>4. \A p \in Registered : /\ peers'[p].public_key = peers[p].public_key
                            /\ peers'[p].address = peers[p].address
  BY <1>1, <1>2 DEF Insert, Registered
<1> QED BY <1>3, <1>4 DEF Recorded

\* The registry's own infos are recorded.
LEMMA CollectedRecorded ==
    ASSUME TypeOK, NEW d, NEW info \in CollectPeersFor(peers, d)
    PROVE  Recorded(info) /\ info.device_id # d
BY DEF TypeOK, CollectPeersFor, Recorded, Registered

LEMMA RegisterSends ==
    ASSUME TypeOK, ~KeyRotation, SentRecorded,
           NEW c \in Calls, NEW d \in Devices, NEW k \in Keys,
           NEW list \in EndpointLists, Register(c, d, k, list)
    PROVE  SentRecorded'
<1>0. \A info : Recorded(info) => Recorded(info)'
  BY RegisterKeepsRecords
<1>1. PICK info \in DeviceInfo :
        /\ Files(d, info)
        /\ calls' = [calls EXCEPT ![c] =
                      [device |-> info, peers |-> CollectPeersFor(peers', d)]]
  BY RegisterFiles
<1>2. UNCHANGED <<events, wire>> /\ calls \in [Calls -> {NoCall} \cup Registration]
  BY DEF Register, TypeOK
<1>3. ASSUME NEW b \in Pending'
      PROVE  /\ Recorded(calls[b].device)'
             /\ \A x \in calls'[b].peers :
                  Recorded(x)' /\ x.device_id # calls'[b].device.device_id
  <2>1. CASE b = c
    <3>1. calls'[b] = [device |-> info, peers |-> CollectPeersFor(peers', d)]
      BY <1>1, <1>2, <2>1
    <3>2. Recorded(info)'
      BY <1>1 DEF Files, Recorded
    <3>3. info.device_id = d
      BY <1>1 DEF Files
    <3>4. TypeOK'
      BY RegisterTypeOK
    <3>5. \A x \in CollectPeersFor(peers', d) : Recorded(x)' /\ x.device_id # d
      BY <3>4 DEF TypeOK, CollectPeersFor, Recorded, Registered
    <3> QED BY <3>1, <3>2, <3>3, <3>5 DEF Recorded
  <2>2. CASE b # c
    <3>1. b \in Pending /\ calls'[b] = calls[b]
      BY <1>1, <1>2, <1>3, <2>2 DEF Pending
    <3> QED BY <1>0, <3>1 DEF SentRecorded, Recorded
  <2> QED BY <2>1, <2>2
<1>4. \A i \in DOMAIN events : Recorded(events[i])'
  BY <1>0, <1>2 DEF SentRecorded, Recorded
<1>5. \A s \in Subscribers : \A i \in DOMAIN wire[s] : \A x \in wire[s][i].peers :
        Recorded(x)' /\ x.device_id # s
  BY <1>0 DEF SentRecorded
<1> QED BY <1>2, <1>3, <1>4, <1>5 DEF SentRecorded, Recorded

LEMMA PublishSends ==
    ASSUME TypeOK, SentRecorded, NEW c \in Calls, Publish(c)
    PROVE  SentRecorded'
<1>1. calls[c].device \in DeviceInfo /\ events \in Seq(DeviceInfo) /\ c \in Pending
  BY ResponseType DEF Publish, TypeOK, Pending
<1>2. \A i \in DOMAIN events' : \/ i \in DOMAIN events /\ events'[i] = events[i]
                                \/ events'[i] = calls[c].device
  <2>1. events' = Append(events, calls[c].device)
    BY DEF Publish
  <2> QED BY <1>1, <2>1
<1>3. \A b \in Pending' : b \in Pending /\ calls'[b] = calls[b]
  BY DEF Publish, Pending, TypeOK
<1>4. UNCHANGED <<peers, wire>>
  BY DEF Publish
<1> QED BY <1>1, <1>2, <1>3, <1>4 DEF SentRecorded, Recorded, Registered

\* What a stream sends is recorded, and no stream sends a device its own info.
LEMMA SeenSends ==
    ASSUME SyncTypeOK, SentRecorded, NEW s \in Subscribers, Sees(s)
    PROVE  \A j \in DOMAIN wire'[s] : \A info \in wire'[s][j].peers :
             Recorded(info) /\ info.device_id # s
<1> SUFFICES ASSUME NEW j \in DOMAIN wire'[s], NEW info \in wire'[s][j].peers
             PROVE  Recorded(info) /\ info.device_id # s
  OBVIOUS
<1>1. CASE \E i \in DOMAIN wire[s] : wire'[s][j] = wire[s][i]
  BY <1>1 DEF SentRecorded
<1>2. CASE wire'[s][j] = [kind |-> "peers", peers |-> CollectPeersFor(peers, s)]
  BY <1>2, CollectedRecorded DEF SyncTypeOK
<1>3. CASE Relays(s) /\ wire'[s][j] = PeerEvent(events[streams[s].next])
  <2>1. info = events[streams[s].next]
    BY <1>3 DEF PeerEvent
  <2>2. streams[s].next \in DOMAIN events /\ info.device_id # s
    BY <1>3, <2>1 DEF Relays, SyncTypeOK, TypeOK
  <2> QED BY <2>1, <2>2 DEF SentRecorded
<1> QED BY <1>1, <1>2, <1>3, WireSeen

\* What a listener reads is recorded, so the table it makes of it is.
LEMMA TakesRecorded ==
    ASSUME SyncRegistryInv, SentRecorded, NEW s \in Subscribers, Takes(s), TableInv(s)
    PROVE  /\ IsTable(table'[s])
           /\ \A k \in DOMAIN table'[s] :
                Recorded(table'[s][k]) /\ table'[s][k].device_id # s
<1> DEFINE e == Head(wire[s])
<1>0. SyncTypeOK /\ wire[s] \in Seq(SSE)
  BY DEF SyncRegistryInv, SyncTypeOK, TypeOK
<1>1. /\ e \in SSE /\ e = wire[s][1] /\ 1 \in DOMAIN wire[s]
      /\ \A j \in DOMAIN wire[s] : ~(j < 1)
      /\ ~EndsTask(e) /\ table'[s] = ApplyEvent(table[s], e)
  BY <1>0, TailOf DEF Takes
<1> HIDE DEF e
<1>2. \A info \in e.peers : Recorded(info) /\ info.device_id # s
  BY <1>1 DEF SentRecorded
<1>3. CASE e.kind = "peers"
  <2>1. table'[s] = Replace(e.peers) /\ e.peers \in SUBSET DeviceInfo
    BY <1>1, <1>3, AppliedEvent DEF SSE
  <2> QED BY <1>2, <2>1, ReplaceTable
<1>4. CASE e.kind = "peer"
  <2>1. PICK info \in DeviceInfo : e.peers = {info}
    BY <1>0, <1>1, <1>4 DEF SyncTypeOK, SingleUpdates
  <2>2. table'[s] = Upsert(table[s], info) /\ IsTable(table[s])
    BY <1>0, <1>1, <1>4, <2>1, AppliedEvent DEF SyncTypeOK
  <2>3. ~BehindSnapshot(s)
    BY <1>1, <1>4 DEF BehindSnapshot
  <2>4. TableRecorded(s) /\ TableApart(s)
    BY <2>3 DEF TableInv
  <2>5. \A k \in DOMAIN table[s] : Recorded(table[s][k]) /\ table[s][k].device_id # s
    BY <2>4 DEF TableRecorded, TableApart
  <2>6. Recorded(info) /\ info.device_id # s
    BY <1>2, <2>1
  <2>7. /\ IsTable(table'[s])
        /\ DOMAIN table'[s] = DOMAIN table[s] \cup {info.public_key}
        /\ table'[s][info.public_key] = info
        /\ \A k \in DOMAIN table[s] \ {info.public_key} : table'[s][k] = table[s][k]
    <3> DEFINE u == Upsert(table[s], info)
    <3>1. /\ IsTable(u) /\ DOMAIN u = DOMAIN table[s] \cup {info.public_key}
          /\ u[info.public_key] = info
          /\ \A k \in DOMAIN table[s] \ {info.public_key} : u[k] = table[s][k]
      BY <2>2, UpsertTable
    <3> HIDE DEF u
    <3> QED BY <2>2, <3>1 DEF u
  <2>8. ASSUME NEW k \in DOMAIN table'[s]
        PROVE  Recorded(table'[s][k]) /\ table'[s][k].device_id # s
    <3>1. CASE k = info.public_key
      BY <2>6, <2>7, <3>1
    <3>2. CASE k # info.public_key
      BY <2>5, <2>7, <2>8, <3>2
    <3> QED BY <3>1, <3>2
  <2> QED BY <2>7, <2>8
<1> QED BY <1>1, <1>3, <1>4, AppliedEvent

LEMMA SeenBehind ==
    ASSUME SyncTypeOK, NEW s \in Subscribers, Sees(s), ~Reads(s), BehindSnapshot(s)
    PROVE  BehindSnapshot(s)'
<1>0. /\ wire[s] \in Seq(SSE) /\ streams[s] \in StreamInfo
      /\ TypeOK /\ events \in Seq(DeviceInfo)
  BY DEF SyncTypeOK, TypeOK
<1>1. CASE Connects(s) \/ Skips(s) \/ Lags(s)
  <2>1. wire'[s] = wire[s]
    BY <1>1 DEF Connects, Skips, Lags
  <2>2. streams'[s].state \in {"streaming", "lagged"} =>
          streams[s].state \in {"streaming", "lagged"}
    BY <1>0, <1>1 DEF Connects, Skips, Lags, StreamInfo
  <2> QED BY <2>1, <2>2 DEF BehindSnapshot
<1>2. CASE Idles(s)
  BY <1>2 DEF Idles, BehindSnapshot
<1>3. CASE Closes(s) \/ Fails(s)
  BY <1>0, <1>3 DEF Closes, Fails, BehindSnapshot, StreamInfo
<1>4. ASSUME NEW e \in SSE, wire'[s] = Append(wire[s], e), e.kind # "peer",
             \/ e.kind = "peers"
             \/ streams'[s].state = "ended"
      PROVE  BehindSnapshot(s)'
  <2> DEFINE n == Len(wire[s])
  <2>1. /\ n \in Nat /\ DOMAIN wire[s] = 1 .. n /\ DOMAIN wire'[s] = 1 .. n + 1
        /\ wire'[s][n + 1] = e
        /\ \A i \in 1 .. n : wire'[s][i] = wire[s][i]
    BY <1>0, <1>4, Appended
  <2> HIDE DEF n
  <2>2. ASSUME NEW i \in DOMAIN wire'[s], wire'[s][i].kind = "peer"
        PROVE  \E j \in DOMAIN wire'[s] : j < i /\ wire'[s][j].kind = "peers"
    <3>1. i \in 1 .. n /\ wire[s][i].kind = "peer"
      BY <1>4, <2>1, <2>2
    <3>2. PICK j \in 1 .. n : j < i /\ wire[s][j].kind = "peers"
      BY <2>1, <3>1 DEF BehindSnapshot
    <3>3. j \in DOMAIN wire'[s] /\ wire'[s][j] = wire[s][j]
      BY <2>1
    <3> QED BY <3>2, <3>3
  <2>3. CASE e.kind = "peers"
    BY <2>1, <2>2, <2>3 DEF BehindSnapshot
  <2>4. CASE streams'[s].state = "ended"
    BY <2>2, <2>4 DEF BehindSnapshot
  <2> QED BY <1>4, <2>3, <2>4
<1>5. CASE Serves(s)
  <2> DEFINE e == [kind |-> "peers", peers |-> CollectPeersFor(peers, s)]
  <2>1. e \in SSE /\ e.kind = "peers" /\ wire'[s] = Append(wire[s], e)
    BY <1>0, <1>5, CollectType DEF Serves, SSE
  <2> QED BY <1>4, <2>1
<1>6. CASE Refuses(s)
  <2>1. PICK x \in {"rejected", "error"} : wire'[s] = Append(wire[s], [kind |-> x, peers |-> {}])
    BY <1>6 DEF Refuses
  <2>2. [kind |-> x, peers |-> {}] \in SSE
    BY DEF SSE
  <2>3. streams'[s].state = "ended"
    BY <1>0, <1>6 DEF Refuses, StreamInfo
  <2> QED BY <1>4, <2>1, <2>2, <2>3
<1>7. CASE Relays(s)
  <2> DEFINE e == PeerEvent(events[streams[s].next])
  <2>1. e \in SSE /\ wire'[s] = Append(wire[s], e)
    BY <1>0, <1>7 DEF Relays, SSE, PeerEvent
  <2>2. PICK j \in DOMAIN wire[s] : wire[s][j].kind = "peers"
    BY <1>7 DEF Relays, BehindSnapshot
  <2> HIDE DEF e
  <2> DEFINE n == Len(wire[s])
  <2>3. /\ n \in Nat /\ DOMAIN wire[s] = 1 .. n /\ DOMAIN wire'[s] = 1 .. n + 1
        /\ \A i \in 1 .. n : wire'[s][i] = wire[s][i]
    BY <1>0, <2>1, Appended
  <2> HIDE DEF n
  <2>4. j \in 1 .. n /\ j \in DOMAIN wire'[s] /\ wire'[s][j].kind = "peers"
    BY <2>2, <2>3
  <2>5. ASSUME NEW i \in DOMAIN wire'[s], wire'[s][i].kind = "peer"
        PROVE  \E h \in DOMAIN wire'[s] : h < i /\ wire'[s][h].kind = "peers"
    <3>1. CASE i \in 1 .. n
      <4>1. PICK h \in 1 .. n : h < i /\ wire[s][h].kind = "peers"
        BY <2>3, <2>5, <3>1 DEF BehindSnapshot
      <4> QED BY <2>3, <4>1
    <3>2. CASE i = n + 1
      BY <2>3, <2>4, <3>2
    <3> QED BY <2>3, <2>5, <3>1, <3>2
  <2> QED BY <2>4, <2>5 DEF BehindSnapshot
<1> QED BY <1>1, <1>2, <1>3, <1>5, <1>6, <1>7
        DEF Sees

LEMMA SeenTableInv ==
    ASSUME SyncRegistryInv, SentRecorded, UNCHANGED peers,
           NEW s \in Subscribers, Sees(s), TableInv(s)
    PROVE  TableInv(s)'
<1>0. SyncTypeOK /\ UniqueAddresses /\ UniqueKeys
  BY DEF SyncRegistryInv
<1>1. CASE Takes(s)
  <2>1. /\ IsTable(table'[s])
        /\ \A k \in DOMAIN table'[s] :
             Recorded(table'[s][k]) /\ table'[s][k].device_id # s
    BY <1>1, TakesRecorded
  <2>2. TableApart(s)'
    BY <1>0, <2>1, RecordedApart DEF TableApart
  <2>3. TableRecorded(s)'
    BY <2>1 DEF TableRecorded, Recorded, Registered
  <2> QED BY <2>2, <2>3 DEF TableInv
<1>2. CASE ~Takes(s)
  <2>0. ~Reads(s)
    BY <1>2 DEF Reads
  <2>1. table'[s] = table[s]
    BY <1>2 DEF Sees, Idles, Closes, Connects, Serves, Refuses, Skips, Relays, Lags, Reads, Fails
  <2>2. TableApart(s)'
    BY <2>1 DEF TableInv, TableApart
  <2>3. CASE TableRecorded(s)
    BY <2>1, <2>2, <2>3 DEF TableInv, TableRecorded, Recorded, Registered
  <2>4. CASE BehindSnapshot(s)
    BY <1>0, <2>0, <2>2, <2>4, SeenBehind DEF TableInv
  <2> QED BY <2>3, <2>4 DEF TableInv
<1> QED BY <1>1, <1>2

LEMMA NextTables ==
    ASSUME ~KeyRotation, SyncRegistryInv, TablesInv, [SyncNext]_syncVars
    PROVE  TablesInv'
<1>0. SyncTypeOK /\ TypeOK /\ UniqueAddresses /\ UniqueKeys /\ SentRecorded
  BY DEF SyncRegistryInv, SyncTypeOK, TablesInv
<1>0a. \A s \in Subscribers : TableInv(s)
  BY DEF TablesInv
<1>1. CASE UNCHANGED syncVars
  BY <1>1 DEF syncVars, vars, TablesInv, SentRecorded, TableInv, TableApart, TableRecorded,
              BehindSnapshot, Recorded, Registered, Pending
<1>2. ASSUME NEW c \in Calls, NEW d \in Devices, NEW k \in Keys, NEW list \in EndpointLists,
             SyncRegister(c, d, k, list)
      PROVE  TablesInv'
  <2>1. SentRecorded'
    BY <1>0, <1>2, RegisterSends DEF SyncRegister
  <2>2. \A info : Recorded(info) => Recorded(info)'
    BY <1>0, <1>2, RegisterKeepsRecords DEF SyncRegister
  <2>3. UNCHANGED <<streams, wire, table>>
    BY <1>2 DEF SyncRegister, Register
  <2>4. ASSUME NEW s \in Subscribers PROVE TableInv(s)'
    <3>1. TableApart(s)'
      BY <1>0a, <2>3 DEF TableInv, TableApart
    <3>2. TableRecorded(s) => TableRecorded(s)'
      BY <2>2, <2>3 DEF TableRecorded, Recorded
    <3>3. BehindSnapshot(s) => BehindSnapshot(s)'
      BY <2>3 DEF BehindSnapshot
    <3> QED BY <1>0a, <3>1, <3>2, <3>3 DEF TableInv
  <2> QED BY <2>1, <2>4 DEF TablesInv
<1>3. ASSUME NEW c \in Calls, SyncPublish(c) PROVE TablesInv'
  <2>1. SentRecorded' /\ UNCHANGED peers
    BY <1>0, <1>3, PublishSends DEF SyncPublish, Publish
  <2>2. ASSUME NEW s \in Subscribers PROVE TableInv(s)'
    <3>1. UNCHANGED <<streams[s], wire[s]>>
      BY <1>0, <1>3, PublishSeen
    <3>2. CASE UNCHANGED table[s]
      BY <1>0a, <2>1, <3>1, <3>2 DEF TableInv, TableApart, TableRecorded, BehindSnapshot,
                                    Recorded, Registered
    <3>3. CASE s = calls[c].device.device_id /\ table'[s] = Replace(calls[c].peers)
      <4>1. c \in Pending /\ calls[c].peers \in SUBSET DeviceInfo
        BY <1>0, <1>3, ResponseType DEF SyncPublish, Publish, Pending
      <4>2. \A info \in calls[c].peers : Recorded(info) /\ info.device_id # s
        BY <1>0, <3>3, <4>1 DEF SentRecorded
      <4>3. /\ IsTable(table'[s])
            /\ \A k \in DOMAIN table'[s] :
                 Recorded(table'[s][k]) /\ table'[s][k].device_id # s
        BY <3>3, <4>1, <4>2, ReplaceTable
      <4>4. TableApart(s)'
        BY <1>0, <4>3, RecordedApart DEF TableApart
      <4>5. TableRecorded(s)'
        BY <2>1, <4>3 DEF TableRecorded, Recorded, Registered
      <4> QED BY <4>4, <4>5 DEF TableInv
    <3> QED BY <1>0, <1>3, <3>2, <3>3, PublishSeen
  <2> QED BY <2>1, <2>2 DEF TablesInv
<1>4. ASSUME NEW t \in Subscribers, Turn(t) PROVE TablesInv'
  <2>1. /\ UNCHANGED <<peers, calls, events, restarts>>
        /\ \A s \in Subscribers : Sees(s)
    BY <1>0, <1>4, TurnSeen
  <2>2. \A s \in Subscribers : TableInv(s)'
    BY <1>0, <1>0a, <2>1, SeenTableInv
  <2>3. \A s \in Subscribers : \A j \in DOMAIN wire'[s] : \A info \in wire'[s][j].peers :
          Recorded(info) /\ info.device_id # s
    BY <1>0, <2>1, SeenSends
  <2>4. SentRecorded'
    BY <1>0, <2>1, <2>3 DEF SentRecorded, Recorded, Registered, Pending
  <2> QED BY <2>2, <2>4 DEF TablesInv
<1>5. CASE SyncRestart
  <2>1. /\ table' = table /\ events' = <<>> /\ Pending' = {}
        /\ \A s \in Subscribers : wire'[s] = <<>> /\ streams'[s].state = "closed"
    BY <1>5 DEF SyncRestart, Restart, Pending
  <2> QED BY <1>0a, <2>1 DEF TablesInv, SentRecorded, TableInv, TableApart, BehindSnapshot
<1> QED BY <1>1, <1>2, <1>3, <1>4, <1>5 DEF SyncNext, SyncHandlers, SyncStreams, Turn

LEMMA TablesCorrect ==
    ASSUME ~KeyRotation
    PROVE  SyncSpec => []TablesInv
<1>1. SyncInit => TablesInv
  <2> SUFFICES ASSUME SyncInit PROVE TablesInv
    OBVIOUS
  <2>1. /\ events = <<>> /\ Pending = {}
        /\ \A s \in Subscribers : wire[s] = <<>> /\ table[s] = EmptyTable
    BY DEF SyncInit, Init, Pending
  <2> QED BY <2>1 DEF TablesInv, SentRecorded, TableInv, TableApart, TableRecorded, EmptyTable
<1>2. SyncRegistryInv /\ TablesInv /\ [SyncNext]_syncVars => TablesInv'
  BY NextTables
<1> QED BY <1>1, <1>2, SyncRegistryCorrect, PTL DEF SyncSpec

\* While every device keeps its key, no table ever holds two devices under one
\* address or one device twice, nor its own device, through restarts, stale
\* responses and replayed updates alike (peer.rs:251-285).
THEOREM TablesStayUnambiguous ==
    ASSUME ~KeyRotation
    PROVE  SyncSpec => []UnambiguousTable
<1>1. TablesInv => UnambiguousTable
  BY DEF TablesInv, TableInv, TableApart, UnambiguousTable
<1> QED BY <1>1, TablesCorrect, PTL
-----------------------------------------------------------------------------
(* Updates that are not lost.                                              *)

\* A key changes hands in channel order: an update of its former holder is
\* followed by one of its present holder, or will be.
KeysHandedOver ==
    \A p \in Registered : \A i \in DOMAIN events :
      events[i].public_key = peers[p].public_key /\ events[i].device_id # p =>
        PendingOf(p) # {} \/ UpdatesOf(p, i + 1) # {}

\* Snapshots on a connection name no key twice; the cursor of a stream stays
\* within the channel; only a running device has a stream.
StreamInOrder(s) ==
    /\ \A i \in DOMAIN wire[s] : wire[s][i].kind = "peers" => KeysApart(wire[s][i].peers)
    /\ streams[s].next <= Len(events) + 1
    /\ streams[s].state # "closed" => Running(s)

\* The update of p reaches s, or is on its way.
OnItsWay(s, p) ==
    \/ WillKnow(s, p)
    \/ PendingOf(p) # {}
    \/ UpdatesOf(p, streams[s].next) # {}
    \/ streams[s].next < Oldest

StreamTells(s) ==
    streams[s].state = "streaming" => \A p \in Registered \ {s} : OnItsWay(s, p)

DeliveryInv ==
    /\ PendingCurrent /\ Announced /\ KeysHandedOver
    /\ \A s \in Subscribers : StreamInOrder(s) /\ StreamTells(s)

LEMMA SeenInOrder ==
    ASSUME SyncRegistryInv, UNCHANGED events, NEW s \in Subscribers, Sees(s), StreamInOrder(s)
    PROVE  StreamInOrder(s)'
<1>0. /\ SyncTypeOK /\ TypeOK /\ UniqueKeys
      /\ streams[s] \in StreamInfo /\ streams[s].next \in Nat
      /\ Len(events) \in Nat /\ Oldest \in 1 .. Len(events) + 1
  BY OldestType DEF SyncRegistryInv, SyncTypeOK, TypeOK, StreamInfo
<1>1. ASSUME NEW j \in DOMAIN wire'[s], wire'[s][j].kind = "peers"
      PROVE  KeysApart(wire'[s][j].peers)
  <2>1. CASE \E i \in DOMAIN wire[s] : wire'[s][j] = wire[s][i]
    BY <1>1, <2>1 DEF StreamInOrder
  <2>2. CASE wire'[s][j] = [kind |-> "peers", peers |-> CollectPeersFor(peers, s)]
    BY <1>0, <2>2 DEF KeysApart, CollectPeersFor, UniqueKeys, Registered
  <2>3. CASE wire'[s][j].kind \in {"rejected", "error"}
    BY <1>1, <2>3
  <2>4. CASE wire'[s][j] = PeerEvent(events[streams[s].next])
    BY <1>1, <2>4 DEF PeerEvent
  <2> QED BY <1>0, <1>1, <2>1, <2>2, <2>3, <2>4, WireSeen
<1>2. CASE streams'[s].state = "closed"
  <2>1. streams'[s].next = streams[s].next \/ streams'[s].next <= Len(events) + 1
    BY <1>0, <1>2
       DEF Sees, Idles, Closes, Connects, Serves, Refuses, Skips, Relays, Lags, Reads, Takes,
           Fails, StreamInfo
  <2> QED BY <1>1, <1>2, <2>1 DEF StreamInOrder
<1>3. CASE streams'[s].state # "closed"
  <2>0. ~Closes(s) /\ ~Fails(s)
    BY <1>0, <1>3 DEF Closes, Fails, StreamInfo
  <2>1. client'[s] = client[s]
    BY <2>0 DEF Sees, Idles, Closes, Connects, Serves, Refuses, Skips, Relays, Lags, Reads
  <2>2. streams[s].state # "closed" \/ Running(s)
    BY <1>3, <2>0 DEF Sees, Idles, Connects, Serves, Refuses, Skips, Relays, Lags, Reads
  <2>3. streams'[s].next <= Len(events) + 1
    BY <1>0, <1>3
       DEF Sees, Idles, Closes, Connects, Serves, Refuses, Skips, Relays, Lags, Reads, Fails,
           StreamInfo, StreamInOrder
  <2> QED BY <1>1, <2>1, <2>2, <2>3 DEF StreamInOrder, Running
<1> QED BY <1>2, <1>3

\* An event that concerns p and names its current registration is the last
\* word on it; one that does not concern p changes nothing for it.
LEMMA AppendTells ==
    ASSUME SyncTypeOK, UNCHANGED peers, NEW s \in Subscribers, NEW p, NEW e \in SSE,
           wire'[s] = Append(wire[s], e),
           Concerns(e, peers[p].public_key), peers[p] \in e.peers
    PROVE  WillKnow(s, p)'
<1> DEFINE n == Len(wire[s])
           k == peers[p].public_key
<1>1. /\ n \in Nat /\ DOMAIN wire'[s] = 1 .. n + 1 /\ wire'[s][n + 1] = e
  BY Appended DEF SyncTypeOK, TypeOK
<1>2. n + 1 \in Concerning(s, k)' /\ \A j \in Concerning(s, k)' : j <= n + 1
  BY <1>1 DEF Concerning, Concerns
<1>3. peers'[p] \in wire'[s][n + 1].peers
  BY <1>1
<1> QED BY <1>2, <1>3 DEF WillKnow

LEMMA AppendKeeps ==
    ASSUME SyncTypeOK, UNCHANGED peers, NEW s \in Subscribers, NEW p, NEW e \in SSE,
           wire'[s] = Append(wire[s], e), table'[s] = table[s],
           ~Concerns(e, peers[p].public_key), WillKnow(s, p)
    PROVE  WillKnow(s, p)'
<1> DEFINE n == Len(wire[s])
           k == peers[p].public_key
<1>1. /\ n \in Nat /\ DOMAIN wire[s] = 1 .. n
      /\ DOMAIN wire'[s] = 1 .. n + 1 /\ wire'[s][n + 1] = e
      /\ \A i \in 1 .. n : wire'[s][i] = wire[s][i]
  BY Appended DEF SyncTypeOK, TypeOK
<1> HIDE DEF n
<1>2. Concerning(s, k)' = Concerning(s, k)
  BY <1>1 DEF Concerning, Concerns
<1>3. \A i \in Concerning(s, k) : wire'[s][i] = wire[s][i]
  BY <1>1 DEF Concerning
<1>4. KnowsCurrent(table[s], p) => KnowsCurrent(table[s], p)'
  BY DEF KnowsCurrent
<1> QED BY <1>2, <1>3 DEF WillKnow, KnowsCurrent

\* A snapshot tells everything the registry holds.
LEMMA ServesTells ==
    ASSUME SyncTypeOK, UNCHANGED peers, NEW s \in Subscribers, Serves(s),
           NEW p \in Registered \ {s}
    PROVE  WillKnow(s, p)'
<1> DEFINE e == [kind |-> "peers", peers |-> CollectPeersFor(peers, s)]
<1>1. e \in SSE /\ wire'[s] = Append(wire[s], e)
  BY CollectType DEF Serves, SSE, SyncTypeOK
<1>2. Concerns(e, peers[p].public_key)
  BY DEF Concerns
<1>3. peers[p] \in e.peers
  BY DEF CollectPeersFor, Registered
<1> HIDE DEF e
<1> QED BY <1>1, <1>2, <1>3, AppendTells

\* Reading the connection does not change what it will have told.
LEMMA ReadsKeeps ==
    ASSUME SyncTypeOK, UNCHANGED peers, NEW s \in Subscribers, Reads(s),
           StreamInOrder(s), NEW p \in Registered, WillKnow(s, p)
    PROVE  WillKnow(s, p)'
<1> DEFINE e == Head(wire[s])
           n == Len(wire[s])
           k == peers[p].public_key
<1>1. /\ n \in Nat \ {0} /\ DOMAIN wire[s] = 1 .. n
      /\ e \in SSE /\ e = wire[s][1] /\ 1 \in DOMAIN wire[s]
      /\ DOMAIN wire'[s] = 1 .. n - 1
      /\ \A i \in 1 .. n - 1 : wire'[s][i] = wire[s][i + 1]
      /\ ~EndsTask(e) /\ table'[s] = ApplyEvent(table[s], e)
  BY TailOf DEF Reads, Takes, SyncTypeOK, TypeOK
<1> HIDE DEF e, n
<1>2. peers[p] \in DeviceInfo
  BY DEF SyncTypeOK, TypeOK
<1>3. Concerning(s, k)' = {i \in 1 .. n - 1 : i + 1 \in Concerning(s, k)}
  <2>1. Concerning(s, k)' = {i \in 1 .. n - 1 : Concerns(wire'[s][i], k)}
    BY <1>1 DEF Concerning, Concerns
  <2>2. \A i \in 1 .. n - 1 : Concerns(wire'[s][i], k) <=> i + 1 \in Concerning(s, k)
    BY <1>1 DEF Concerning, Concerns
  <2> QED BY <2>1, <2>2
<1>4. CASE \E i \in Concerning(s, k) : i > 1
  <2>1. PICK i \in Concerning(s, k) : /\ \A j \in Concerning(s, k) : j <= i
                                      /\ peers[p] \in wire[s][i].peers
    BY <1>4 DEF WillKnow
  <2>2. i \in 2 .. n
    BY <1>1, <1>4, <2>1 DEF Concerning
  <2>3. i - 1 \in 1 .. n - 1 /\ (i - 1) + 1 = i
    BY <1>1, <2>2
  <2>4. i - 1 \in Concerning(s, k)' /\ wire'[s][i - 1] = wire[s][i]
    BY <1>1, <1>3, <2>1, <2>3
  <2>5. \A j \in Concerning(s, k)' : j <= i - 1
    BY <1>1, <1>3, <2>1, <2>2
  <2> QED BY <2>1, <2>4, <2>5 DEF WillKnow
<1>5. CASE ~\E i \in Concerning(s, k) : i > 1
  <2>1. Concerning(s, k)' = {}
    BY <1>1, <1>3, <1>5
  <2>2. Concerning(s, k) \subseteq {1} /\ (1 \in Concerning(s, k) <=> Concerns(e, k))
    BY <1>1, <1>5 DEF Concerning
  <2>3. KnowsCurrent(table'[s], p)
    <3>1. CASE ~Concerns(e, k)
      <4>1. KnowsCurrent(table[s], p)
        BY <2>2, <3>1 DEF WillKnow
      <4>2. e.kind = "peer"
        BY <1>1, <3>1, AppliedEvent DEF Concerns
      <4>3. PICK info \in DeviceInfo : e.peers = {info}
        BY <1>1, <4>2 DEF SyncTypeOK, SingleUpdates
      <4>4. table'[s] = Upsert(table[s], info) /\ info.public_key # k
        BY <1>1, <3>1, <4>2, <4>3, AppliedEvent DEF Concerns
      <4>5. IsTable(table[s])
        BY DEF SyncTypeOK
      <4>6. /\ DOMAIN table'[s] = DOMAIN table[s] \cup {info.public_key}
            /\ \A j \in DOMAIN table[s] \ {info.public_key} : table'[s][j] = table[s][j]
        BY <4>4, <4>5, UpsertTable
      <4> QED BY <4>1, <4>4, <4>6 DEF KnowsCurrent
    <3>2. CASE Concerns(e, k)
      <4>1. peers[p] \in e.peers
        BY <1>1, <2>2, <3>2 DEF WillKnow
      <4>2. CASE e.kind = "peers"
        <5>1. KeysApart(e.peers) /\ e.peers \in SUBSET DeviceInfo
          BY <1>1, <4>2 DEF StreamInOrder, SSE
        <5>2. table'[s] = Replace(e.peers)
          BY <1>1, <4>2, AppliedEvent
        <5> QED BY <4>1, <5>1, <5>2, ReplaceTable DEF KnowsCurrent
      <4>3. CASE e.kind = "peer"
        <5>1. e.peers = {peers[p]}
          BY <1>1, <4>1, <4>3 DEF SyncTypeOK, SingleUpdates
        <5>2. table'[s] = Upsert(table[s], peers[p])
          BY <1>1, <4>3, <5>1, AppliedEvent
        <5>3. IsTable(table[s])
          BY DEF SyncTypeOK
        <5>4. k \in DOMAIN table'[s] /\ table'[s][k] = peers[p]
          <6>1. \A info \in DeviceInfo :
                  /\ DOMAIN Upsert(table[s], info) = DOMAIN table[s] \cup {info.public_key}
                  /\ Upsert(table[s], info)[info.public_key] = info
            BY <5>3, UpsertTable
          <6> QED BY <1>2, <5>2, <6>1
        <5> QED BY <5>4 DEF KnowsCurrent
      <4> QED BY <3>2, <4>2, <4>3 DEF Concerns
    <3> QED BY <3>1, <3>2
  <2> QED BY <2>1, <2>3 DEF WillKnow, KnowsCurrent
<1> QED BY <1>4, <1>5

\* The stream forwards an update of device q: what it takes from the channel
\* it puts on the connection, and nobody else's last word is overtaken.
LEMMA RelaysTells ==
    ASSUME SyncTypeOK, Announced, KeysHandedOver, UNCHANGED <<peers, calls, events>>,
           NEW s \in Subscribers, Relays(s) \/ Skips(s),
           NEW p \in Registered \ {s}, OnItsWay(s, p)
    PROVE  OnItsWay(s, p)'
<1> DEFINE i == streams[s].next
           info == events[i]
<1>0. /\ events \in Seq(DeviceInfo) /\ streams[s] \in StreamInfo /\ TypeOK
      /\ i \in 1 .. Len(events) /\ Len(events) \in Nat /\ Oldest <= i /\ Oldest \in Nat
      /\ info \in DeviceInfo /\ i \in DOMAIN events
      /\ streams'[s].next = i + 1
  BY OldestType DEF SyncTypeOK, TypeOK, Relays, Skips, StreamInfo
<1>1. CASE PendingOf(p) # {}
  BY <1>1 DEF OnItsWay, PendingOf, Pending
<1>2. CASE UpdatesOf(p, i + 1) # {}
  BY <1>0, <1>2 DEF OnItsWay, UpdatesOf
<1>3. CASE PendingOf(p) = {} /\ UpdatesOf(p, i + 1) = {}
  <2>1. UpdatesOf(p, i) \subseteq {i}
    BY <1>0, <1>3 DEF UpdatesOf
  <2>2. WillKnow(s, p) \/ info.device_id = p
    BY <1>0, <1>3, <2>1 DEF OnItsWay, UpdatesOf
  <2>3. info.device_id = p => info = peers[p]
    <3> SUFFICES ASSUME info.device_id = p PROVE info = peers[p]
      OBVIOUS
    <3>1. PICK h \in UpdatesOf(p, 1) : events[h] = peers[p] /\ \A j \in UpdatesOf(p, 1) : j <= h
      BY <1>3 DEF Announced
    <3>2. i \in UpdatesOf(p, 1)
      BY <1>0 DEF UpdatesOf
    <3>3. h = i
      BY <1>0, <1>3, <3>1, <3>2 DEF UpdatesOf
    <3> QED BY <3>1, <3>3
  <2>4. CASE Skips(s)
    <3>1. WillKnow(s, p)
      BY <2>2, <2>4 DEF Skips
    <3> QED BY <3>1, <2>4 DEF Skips, OnItsWay, WillKnow, Concerning, Concerns, KnowsCurrent
  <2>5. CASE Relays(s)
    <3> DEFINE e == PeerEvent(info)
    <3>1. /\ e \in SSE /\ e.kind = "peer" /\ e.peers = {info}
          /\ wire'[s] = Append(wire[s], e) /\ table'[s] = table[s]
      BY <1>0, <2>5 DEF Relays, PeerEvent, SSE
    <3> HIDE DEF e
    <3>2. CASE info.device_id = p
      <4>1. Concerns(e, peers[p].public_key) /\ peers[p] \in e.peers
        BY <2>3, <3>1, <3>2 DEF Concerns
      <4> QED BY <3>1, <4>1, AppendTells DEF OnItsWay
    <3>3. CASE info.device_id # p
      <4>1. info.public_key # peers[p].public_key
        BY <1>0, <1>3, <3>3 DEF KeysHandedOver
      <4>2. ~Concerns(e, peers[p].public_key)
        BY <3>1, <4>1 DEF Concerns
      <4> QED BY <2>2, <3>1, <3>3, <4>2, AppendKeeps DEF OnItsWay
    <3> QED BY <3>2, <3>3
  <2> QED BY <2>4, <2>5
<1> QED BY <1>1, <1>2, <1>3

LEMMA SeenTells ==
    ASSUME SyncRegistryInv, Announced, KeysHandedOver, UNCHANGED <<peers, calls, events>>,
           NEW s \in Subscribers, Sees(s), StreamInOrder(s), StreamTells(s)
    PROVE  StreamTells(s)'
<1>0. SyncTypeOK /\ streams[s] \in StreamInfo
  BY DEF SyncRegistryInv, SyncTypeOK, TypeOK
<1>1. SUFFICES ASSUME streams'[s].state = "streaming", NEW p \in Registered \ {s}
               PROVE  OnItsWay(s, p)'
  BY DEF StreamTells, Registered
<1>2. CASE Serves(s)
  BY <1>0, <1>2, ServesTells DEF OnItsWay
<1>3. CASE ~Serves(s)
  <2>1. streams[s].state = "streaming"
    BY <1>0, <1>1, <1>3 DEF Sees, Idles, Closes, Connects, Refuses, Skips, Relays, Lags, Reads, Fails,
                            StreamInfo
  <2>2. OnItsWay(s, p)
    BY <2>1 DEF StreamTells
  <2>3. CASE Relays(s) \/ Skips(s)
    BY <1>0, <2>2, <2>3, RelaysTells
  <2>4. CASE Reads(s)
    <3>1. WillKnow(s, p) => WillKnow(s, p)'
      BY <1>0, <2>4, ReadsKeeps
    <3>2. UNCHANGED streams[s]
      BY <2>4 DEF Reads
    <3> QED BY <2>2, <3>1, <3>2 DEF OnItsWay, PendingOf, Pending, UpdatesOf, Oldest
  <2>5. CASE Idles(s)
    BY <2>2, <2>5 DEF Idles, OnItsWay, WillKnow, Concerning, Concerns, KnowsCurrent,
                      PendingOf, Pending, UpdatesOf, Oldest
  <2> QED BY <1>0, <1>1, <1>3, <2>1, <2>3, <2>4, <2>5
          DEF Sees, Closes, Connects, Refuses, Lags, Fails, StreamInfo
<1> QED BY <1>2, <1>3

\* A registration is in a handler afterwards, and no other leaves its handler.
LEMMA RegisterPends ==
    ASSUME TypeOK, NEW c \in Calls, NEW d \in Devices, NEW k \in Keys,
           NEW list \in EndpointLists, Register(c, d, k, list)
    PROVE  /\ PendingOf(d)' # {}
           /\ Registered' = Registered \cup {d}
           /\ \A p \in Registered \ {d} : peers'[p] = peers[p] /\ PendingOf(p) \subseteq PendingOf(p)'
<1>1. PICK info \in DeviceInfo :
        /\ Files(d, info)
        /\ calls' = [calls EXCEPT ![c] =
                      [device |-> info, peers |-> CollectPeersFor(peers', d)]]
  BY RegisterFiles
<1>2. calls \in [Calls -> {NoCall} \cup Registration] /\ calls[c] = NoCall
  BY DEF TypeOK, Register
<1>3. TypeOK'
  BY RegisterTypeOK
<1>4. [device |-> info, peers |-> CollectPeersFor(peers', d)] \in Registration
  BY <1>3 DEF TypeOK, CollectPeersFor, Registered, Registration
<1>5. calls'[c] # NoCall /\ calls'[c].device.device_id = d
  BY <1>1, <1>2, <1>4, NoCallAssumption DEF Files
<1>6. \A b \in Pending : b \in Pending' /\ calls'[b] = calls[b]
  BY <1>1, <1>2 DEF Pending
<1> QED BY <1>1, <1>5, <1>6 DEF PendingOf, Pending, Files

LEMMA RegisterDelivers ==
    ASSUME SyncRegistryInv, ~Overlapping, DeliveryInv,
           NEW c \in Calls, NEW d \in Devices, NEW k \in Keys, NEW list \in EndpointLists,
           SyncRegister(c, d, k, list)
    PROVE  DeliveryInv'
<1>0. TypeOK /\ Register(c, d, k, list)
  BY DEF SyncRegistryInv, SyncTypeOK, SyncRegister
<1>1. PendingCurrent' /\ Announced'
  BY <1>0, RegisterAnnounces DEF DeliveryInv
<1>2. /\ PendingOf(d)' # {} /\ Registered' = Registered \cup {d}
      /\ \A p \in Registered \ {d} : peers'[p] = peers[p] /\ PendingOf(p) \subseteq PendingOf(p)'
      /\ UNCHANGED <<events, streams, wire, table>>
      /\ \A s \in Subscribers : Running(s) => Running(s)'
  BY <1>0, RegisterPends DEF SyncRegister, Register, Running
<1>3. KeysHandedOver'
  <2> SUFFICES ASSUME NEW p \in Registered', NEW i \in DOMAIN events,
                      events[i].public_key = peers'[p].public_key, events[i].device_id # p
               PROVE  PendingOf(p)' # {} \/ UpdatesOf(p, i + 1)' # {}
    BY <1>2 DEF KeysHandedOver
  <2>1. CASE p = d
    BY <1>2, <2>1
  <2>2. CASE p # d
    <3>1. p \in Registered /\ peers'[p] = peers[p] /\ PendingOf(p) \subseteq PendingOf(p)'
      BY <1>2, <2>2
    <3>2. PendingOf(p) # {} \/ UpdatesOf(p, i + 1) # {}
      BY <3>1 DEF DeliveryInv, KeysHandedOver
    <3>3. UpdatesOf(p, i + 1)' = UpdatesOf(p, i + 1)
      BY <1>2 DEF UpdatesOf
    <3> QED BY <3>1, <3>2, <3>3
  <2> QED BY <2>1, <2>2
<1>4. ASSUME NEW s \in Subscribers PROVE StreamInOrder(s)' /\ StreamTells(s)'
  <2>1. StreamInOrder(s)'
    BY <1>2 DEF DeliveryInv, StreamInOrder
  <2>2. ASSUME streams[s].state = "streaming", NEW p \in Registered' \ {s}
        PROVE  OnItsWay(s, p)'
    <3>1. CASE p = d
      BY <1>2, <3>1 DEF OnItsWay
    <3>2. CASE p # d
      <4>1. p \in Registered /\ peers'[p] = peers[p] /\ PendingOf(p) \subseteq PendingOf(p)'
        BY <1>2, <2>2, <3>2
      <4>2. OnItsWay(s, p)
        BY <2>2, <4>1 DEF DeliveryInv, StreamTells
      <4>3. WillKnow(s, p) => WillKnow(s, p)'
        BY <1>2, <4>1 DEF WillKnow, Concerning, KnowsCurrent
      <4>4. UpdatesOf(p, streams[s].next)' = UpdatesOf(p, streams[s].next) /\ Oldest' = Oldest
        BY <1>2 DEF UpdatesOf, Oldest
      <4> QED BY <1>2, <4>1, <4>2, <4>3, <4>4 DEF OnItsWay
    <3> QED BY <3>1, <3>2
  <2>3. StreamTells(s)'
    BY <1>2, <2>2 DEF StreamTells
  <2> QED BY <2>1, <2>3
<1> QED BY <1>1, <1>3, <1>4 DEF DeliveryInv

LEMMA PublishDelivers ==
    ASSUME SyncRegistryInv, DeliveryInv, NEW c \in Calls, SyncPublish(c)
    PROVE  DeliveryInv'
<1>0. /\ TypeOK /\ SyncTypeOK /\ UniqueKeys /\ Publish(c)
      /\ calls \in [Calls -> {NoCall} \cup Registration] /\ calls[c] # NoCall
      /\ calls[c].device \in DeviceInfo /\ events \in Seq(DeviceInfo)
  BY ResponseType DEF SyncRegistryInv, SyncTypeOK, TypeOK, SyncPublish, Publish
<1>0a. PICK info \in DeviceInfo, d \in Devices, n \in Nat :
         info = calls[c].device /\ d = info.device_id /\ n = Len(events)
  BY <1>0 DEF DeviceInfo
<1>1. PendingCurrent' /\ Announced'
  BY <1>0, PublishAnnounces DEF DeliveryInv
<1>2. /\ n \in Nat /\ Len(events') = n + 1 /\ DOMAIN events = 1 .. n
      /\ DOMAIN events' = 1 .. n + 1 /\ events'[n + 1] = info
      /\ \A i \in 1 .. n : events'[i] = events[i]
      /\ UNCHANGED <<peers, streams, wire>>
  BY <1>0, <1>0a DEF Publish
<1>3. /\ Oldest \in Nat /\ Oldest' \in Nat /\ Oldest <= Oldest'
  BY <1>2, CapacityAssumption DEF Oldest
<1>4. \A p \in Registered \ {d} : PendingOf(p) \subseteq PendingOf(p)'
  BY <1>0, <1>0a DEF Publish, PendingOf, Pending
<1>5. \A p : \A m \in Nat \ {0} : UpdatesOf(p, m) \subseteq UpdatesOf(p, m)'
  <2> SUFFICES ASSUME NEW p, NEW m \in Nat \ {0}, NEW i \in UpdatesOf(p, m)
               PROVE  i \in UpdatesOf(p, m)'
    OBVIOUS
  <2>1. i \in m .. n /\ events[i].device_id = p
    BY <1>0a DEF UpdatesOf
  <2>2. i \in m .. Len(events') /\ events'[i].device_id = p
    BY <1>2, <1>0a, <2>1
  <2> QED BY <2>2 DEF UpdatesOf
<1>6. \A m \in Nat : m <= n + 1 => n + 1 \in UpdatesOf(d, m)'
  BY <1>0a, <1>2 DEF UpdatesOf
<1>7. d \in Registered /\ peers[d] = info
  BY <1>0, <1>0a DEF DeliveryInv, PendingCurrent, Pending
<1>8. KeysHandedOver'
  <2> SUFFICES ASSUME NEW p \in Registered, NEW i \in 1 .. n + 1,
                      events'[i].public_key = peers[p].public_key, events'[i].device_id # p
               PROVE  PendingOf(p)' # {} \/ UpdatesOf(p, i + 1)' # {}
    BY <1>2 DEF KeysHandedOver, Registered
  <2>1. i \in 1 .. n
    <3>1. CASE i = n + 1
      BY <1>0, <1>0a, <1>2, <1>7, <3>1 DEF UniqueKeys
    <3> QED BY <1>2, <3>1
  <2>2. CASE p = d
    BY <1>2, <1>6, <2>1, <2>2
  <2>3. CASE p # d
    <3>1. PendingOf(p) # {} \/ UpdatesOf(p, i + 1) # {}
      BY <1>2, <2>1 DEF DeliveryInv, KeysHandedOver
    <3> QED BY <1>4, <1>5, <2>3, <3>1
  <2> QED BY <2>2, <2>3
<1>9. ASSUME NEW s \in Subscribers PROVE StreamInOrder(s)' /\ StreamTells(s)'
  <2>0. /\ StreamInOrder(s) /\ StreamTells(s)
        /\ streams[s] \in StreamInfo /\ streams[s].next \in Nat \ {0}
    BY <1>0 DEF DeliveryInv, TypeOK, StreamInfo
  <2>1. Running(s) => Running(s)'
    BY <1>0, PublishSeen DEF Running
  <2>2. StreamInOrder(s)'
    BY <1>2, <2>0, <2>1 DEF StreamInOrder
  <2>3. ASSUME streams[s].state = "streaming", NEW p \in Registered \ {s}
        PROVE  OnItsWay(s, p)'
    <3>1. UNCHANGED table[s]
      BY <1>0, <2>0, <2>3, PublishSeen DEF StreamInOrder, Running
    <3>2. CASE p = d
      BY <1>2, <1>6, <2>0, <3>2 DEF StreamInOrder, OnItsWay
    <3>3. CASE p # d
      <4>1. OnItsWay(s, p)
        BY <2>0, <2>3 DEF StreamTells
      <4>2. WillKnow(s, p) => WillKnow(s, p)'
        BY <1>2, <3>1 DEF WillKnow, Concerning, KnowsCurrent
      <4>3. UpdatesOf(p, streams[s].next) \subseteq UpdatesOf(p, streams[s].next)'
        BY <1>2, <1>5, <2>0 DEF UpdatesOf
      <4>4. streams[s].next < Oldest => (streams[s].next < Oldest)'
        BY <1>2, <1>3, <2>0
      <4> QED BY <1>4, <2>3, <3>3, <4>1, <4>2, <4>3, <4>4 DEF OnItsWay
    <3> QED BY <3>2, <3>3
  <2>4. StreamTells(s)'
    BY <1>2, <2>3 DEF StreamTells, Registered
  <2> QED BY <2>2, <2>4
<1> QED BY <1>1, <1>8, <1>9 DEF DeliveryInv

LEMMA DeliveryCorrect ==
    ASSUME ~Overlapping
    PROVE  SyncSpec => []DeliveryInv
<1>1. SyncInit => DeliveryInv
  BY DEF SyncInit, Init, DeliveryInv, PendingCurrent, Announced, KeysHandedOver, Pending,
         Registered, StreamInOrder, StreamTells
<1>2. SyncRegistryInv /\ DeliveryInv /\ [SyncNext]_syncVars => DeliveryInv'
  <2> SUFFICES ASSUME SyncRegistryInv, DeliveryInv, [SyncNext]_syncVars PROVE DeliveryInv'
    OBVIOUS
  <2>0. SyncTypeOK /\ TypeOK
    BY DEF SyncRegistryInv, SyncTypeOK
  <2>1. CASE UNCHANGED syncVars
    BY <2>1 DEF syncVars, vars, DeliveryInv, PendingCurrent, Announced, KeysHandedOver,
                Pending, PendingOf, UpdatesOf, Registered, StreamInOrder, StreamTells, Running,
                OnItsWay, WillKnow, Concerning, KnowsCurrent, Oldest
  <2>2. ASSUME NEW t \in Subscribers, Turn(t) PROVE DeliveryInv'
    <3>1. /\ UNCHANGED <<peers, calls, events>>
          /\ \A s \in Subscribers : Sees(s)
      BY <2>0, <2>2, TurnSeen
    <3>2. PendingCurrent' /\ Announced' /\ KeysHandedOver'
      BY <3>1 DEF DeliveryInv, PendingCurrent, Announced, KeysHandedOver, Pending, PendingOf,
                  UpdatesOf, Registered
    <3>3. \A s \in Subscribers : StreamInOrder(s)' /\ StreamTells(s)'
      BY <3>1, SeenInOrder, SeenTells DEF DeliveryInv
    <3> QED BY <3>2, <3>3 DEF DeliveryInv
  <2>3. CASE SyncRestart
    <3>1. /\ Registered' = {} /\ Pending' = {}
          /\ \A s \in Subscribers : /\ wire'[s] = <<>> /\ streams'[s].state = "closed"
                                    /\ streams'[s].next = 1 /\ Len(events') = 0
      BY <2>3 DEF SyncRestart, Restart, Registered, Pending
    <3> QED BY <3>1 DEF DeliveryInv, PendingCurrent, Announced, KeysHandedOver, StreamInOrder,
                        StreamTells
  <2> QED BY <2>1, <2>2, <2>3, RegisterDelivers, PublishDelivers
          DEF SyncNext, SyncHandlers, SyncStreams, Turn
<1> QED BY <1>1, <1>2, SyncRegistryCorrect, PTL DEF SyncSpec

\* No registration, in whatever order it meets subscriptions, snapshots, lags
\* and resynchronisations, is lost to a device that listens, when no two
\* registrations of one device overlap (api.rs:69-113, registry.rs:51-53).
THEOREM NoUpdateIsLost ==
    ASSUME ~Overlapping
    PROVE  SyncSpec => []NoUpdateLost
<1>1. DeliveryInv => NoUpdateLost
  BY DEF DeliveryInv, StreamTells, OnItsWay, NoUpdateLost
<1> QED BY <1>1, DeliveryCorrect, PTL

\* While every device keeps its key and its registrations do not overlap, a
\* streaming device with nothing on its way has exactly the table that a
\* snapshot would give it now (api.rs:69-113, peer.rs:306-352).
THEOREM QuietTablesAreExact ==
    ASSUME ~Overlapping, ~KeyRotation
    PROVE  SyncSpec => []QuietTableIsExact
<1>1. ASSUME SyncRegistryInv, TablesInv, DeliveryInv PROVE QuietTableIsExact
  <2> SUFFICES ASSUME NEW s \in Subscribers, Quiet(s)
               PROVE  table[s] = Replace(CollectPeersFor(peers, s))
    BY DEF QuietTableIsExact
  <2> DEFINE t == table[s]
             fresh == Replace(CollectPeersFor(peers, s))
  <2>1. /\ TypeOK /\ UniqueKeys /\ IsTable(t) /\ TableApart(s)
        /\ StreamTells(s)
        /\ TableRecorded(s) \/ BehindSnapshot(s)
    BY <1>1 DEF SyncRegistryInv, SyncTypeOK, TablesInv, TableInv, DeliveryInv
  <2>2. TableRecorded(s)
    BY <2>1 DEF Quiet, BehindSnapshot
  <2>3. ASSUME NEW p \in Registered \ {s} PROVE KnowsCurrent(t, p)
    <3>1. UpdatesOf(p, streams[s].next) = {} /\ PendingOf(p) = {} /\ ~(streams[s].next < Oldest)
      BY <2>1, OldestType DEF Quiet, UpdatesOf, PendingOf
    <3>2. streams[s].state = "streaming"
      BY DEF Quiet
    <3>3. WillKnow(s, p)
      BY <2>1, <3>1, <3>2 DEF StreamTells, OnItsWay
    <3> QED BY <3>3 DEF WillKnow, Concerning, Quiet
  <2>4. ASSUME NEW k \in DOMAIN t
        PROVE  \E p \in Registered \ {s} : k = peers[p].public_key /\ t[k] = peers[p]
    <3> DEFINE p == t[k].device_id
    <3>1. p \in Registered \ {s}
      BY <2>1, <2>2 DEF TableRecorded, Recorded, TableApart
    <3>2. peers[p].public_key \in DOMAIN t /\ t[peers[p].public_key] = peers[p]
      BY <2>3, <3>1 DEF KnowsCurrent
    <3>3. peers[p].device_id = p
      BY <2>1, <3>1 DEF TypeOK
    <3>4. k = peers[p].public_key
      BY <2>1, <3>2, <3>3 DEF TableApart
    <3> QED BY <3>1, <3>2, <3>4
  <2>5. CollectPeersFor(peers, s) = {peers[p] : p \in Registered \ {s}}
    BY DEF CollectPeersFor, Registered
  <2>6. /\ CollectPeersFor(peers, s) \in SUBSET DeviceInfo
        /\ KeysApart(CollectPeersFor(peers, s))
    <3>1. \A p \in Registered : peers[p] \in DeviceInfo
      BY <2>1 DEF TypeOK
    <3> QED BY <2>1, <2>5, <3>1 DEF KeysApart, UniqueKeys
  <2>7. /\ IsTable(fresh)
        /\ \A k \in DOMAIN fresh : fresh[k] \in CollectPeersFor(peers, s)
        /\ \A info \in CollectPeersFor(peers, s) :
             info.public_key \in DOMAIN fresh /\ fresh[info.public_key] = info
    BY <2>6, ReplaceTable
  <2> HIDE DEF t, fresh
  <2>8. ASSUME NEW k \in DOMAIN t PROVE k \in DOMAIN fresh /\ fresh[k] = t[k]
    BY <2>4, <2>5, <2>7
  <2>9. ASSUME NEW k \in DOMAIN fresh PROVE k \in DOMAIN t
    <3>1. PICK p \in Registered \ {s} : fresh[k] = peers[p]
      BY <2>5, <2>7
    <3>2. fresh[k].public_key = k
      BY <2>7 DEF IsTable
    <3> QED BY <2>3, <3>1, <3>2 DEF KnowsCurrent
  <2>10. DOMAIN t = DOMAIN fresh
    BY <2>8, <2>9
  <2>11. t = [k \in DOMAIN t |-> t[k]] /\ fresh = [k \in DOMAIN fresh |-> fresh[k]]
    BY <2>1, <2>7 DEF IsTable
  <2>12. t = fresh
    BY <2>8, <2>10, <2>11
  <2> QED BY <2>12 DEF t, fresh
<1> QED BY <1>1, SyncRegistryCorrect, TablesCorrect, DeliveryCorrect, PTL

\* Everything registered is announced, also while devices come and go
\* (registry.rs:32-53).
THEOREM CompositionAnnounces ==
    ASSUME ~Overlapping
    PROVE  SyncSpec => []Announced
<1>1. DeliveryInv => Announced
  BY DEF DeliveryInv
<1> QED BY <1>1, DeliveryCorrect, PTL
=============================================================================
