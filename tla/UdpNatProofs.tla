--------------------------- MODULE UdpNatProofs ---------------------------
(***************************************************************************)
(* Proofs about the NAT's table, alone and with its sockets and workers,   *)
(* for any private sources, any remote addresses, any range of ports, any  *)
(* relays and every NAT type.                                              *)
(*                                                                         *)
(* The invariant of the table ties it to the history of what was sent:     *)
(* every packet belongs to the mapping of its key, and every contact of a  *)
(* mapping stands for a packet.  That of the workers says that who has a   *)
(* public socket in hand has it in the shared map.                         *)
(***************************************************************************)
EXTENDS UdpNat, FiniteSetTheorems, WellFoundedInduction, TLAPS

\* Every packet sent is accounted for by the mapping of its key.
SentIsMapped ==
    \A packet \in sent :
      LET key == MappingKey(packet.source, packet.destination) IN
      /\ key \in DOMAIN mappings
      /\ mappings[key].public = packet.port
      /\ packet.destination \in mappings[key].contacts

\* Every mapping has been used: it has a contact, and each of its contacts
\* was sent a packet from its source through its port under its key.
ContactsWereSent ==
    \A k \in DOMAIN mappings :
      /\ mappings[k].source = k.source
      /\ mappings[k].contacts # {}
      /\ \A c \in mappings[k].contacts :
           /\ MappingKey(k.source, c) = k
           /\ [source |-> k.source, destination |-> c,
               port |-> mappings[k].public] \in sent

IInv == TypeOK /\ MapsAgree /\ SentIsMapped /\ ContactsWereSent
-----------------------------------------------------------------------------
\* The key of a packet is a key.
LEMMA KeyIsKey ==
    ASSUME NEW s \in Sources, NEW d \in Remotes
    PROVE  MappingKey(s, d) \in Keys
BY DEF MappingKey, Keys

\* allocate_port returns a port nobody uses and leaves the place where the
\* next scan starts inside the dynamic range (nat.rs:179-198).
LEMMA AllocatedPortIsFree ==
    ASSUME TypeOK, NEW s \in Sources, NEW port \in Ports, AllocatePort(s.port, port)
    PROVE  port \notin Used /\ next_port' \in DynamicPorts
<1>1. CASE PreferredFree(s.port)
  BY <1>1 DEF AllocatePort, PreferredFree, TypeOK
<1>2. CASE ~PreferredFree(s.port)
  <2>1. port \in DynamicPorts \ Used /\ next_port' = Succ(port)
    BY <1>2 DEF AllocatePort, FirstFree, FreeDynamic
  <2>2. Succ(port) \in DynamicPorts
    BY <2>1, PortsAssumption DEF Succ, DynamicPorts
  <2> QED BY <2>1, <2>2
<1> QED BY <1>1, <1>2

LEMMA InitIInv == Init => IInv
<1> SUFFICES ASSUME Init PROVE IInv
  OBVIOUS
<1>1. TypeOK
  BY PortsAssumption DEF Init, TypeOK, Used, DynamicPorts
<1>2. MapsAgree /\ SentIsMapped /\ ContactsWereSent
  BY DEF Init, MapsAgree, SentIsMapped, ContactsWereSent, Used
<1> QED BY <1>1, <1>2 DEF IInv

\* A packet of a key that has a mapping preserves the invariant.
LEMMA MappedPreserves ==
    ASSUME IInv, NEW s \in Sources, NEW d \in Remotes, TranslateMapped(s, d)
    PROVE  IInv'
<1> DEFINE key == MappingKey(s, d)
           packet == [source |-> s, destination |-> d, port |-> mappings[key].public]
<1>1. /\ key \in DOMAIN mappings
      /\ mappings' = [mappings EXCEPT ![key].contacts = @ \cup {d}]
      /\ sent' = sent \cup {packet}
      /\ UNCHANGED <<nat_type, ports, next_port>>
  BY DEF TranslateMapped
<1>2. key \in Keys /\ mappings[key] \in Mapping
  BY <1>1, KeyIsKey DEF IInv, TypeOK
<1>3. /\ DOMAIN mappings' = DOMAIN mappings
      /\ \A k \in DOMAIN mappings :
           /\ mappings'[k].public = mappings[k].public
           /\ mappings'[k].source = mappings[k].source
           /\ mappings'[k].contacts = IF k = key THEN mappings[k].contacts \cup {d}
                                                 ELSE mappings[k].contacts
           /\ mappings'[k] \in Mapping
  BY <1>1, <1>2 DEF IInv, TypeOK, Mapping
<1>3a. /\ mappings'[key].public = mappings[key].public
       /\ mappings'[key].contacts = mappings[key].contacts \cup {d}
  BY <1>1, <1>3
<1>4. packet \in Packet
  BY <1>2 DEF Packet, Mapping
<1>5. TypeOK'
  BY <1>1, <1>3, <1>4 DEF IInv, TypeOK, Used
<1>6. MapsAgree'
  BY <1>1, <1>3 DEF IInv, MapsAgree, Used
<1>7. \A x, y : MappingKey(x, y)' = MappingKey(x, y)
  BY <1>1 DEF MappingKey
<1>8. SentIsMapped'
  <2> SUFFICES ASSUME NEW p \in sent'
               PROVE  /\ MappingKey(p.source, p.destination) \in DOMAIN mappings'
                      /\ mappings'[MappingKey(p.source, p.destination)].public = p.port
                      /\ p.destination \in mappings'[MappingKey(p.source, p.destination)].contacts
    BY <1>7 DEF SentIsMapped
  <2>1. CASE p \in sent
    BY <2>1, <1>3 DEF IInv, SentIsMapped
  <2>2. CASE p = packet
    <3>1. p.source = s /\ p.destination = d /\ p.port = mappings[key].public
      BY <2>2
    <3>2. MappingKey(p.source, p.destination) = key
      BY <3>1
    <3> QED BY <3>1, <3>2, <1>1, <1>3, <1>3a
  <2> QED BY <2>1, <2>2, <1>1
<1>9. ContactsWereSent'
  <2> SUFFICES ASSUME NEW k \in DOMAIN mappings
               PROVE  /\ mappings'[k].source = k.source
                      /\ mappings'[k].contacts # {}
                      /\ \A c \in mappings'[k].contacts :
                           /\ MappingKey(k.source, c) = k
                           /\ [source |-> k.source, destination |-> c,
                               port |-> mappings'[k].public] \in sent'
    BY <1>3, <1>7 DEF ContactsWereSent
  <2>1. mappings'[k].source = k.source /\ mappings'[k].contacts # {}
    BY <1>3 DEF IInv, ContactsWereSent
  <2>2. ASSUME NEW c \in mappings[k].contacts
        PROVE  /\ MappingKey(k.source, c) = k
               /\ [source |-> k.source, destination |-> c,
                   port |-> mappings'[k].public] \in sent'
    BY <1>1, <1>3 DEF IInv, ContactsWereSent
  <2>3. ASSUME k = key
        PROVE  /\ MappingKey(k.source, d) = k
               /\ [source |-> k.source, destination |-> d,
                   port |-> mappings'[k].public] \in sent'
    <3>1. k.source = s
      BY <2>3 DEF MappingKey
    <3>2. [source |-> k.source, destination |-> d, port |-> mappings'[k].public] = packet
      BY <3>1, <2>3, <1>3a
    <3> QED BY <3>1, <3>2, <2>3, <1>1
  <2>4. ASSUME NEW c \in mappings'[k].contacts
        PROVE  c \in mappings[k].contacts \/ (k = key /\ c = d)
    BY <2>4, <1>3
  <2> QED BY <2>1, <2>2, <2>3, <2>4
<1> QED BY <1>5, <1>6, <1>8, <1>9 DEF IInv

\* A packet of a new key preserves the invariant.
LEMMA NewPreserves ==
    ASSUME IInv, NEW s \in Sources, NEW d \in Remotes, TranslateNew(s, d)
    PROVE  IInv'
<1> DEFINE key == MappingKey(s, d)
<1>1. PICK port \in Ports :
        /\ AllocatePort(s.port, port)
        /\ ports' = Put(ports, port, key)
        /\ mappings' = Put(mappings, key, [contacts |-> {d}, public |-> port,
                                           source |-> s])
        /\ sent' = sent \cup {[source |-> s, destination |-> d, port |-> port]}
  BY DEF TranslateNew
<1>2. key \notin DOMAIN mappings /\ nat_type' = nat_type
  BY DEF TranslateNew
<1>3. key \in Keys /\ key.source = s
  BY KeyIsKey DEF MappingKey
<1>4. port \notin Used /\ next_port' \in DynamicPorts
  BY <1>1, AllocatedPortIsFree DEF IInv
<1>5. /\ Used' = Used \cup {port}
      /\ ports'[port] = key
      /\ \A p \in Used : ports'[p] = ports[p]
  BY <1>1, <1>4 DEF Put, Used
<1>6. /\ DOMAIN mappings' = DOMAIN mappings \cup {key}
      /\ mappings'[key] = [contacts |-> {d}, public |-> port, source |-> s]
      /\ \A k \in DOMAIN mappings : mappings'[k] = mappings[k]
  BY <1>1, <1>2 DEF Put
<1>7. TypeOK'
  <2>1. mappings'[key] \in Mapping
    BY <1>6 DEF Mapping
  <2>2. [source |-> s, destination |-> d, port |-> port] \in Packet
    BY DEF Packet
  <2> QED BY <2>1, <2>2, <1>1, <1>2, <1>3, <1>4, <1>5, <1>6 DEF IInv, TypeOK
<1>8. MapsAgree'
  BY <1>2, <1>4, <1>5, <1>6 DEF IInv, MapsAgree
<1>9. \A x, y : MappingKey(x, y)' = MappingKey(x, y)
  BY <1>2 DEF MappingKey
<1>10. SentIsMapped'
  <2> SUFFICES ASSUME NEW p \in sent'
               PROVE  /\ MappingKey(p.source, p.destination) \in DOMAIN mappings'
                      /\ mappings'[MappingKey(p.source, p.destination)].public = p.port
                      /\ p.destination \in mappings'[MappingKey(p.source, p.destination)].contacts
    BY <1>9 DEF SentIsMapped
  <2>1. CASE p \in sent
    BY <2>1, <1>6 DEF IInv, SentIsMapped
  <2>2. CASE p = [source |-> s, destination |-> d, port |-> port]
    BY <2>2, <1>6
  <2> QED BY <2>1, <2>2, <1>1
<1>11. ContactsWereSent'
  <2> SUFFICES ASSUME NEW k \in DOMAIN mappings'
               PROVE  /\ mappings'[k].source = k.source
                      /\ mappings'[k].contacts # {}
                      /\ \A c \in mappings'[k].contacts :
                           /\ MappingKey(k.source, c) = k
                           /\ [source |-> k.source, destination |-> c,
                               port |-> mappings'[k].public] \in sent'
    BY <1>9 DEF ContactsWereSent
  <2>1. CASE k \in DOMAIN mappings
    BY <2>1, <1>1, <1>6 DEF IInv, ContactsWereSent
  <2>2. CASE k = key
    <3>1. /\ k.source = s /\ MappingKey(k.source, d) = k
          /\ mappings'[k].source = s /\ mappings'[k].contacts = {d} /\ mappings'[k].public = port
      BY <2>2, <1>3, <1>6
    <3>2. [source |-> k.source, destination |-> d, port |-> mappings'[k].public] \in sent'
      BY <3>1, <1>1
    <3> QED BY <3>1, <3>2
  <2> QED BY <2>1, <2>2, <1>6
<1> QED BY <1>7, <1>8, <1>10, <1>11 DEF IInv

LEMMA NextIInv == IInv /\ [Next]_vars => IInv'
<1> SUFFICES ASSUME IInv, [Next]_vars PROVE IInv'
  OBVIOUS
<1>1. CASE UNCHANGED vars
  BY <1>1 DEF vars, IInv, TypeOK, MapsAgree, SentIsMapped, ContactsWereSent, Used, MappingKey
<1>2. ASSUME NEW s \in Sources, NEW d \in Remotes, TranslateMapped(s, d)
      PROVE  IInv'
  BY <1>2, MappedPreserves
<1>3. ASSUME NEW s \in Sources, NEW d \in Remotes, TranslateNew(s, d)
      PROVE  IInv'
  BY <1>3, NewPreserves
<1>4. ASSUME NEW s \in Sources, NEW d \in Remotes, TranslateExhausted(s, d)
      PROVE  IInv'
  BY <1>1, <1>4 DEF TranslateExhausted
<1> QED BY <1>1, <1>2, <1>3, <1>4 DEF Next

\* The invariant holds in every reachable state.
THEOREM IInvariant == Spec => []IInv
BY InitIInv, NextIInv, PTL DEF Spec
-----------------------------------------------------------------------------
\* The table keeps its types (nat.rs:113-199).
THEOREM TypeCorrect == Spec => []TypeOK
<1>1. IInv => TypeOK
  BY DEF IInv
<1> QED BY <1>1, IInvariant, PTL

\* No two mapping keys ever share a public port, and every port in use
\* belongs to the mapping that shows it (nat.rs:162-171).
THEOREM MapsAlwaysAgree == Spec => []MapsAgree
<1>1. IInv => MapsAgree
  BY DEF IInv
<1> QED BY <1>1, IInvariant, PTL

\* The invariant lets back every answer to a packet sent.
LEMMA InvariantReplies == IInv => RepliesReturn
<1>1. ASSUME IInv PROVE RepliesReturn
  <2> SUFFICES ASSUME NEW packet \in sent
               PROVE  TranslateInbound(packet.destination, PublicAddr, packet.port)
                        = {packet.source}
    BY DEF RepliesReturn
  <2> DEFINE key == MappingKey(packet.source, packet.destination)
  <2>1. /\ key \in DOMAIN mappings
        /\ mappings[key].public = packet.port
        /\ packet.destination \in mappings[key].contacts
    BY <1>1 DEF IInv, SentIsMapped
  <2>2. packet.port \in Used /\ ports[packet.port] = key
    BY <1>1, <2>1 DEF IInv, MapsAgree
  <2>3. mappings[key].source = packet.source
    BY <1>1, <2>1 DEF IInv, ContactsWereSent, MappingKey
  <2>4. AllowsInbound(mappings[key].contacts, packet.destination)
    BY <2>1 DEF AllowsInbound
  <2> QED BY <2>2, <2>3, <2>4 DEF TranslateInbound
<1> QED BY <1>1

\* Every packet sent can be answered by the address it went to, through the
\* port it left by (nat.rs:124-177).
THEOREM RepliesAlwaysReturn == Spec => []RepliesReturn
<1> QED BY InvariantReplies, IInvariant, PTL

\* The invariant lets in only what was invited.
LEMMA InvariantInvites == IInv => InboundWasInvited
<1> SUFFICES ASSUME IInv PROVE InboundWasInvited
  OBVIOUS
<1> SUFFICES ASSUME NEW remote \in Remotes, NEW port \in Ports,
                    NEW source \in TranslateInbound(remote, PublicAddr, port)
             PROVE  \E packet \in sent :
                      /\ packet.port = port
                      /\ packet.source = source
                      /\ nat_type # "FullCone" => packet.destination.ip = remote.ip
                      /\ nat_type \in {"PortRestrictedCone", "Symmetric"} =>
                           packet.destination = remote
  BY DEF InboundWasInvited
<1> DEFINE key == ports[port]
<1>1. /\ port \in Used
      /\ AllowsInbound(mappings[key].contacts, remote)
      /\ source = mappings[key].source
  BY DEF TranslateInbound
<1>2. /\ key \in DOMAIN mappings
      /\ mappings[key].public = port
  BY <1>1 DEF IInv, MapsAgree
<1>3. /\ source = key.source
      /\ mappings[key].contacts # {}
      /\ \A c \in mappings[key].contacts :
           [source |-> source, destination |-> c, port |-> port] \in sent
  BY <1>1, <1>2 DEF IInv, ContactsWereSent
<1>4. nat_type \in AllNatTypes
  BY NatTypesAssumption DEF IInv, TypeOK
<1>5. \E c \in mappings[key].contacts :
        /\ nat_type # "FullCone" => c.ip = remote.ip
        /\ nat_type \in {"PortRestrictedCone", "Symmetric"} => c = remote
  <2>1. CASE nat_type = "FullCone"
    BY <2>1, <1>3
  <2>2. CASE nat_type = "RestrictedCone"
    BY <2>2, <1>1 DEF AllowsInbound
  <2>3. CASE nat_type \in {"PortRestrictedCone", "Symmetric"}
    BY <2>3, <1>1 DEF AllowsInbound
  <2> QED BY <2>1, <2>2, <2>3, <1>4 DEF AllNatTypes
<1>6. PICK c \in mappings[key].contacts :
        /\ nat_type # "FullCone" => c.ip = remote.ip
        /\ nat_type \in {"PortRestrictedCone", "Symmetric"} => c = remote
  BY <1>5
<1> QED BY <1>3, <1>6

\* What comes in was invited as strictly as the NAT type demands
\* (nat.rs:244-251).
THEOREM InboundAlwaysInvited == Spec => []InboundWasInvited
<1> QED BY InvariantInvites, IInvariant, PTL

\* A cone NAT shows a source as one port, a symmetric one shows it to each
\* destination as a port of its own (nat.rs:253-261).
THEOREM PortAlwaysPerNatType == Spec => []PortPerNatType
<1>1. ASSUME IInv PROVE PortPerNatType
  <2> SUFFICES ASSUME NEW a \in sent, NEW b \in sent, a.source = b.source
               PROVE  a.port = b.port <=>
                        (nat_type # "Symmetric" \/ a.destination = b.destination)
    BY DEF PortPerNatType
  <2> DEFINE ka == MappingKey(a.source, a.destination)
             kb == MappingKey(b.source, b.destination)
  <2>1. /\ ka \in DOMAIN mappings /\ mappings[ka].public = a.port
        /\ kb \in DOMAIN mappings /\ mappings[kb].public = b.port
    BY <1>1 DEF IInv, SentIsMapped
  <2>2. a.port = b.port <=> ka = kb
    BY <1>1, <2>1 DEF IInv, MapsAgree
  <2>3. ka = kb <=> (nat_type # "Symmetric" \/ a.destination = b.destination)
    BY DEF MappingKey
  <2> QED BY <2>2, <2>3
<1> QED BY <1>1, IInvariant, PTL

\* The table implements permanent leases of its ports to mapping keys: every
\* step leases a free port to a key that has none, or changes no lease.
THEOREM PortsAreLeasedForGood == Spec => PortsPermanent
<1>1. Init => PortLeases!Init
  BY DEF Init, PortLeases!Init, holder, Used
<1>2. ASSUME IInv, [Next]_vars PROVE [PortLeases!Grow]_holder
  <2>1. CASE UNCHANGED ports
    BY <2>1 DEF holder, Used
  <2>2. ASSUME NEW s \in Sources, NEW d \in Remotes, TranslateNew(s, d)
        PROVE  PortLeases!Grow
    <3> DEFINE key == MappingKey(s, d)
    <3>1. PICK port \in Ports :
            /\ AllocatePort(s.port, port)
            /\ ports' = Put(ports, port, key)
      BY <2>2 DEF TranslateNew
    <3>2. key \notin DOMAIN mappings /\ key \in Keys
      BY <2>2, KeyIsKey DEF TranslateNew
    <3>3. port \notin Used
      BY <1>2, <3>1, AllocatedPortIsFree DEF IInv
    <3>4. holder[port] = Free
      BY <3>3 DEF holder
    <3>5. \A t \in Ports : holder[t] # key
      BY <1>2, <3>2, FreePortAssumption DEF holder, IInv, MapsAgree
    <3>6. holder' = [holder EXCEPT ![port] = key]
      BY <3>1, <3>3 DEF holder, Put, Used
    <3> QED BY <3>2, <3>4, <3>5, <3>6 DEF PortLeases!Grow, PortLeases!Lease
  <2> QED BY <1>2, <2>1, <2>2
          DEF Next, vars, TranslateMapped, TranslateExhausted
<1> QED BY <1>1, <1>2, IInvariant, PTL DEF Spec, PortsPermanent, PortLeases!PermanentSpec
-----------------------------------------------------------------------------
(* The scan for a free port.                                               *)

\* A set of numbers that is not empty has a least one.
LEMMA LeastNumber ==
    ASSUME NEW S \in SUBSET Nat, S # {}
    PROVE  \E x \in S : \A y \in S : x <= y
<1>1. PICK x \in S : \A y \in S : ~ (<<y, x>> \in OpToRel(<, Nat))
  BY WFMin, NatLessThanWellFounded
<1>2. \A y \in S : ~ (y < x)
  BY <1>1 DEF OpToRel
<1> QED BY <1>2

\* Induction, with a set for the predicate.
LEMMA AllNumbers ==
    ASSUME NEW S \in SUBSET Nat, 0 \in S, \A n \in S : n + 1 \in S
    PROVE  S = Nat
<1> SUFFICES ASSUME Nat \ S # {} PROVE FALSE
  OBVIOUS
<1>1. PICK m \in Nat \ S : \A y \in Nat \ S : m <= y
  BY LeastNumber
<1>2. m # 0 /\ m \in Nat
  BY <1>1
<1>3. m - 1 \in Nat /\ ~(m <= m - 1)
  BY <1>2
<1>4. m - 1 \in S
  BY <1>1, <1>3
<1>5. (m - 1) + 1 = m
  BY <1>2
<1> QED BY <1>1, <1>4, <1>5

\* A function can be applied again and again: what is defined by this
\* recursion exists.
LEMMA Iterates ==
    ASSUME NEW S, NEW first \in S, NEW f \in [S -> S]
    PROVE  \E h \in [Nat -> S] :
             h = [n \in Nat |-> IF n = 0 THEN first ELSE f[h[n - 1]]]
<1> DEFINE Solves(g, m) == /\ g \in [0 .. m -> S] /\ g[0] = first
                           /\ \A i \in 0 .. m : i # 0 => g[i] = f[g[i - 1]]
           Solved == {m \in Nat : \E g : Solves(g, m)}
<1>1. Solved = Nat
  <2>1. 0 \in Solved
    <3>1. Solves([i \in 0 .. 0 |-> first], 0)
      OBVIOUS
    <3> HIDE DEF Solves
    <3> QED BY <3>1
  <2>2. ASSUME NEW m \in Solved PROVE m + 1 \in Solved
    <3>1. PICK g : Solves(g, m)
      <4> HIDE DEF Solves
      <4> QED OBVIOUS
    <3> DEFINE h == [i \in 0 .. m + 1 |-> IF i = m + 1 THEN f[g[m]] ELSE g[i]]
    <3>2. m \in Nat
      OBVIOUS
    <3>3. h \in [0 .. m + 1 -> S] /\ h[0] = first
      BY <3>1, <3>2
    <3>4. ASSUME NEW i \in 0 .. m + 1, i # 0 PROVE h[i] = f[h[i - 1]]
      <4>1. CASE i = m + 1
        BY <4>1, <3>1, <3>2
      <4>2. CASE i # m + 1
        BY <4>2, <3>1, <3>2, <3>4
      <4> QED BY <4>1, <4>2
    <3>5. Solves(h, m + 1)
      <4> HIDE DEF h
      <4> QED BY <3>3, <3>4
    <3> HIDE DEF Solves
    <3> QED BY <3>2, <3>5
  <2> HIDE DEF Solves
  <2> QED BY <2>1, <2>2, AllNumbers
\* Solutions agree where both are defined.
<1>2. ASSUME NEW a, NEW m \in Nat, Solves(a, m), NEW b, NEW n \in Nat, Solves(b, n)
      PROVE  \A i \in Nat : i <= m /\ i <= n => a[i] = b[i]
  <2> DEFINE Same == {i \in Nat : i <= m /\ i <= n => a[i] = b[i]}
  <2>1. 0 \in Same
    BY <1>2
  <2>2. ASSUME NEW i \in Same PROVE i + 1 \in Same
    <3> SUFFICES ASSUME i + 1 <= m, i + 1 <= n PROVE a[i + 1] = b[i + 1]
      OBVIOUS
    <3>1. a[i] = b[i]
      OBVIOUS
    <3>2. i + 1 \in 0 .. m /\ i + 1 \in 0 .. n /\ i + 1 # 0 /\ (i + 1) - 1 = i
      OBVIOUS
    <3>3. a[i + 1] = f[a[i]] /\ b[i + 1] = f[b[i]]
      BY <1>2, <3>2
    <3> QED BY <3>1, <3>3
  <2>3. Same = Nat
    <3> HIDE DEF Same
    <3>1. Same \in SUBSET Nat
      BY DEF Same
    <3> QED BY <2>1, <2>2, <3>1, AllNumbers
  <2> QED BY <2>3
<1> DEFINE Upto(m) == CHOOSE g : Solves(g, m)
           h == [n \in Nat |-> Upto(n)[n]]
<1>3. \A m \in Nat : Solves(Upto(m), m)
  <2> HIDE DEF Solves
  <2> QED BY <1>1
<1>4. h \in [Nat -> S]
  <2>1. ASSUME NEW n \in Nat PROVE Upto(n)[n] \in S
    <3>1. Solves(Upto(n), n)
      BY <1>3
    <3> HIDE DEF Upto
    <3> QED BY <3>1
  <2> HIDE DEF Upto
  <2> QED BY <2>1
<1>5. ASSUME NEW n \in Nat PROVE h[n] = IF n = 0 THEN first ELSE f[h[n - 1]]
  <2>1. Solves(Upto(n), n) /\ h[n] = Upto(n)[n]
    BY <1>3
  <2>2. CASE n = 0
    <3> HIDE DEF Upto, h
    <3> QED BY <2>1, <2>2
  <2>3. CASE n # 0
    <3>1. n - 1 \in Nat /\ n - 1 <= n /\ n - 1 <= n - 1 /\ n \in 0 .. n
      BY <2>3
    <3>2. Solves(Upto(n - 1), n - 1) /\ h[n - 1] = Upto(n - 1)[n - 1]
      BY <1>3, <3>1
    <3>3. Upto(n)[n - 1] = Upto(n - 1)[n - 1]
      <4> HIDE DEF Upto, Solves, h
      <4> QED BY <1>2, <2>1, <3>1, <3>2
    <3>4. Upto(n)[n] = f[Upto(n)[n - 1]]
      <4> HIDE DEF Upto, h
      <4> QED BY <2>1, <2>3, <3>1
    <3> HIDE DEF Upto, Solves, h
    <3> QED BY <2>1, <2>3, <3>2, <3>3, <3>4
  <2> QED BY <2>2, <2>3
<1> HIDE DEF h
<1>6. h = [n \in Nat |-> h[n]]
  BY <1>4
<1>7. h = [n \in Nat |-> IF n = 0 THEN first ELSE f[h[n - 1]]]
  BY <1>5, <1>6
<1> QED BY <1>4, <1>7

\* The loop's state after each turn.
LEMMA TurnsFollow ==
    ASSUME TypeOK
    PROVE  /\ Turns[0] = [next |-> next_port, found |-> {}]
           /\ \A n \in Nat : Turns[n + 1] = Turn(Turns[n])
<1> DEFINE S == [next : Nat, found : SUBSET Nat]
           f == [acc \in S |-> Turn(acc)]
           first == [next |-> next_port, found |-> {}]
           T == Turns
<1>1. f \in [S -> S] /\ first \in S
  <2>1. next_port \in Nat
    BY PortsAssumption DEF TypeOK, DynamicPorts
  <2>2. ASSUME NEW acc \in S PROVE Turn(acc) \in S
    BY PortsAssumption DEF Turn, Succ
  <2> QED BY <2>1, <2>2
<1>2. \A g \in [Nat -> S] : \A n \in Nat : n # 0 => f[g[n - 1]] = Turn(g[n - 1])
  OBVIOUS
<1> HIDE DEF f, S, first
<1>3. PICK h \in [Nat -> S] : h = [n \in Nat |-> IF n = 0 THEN first ELSE f[h[n - 1]]]
  BY <1>1, Iterates
<1>4. h = [n \in Nat |-> IF n = 0 THEN first ELSE Turn(h[n - 1])]
  BY <1>2, <1>3
<1>5. T = CHOOSE g : g = [n \in Nat |-> IF n = 0 THEN first ELSE Turn(g[n - 1])]
  BY DEF Turns, first
<1>6. T = [n \in Nat |-> IF n = 0 THEN first ELSE Turn(T[n - 1])]
  <2> HIDE DEF T
  <2> QED BY <1>4, <1>5
<1> HIDE DEF T
<1>7. \A n \in Nat : n + 1 \in Nat /\ n + 1 # 0 /\ (n + 1) - 1 = n
  OBVIOUS
<1>8. T[0] = first /\ \A n \in Nat : T[n + 1] = Turn(T[n])
  BY <1>6, <1>7
<1> QED BY <1>8 DEF T, first

\* Where the loop is after n turns without a free port.
Turned(n) == IF next_port + n <= MaxPort THEN next_port + n
             ELSE next_port + n - (MaxPort - FirstDynamicPort + 1)

\* The loop looks at the ports in the order of their distance.
LEMMA LoopOrder ==
    ASSUME TypeOK
    PROVE  /\ Turned(0) = next_port
           /\ Turned(MaxPort - FirstDynamicPort + 1) = next_port
           /\ \A n \in Nat : n <= MaxPort - FirstDynamicPort =>
                /\ Turned(n) \in DynamicPorts /\ Distance(Turned(n)) = n
                /\ Succ(Turned(n)) = Turned(n + 1)
           /\ \A p \in DynamicPorts :
                /\ Distance(p) \in Nat /\ Distance(p) <= MaxPort - FirstDynamicPort
                /\ Turned(Distance(p)) = p
<1>1. FirstDynamicPort \in Nat /\ MaxPort \in Nat /\ FirstDynamicPort <= MaxPort
  BY PortsAssumption
<1>2. next_port \in Nat /\ FirstDynamicPort <= next_port /\ next_port <= MaxPort
  BY <1>1 DEF TypeOK, DynamicPorts
<1>3. Turned(0) = next_port /\ Turned(MaxPort - FirstDynamicPort + 1) = next_port
  BY <1>1, <1>2 DEF Turned
<1>4. ASSUME NEW n \in Nat, n <= MaxPort - FirstDynamicPort
      PROVE  /\ Turned(n) \in DynamicPorts /\ Distance(Turned(n)) = n
             /\ Succ(Turned(n)) = Turned(n + 1)
  BY <1>1, <1>2, <1>4 DEF Turned, DynamicPorts, Distance, Succ
<1>5. ASSUME NEW p \in DynamicPorts
      PROVE  /\ Distance(p) \in Nat /\ Distance(p) <= MaxPort - FirstDynamicPort
             /\ Turned(Distance(p)) = p
  BY <1>1, <1>2 DEF Turned, DynamicPorts, Distance
<1> QED BY <1>3, <1>4, <1>5

\* Until it finds a port the loop has met only ports in use; the port it finds
\* is the first free one.
LEMMA LoopFindsFirst ==
    ASSUME TypeOK, NEW n \in Nat, n <= MaxPort - FirstDynamicPort + 1
    PROVE  \/ /\ Turns[n] = [next |-> Turned(n), found |-> {}]
              /\ \A q \in FreeDynamic : Distance(q) >= n
           \/ \E p \in Ports : FirstFree(p) /\ Turns[n] = [next |-> Succ(p), found |-> {p}]
<1> DEFINE Looked(k) == /\ Turns[k] = [next |-> Turned(k), found |-> {}]
                        /\ \A q \in FreeDynamic : Distance(q) >= k
           Found(k) == \E p \in Ports : FirstFree(p) /\ Turns[k] = [next |-> Succ(p), found |-> {p}]
           S == {k \in Nat : k <= MaxPort - FirstDynamicPort + 1 => Looked(k) \/ Found(k)}
<1>1. FirstDynamicPort \in Nat /\ MaxPort \in Nat /\ FirstDynamicPort <= MaxPort
  BY PortsAssumption
<1>2. /\ Turned(0) = next_port
      /\ \A k \in Nat : k <= MaxPort - FirstDynamicPort =>
           /\ Turned(k) \in DynamicPorts /\ Distance(Turned(k)) = k
           /\ Succ(Turned(k)) = Turned(k + 1)
      /\ \A p \in DynamicPorts :
           /\ Distance(p) \in Nat /\ Turned(Distance(p)) = p
  BY LoopOrder
<1>3. /\ Turns[0] = [next |-> next_port, found |-> {}]
      /\ \A k \in Nat : Turns[k + 1] = Turn(Turns[k])
  BY TurnsFollow
<1>4. FreeDynamic \subseteq DynamicPorts /\ DynamicPorts \subseteq Ports
  BY <1>1 DEF FreeDynamic, DynamicPorts, Ports
<1>5. 0 \in S
  <2>1. \A q \in FreeDynamic : Distance(q) >= 0
    BY <1>2, <1>4
  <2> QED BY <1>2, <1>3, <2>1
<1>6. ASSUME NEW k \in Nat, k <= MaxPort - FirstDynamicPort, Looked(k) \/ Found(k)
      PROVE  Looked(k + 1) \/ Found(k + 1)
  <2>1. k \in Nat /\ k <= MaxPort - FirstDynamicPort
    BY <1>6
  <2>2. Turns[k + 1] = Turn(Turns[k])
    BY <1>3, <2>1
  <2>3. CASE Found(k)
    <3>1. PICK p \in Ports : FirstFree(p) /\ Turns[k] = [next |-> Succ(p), found |-> {p}]
      BY <2>3
    <3>2. Turns[k + 1] = Turns[k]
      BY <2>2, <3>1 DEF Turn
    <3> QED BY <3>1, <3>2
  <2>4. CASE Looked(k)
    <3> DEFINE p == Turned(k)
    <3>1. p \in DynamicPorts /\ Distance(p) = k /\ Succ(p) = Turned(k + 1)
      BY <1>2, <2>1
    <3> HIDE DEF p
    <3>2. Turns[k + 1] = [next |-> Succ(p), found |-> {p} \ Used]
      BY <2>2, <2>4 DEF Turn, p
    <3>3. CASE p \in Used
      <4>1. {p} \ Used = {}
        BY <3>3
      <4>2. ASSUME NEW q \in FreeDynamic PROVE Distance(q) >= k + 1
        <5>1. Distance(q) >= k /\ Distance(q) \in Nat /\ Turned(Distance(q)) = q
          BY <1>2, <1>4, <2>4
        <5>2. Distance(q) # k
          BY <3>3, <5>1 DEF p, FreeDynamic
        <5> QED BY <2>1, <5>1, <5>2
      <4>3. Turns[k + 1] = [next |-> Turned(k + 1), found |-> {}]
        BY <3>1, <3>2, <4>1
      <4> QED BY <4>2, <4>3
    <3>4. CASE p \notin Used
      <4>1. {p} \ Used = {p}
        BY <3>4
      <4>2. FirstFree(p)
        BY <2>4, <3>1, <3>4 DEF FirstFree, FreeDynamic
      <4>3. p \in Ports /\ Turns[k + 1] = [next |-> Succ(p), found |-> {p}]
        BY <1>4, <3>1, <3>2, <4>1
      <4> QED BY <4>2, <4>3
    <3> QED BY <3>3, <3>4
  <2> HIDE DEF Looked, Found
  <2> QED BY <1>6, <2>3, <2>4
<1>7. S = Nat
  <2>1. S \in SUBSET Nat
    OBVIOUS
  <2>2. ASSUME NEW k \in S PROVE k + 1 \in S
    <3> HIDE DEF Looked, Found
    <3>1. k \in Nat /\ (k <= MaxPort - FirstDynamicPort + 1 => Looked(k) \/ Found(k))
      OBVIOUS
    <3>2. k + 1 <= MaxPort - FirstDynamicPort + 1
            => k <= MaxPort - FirstDynamicPort /\ k <= MaxPort - FirstDynamicPort + 1
      BY <1>1, <3>1
    <3>3. k + 1 <= MaxPort - FirstDynamicPort + 1 => Looked(k + 1) \/ Found(k + 1)
      BY <1>6, <3>1, <3>2
    <3> QED BY <3>1, <3>3
  <2> HIDE DEF S
  <2> QED BY <1>5, <2>1, <2>2, AllNumbers
<1>8. Looked(n) \/ Found(n)
  <2> HIDE DEF Looked, Found
  <2> QED BY <1>7
<1> QED BY <1>8

\* The first free port by its definition is the port that allocate_port's loop
\* finds, for any range of ports, any ports in use and any place to start from
\* (nat.rs:184-197).
THEOREM ScanIsAlwaysLoop == Spec => []ScanIsLoop
<1>1. ASSUME IInv PROVE ScanIsLoop
  <2> DEFINE size == MaxPort - FirstDynamicPort + 1
             loop == Turns[size]
  <2>1. TypeOK /\ FirstDynamicPort \in Nat /\ MaxPort \in Nat /\ FirstDynamicPort <= MaxPort
    BY <1>1, PortsAssumption DEF IInv
  <2>2. Cardinality(DynamicPorts) = size /\ size \in Nat /\ size <= size
    BY <2>1, FS_Interval DEF DynamicPorts
  <2>3. /\ Turned(size) = next_port
        /\ \A p \in DynamicPorts :
             /\ Distance(p) \in Nat /\ Distance(p) <= MaxPort - FirstDynamicPort
             /\ Turned(Distance(p)) = p
    BY <2>1, LoopOrder
  <2>4. \A p, q \in Ports : FirstFree(p) /\ FirstFree(q) => p = q
    <3> SUFFICES ASSUME NEW p \in Ports, NEW q \in Ports, FirstFree(p), FirstFree(q) PROVE p = q
      OBVIOUS
    <3>1. /\ p \in DynamicPorts /\ q \in DynamicPorts
          /\ Distance(p) <= Distance(q) /\ Distance(q) <= Distance(p)
      BY DEF FirstFree, FreeDynamic
    <3>2. Distance(p) \in Nat /\ Distance(q) \in Nat /\ Turned(Distance(p)) = p /\ Turned(Distance(q)) = q
      BY <2>3, <3>1
    <3>3. Distance(p) = Distance(q)
      BY <3>1, <3>2
    <3> QED BY <3>2, <3>3
  <2>5. \/ /\ loop = [next |-> Turned(size), found |-> {}]
           /\ \A q \in FreeDynamic : Distance(q) >= size
        \/ \E p \in Ports : FirstFree(p) /\ loop = [next |-> Succ(p), found |-> {p}]
    BY <2>1, <2>2, LoopFindsFirst
  <2> HIDE DEF loop
  <2>6. CASE loop = [next |-> Turned(size), found |-> {}] /\ \A q \in FreeDynamic : Distance(q) >= size
    <3>1. \A p \in Ports : ~FirstFree(p)
      <4> SUFFICES ASSUME NEW p \in Ports, FirstFree(p) PROVE FALSE
        OBVIOUS
      <4>1. p \in FreeDynamic /\ p \in DynamicPorts
        BY DEF FirstFree, FreeDynamic
      <4>2. Distance(p) >= size /\ Distance(p) \in Nat /\ Distance(p) <= MaxPort - FirstDynamicPort
        BY <2>3, <2>6, <4>1
      <4> QED BY <2>1, <4>2
    <3>2. {p \in Ports : FirstFree(p)} = {} /\ loop.found = {} /\ loop.next = next_port
      BY <2>3, <2>6, <3>1
    <3> QED BY <2>2, <3>2 DEF ScanIsLoop, loop
  <2>7. ASSUME NEW p \in Ports, FirstFree(p), loop = [next |-> Succ(p), found |-> {p}]
        PROVE  ScanIsLoop
    <3>1. {q \in Ports : FirstFree(q)} = {p} /\ (CHOOSE q \in Ports : FirstFree(q)) = p
      BY <2>4, <2>7
    <3>2. loop.found = {p} /\ loop.next = Succ(p)
      BY <2>7
    <3> QED BY <2>2, <3>1, <3>2 DEF ScanIsLoop, loop
  <2> QED BY <2>5, <2>6, <2>7
<1> QED BY <1>1, IInvariant, PTL
-----------------------------------------------------------------------------
(* The sockets and workers.                                                *)

Stage == {"absent", "recv", "lookup", "bind", "insert", "spawn", "send", "stopped"}

WorkersOK ==
    /\ started \in 0 .. Len(Relays)
    /\ private \in [Workers -> [at : Stage, port : Ports]]
    /\ \A w \in Workers : w > started => private[w].at = "absent"
    /\ public = [p \in DOMAIN public |-> public[p]]

\* Every public worker has its socket in the map, and so has every private
\* worker that got past Insert, until the last private worker takes the map
\* with it, which it does only when it is told to stop.
SocketsKnown ==
    /\ \A p \in DOMAIN public : public[p] = "recv" =>
         \/ p \in public_sockets
         \/ shutdown # "open" /\ \A w \in Workers : ~Alive(w)
    /\ \A w \in Workers :
         private[w].at \in {"spawn", "send"} => private[w].port \in public_sockets

\* All packets are the peer's.
SentByPeer == \A packet \in sent : packet.source = Peer

\* What came through to the peer it has asked for, as strictly as the NAT type
\* demands: it has sent a packet from that port to that host, and to that very
\* address when the NAT is port restricted or symmetric.
DeliveredWasInvited ==
    \A datagram \in delivered :
      \E packet \in sent :
        /\ packet.port = datagram[2] /\ packet.source = Peer
        /\ nat_type # "FullCone" => packet.destination.ip = datagram[1].ip
        /\ nat_type \in {"PortRestrictedCone", "Symmetric"} => packet.destination = datagram[1]

NatInv == IInv /\ WorkersOK /\ SocketsKnown /\ SentByPeer /\ DeliveredWasInvited

LEMMA RelaysAreRemotes ==
    ASSUME NEW w \in Workers
    PROVE  Relays[w] \in Remotes /\ w \in Nat /\ w # 0 /\ Workers = 1 .. Len(Relays)
BY RelaysAssumption DEF Workers

\* A private worker that has translated a packet has a port.
LEMMA TranslatedPort ==
    ASSUME IInv', NEW s \in Sources, NEW d \in Remotes,
           TranslateMapped(s, d) \/ TranslateNew(s, d)
    PROVE  mappings'[MappingKey(s, d)].public \in Ports
<1> DEFINE key == MappingKey(s, d)
<1>1. key \in DOMAIN mappings'
  <2>1. CASE TranslateMapped(s, d)
    BY <2>1 DEF TranslateMapped
  <2>2. CASE TranslateNew(s, d)
    BY <2>2 DEF TranslateNew, Put
  <2> QED BY <2>1, <2>2
<1>2. mappings'[key] \in Mapping
  BY <1>1 DEF IInv, TypeOK
<1> QED BY <1>2 DEF Mapping

\* A step of the NAT is a step of its table, or none.
LEMMA NatStepsTable ==
    ASSUME [NatNext]_<<vars, workers>>
    PROVE  [Next]_vars /\ (UNCHANGED vars \/ \E w \in Workers : Translate(w))
<1>1. ASSUME NEW w \in Workers, Translate(w) PROVE [Next]_vars
  BY <1>1, RelaysAreRemotes, PeerAssumption DEF Translate, Next
<1>2. ASSUME NEW w \in Workers, PeerSends(w) \/ Handle(w) \/ StopPrivate(w), ~Translate(w)
      PROVE  UNCHANGED vars
  BY <1>2 DEF PeerSends, Handle, StopPrivate, Lookup, Bind, Insert, Spawn, Send, Become
<1>3. ASSUME StartWorker \/ StartFails \/ Drop PROVE UNCHANGED vars
  BY <1>3 DEF StartWorker, StartFails, Drop
<1>4. ASSUME NEW port \in Ports,
             StopPublic(port) \/ \E remote \in Remotes : RemoteSends(remote, port) \/ Forward(remote, port)
      PROVE  UNCHANGED vars
  BY <1>4 DEF StopPublic, RemoteSends, Forward
<1>5. CASE UNCHANGED <<vars, workers>>
  BY <1>5
<1> HIDE DEF vars
<1> QED BY <1>1, <1>2, <1>3, <1>4, <1>5 DEF NatNext, Handle

LEMMA InitNatInv == NatInit => NatInv
<1> SUFFICES ASSUME NatInit PROVE NatInv
  OBVIOUS
<1>1. IInv
  BY InitIInv DEF NatInit
<1>2. WorkersOK
  <2>1. \A w \in Workers : private[w] = [at |-> "absent", port |-> 0]
    BY DEF NatInit, Idle
  <2>2. 0 \in Ports
    BY PortsAssumption DEF Ports
  <2>3. Len(Relays) \in Nat
    BY RelaysAssumption
  <2>4. private = [w \in Workers |-> private[w]]
    BY DEF NatInit
  <2> QED BY <2>1, <2>2, <2>3, <2>4 DEF NatInit, WorkersOK, Stage
<1>3. SocketsKnown /\ SentByPeer /\ DeliveredWasInvited
  BY DEF NatInit, Init, Idle, SocketsKnown, SentByPeer, DeliveredWasInvited
<1> QED BY <1>1, <1>2, <1>3 DEF NatInv

\* A private worker moves on: what it becomes.
LEMMA HandleKeepsSockets ==
    ASSUME NatInv, IInv', NEW w \in Workers, Handle(w)
    PROVE  WorkersOK' /\ SocketsKnown'
<1>0. /\ WorkersOK /\ SocketsKnown /\ IInv
      /\ private[w] \in [at : Stage, port : Ports]
      /\ 0 \in Ports
  BY PortsAssumption DEF NatInv, WorkersOK, Ports
<1>1. UNCHANGED <<started, shutdown>>
  BY DEF Handle, Translate, Lookup, Bind, Insert, Spawn, Send, Become
<1>2. private[w].at \notin {"absent", "stopped"}
  BY DEF Handle, Translate, Lookup, Bind, Insert, Spawn, Send
<1>3. /\ private' = [private EXCEPT ![w] = private'[w]]
      /\ private'[w] \in [at : Stage, port : Ports]
      /\ private'[w].at \notin {"absent", "stopped"}
      /\ private'[w].at \in {"spawn", "send"} => private'[w].port \in public_sockets'
      /\ public_sockets \subseteq public_sockets'
      /\ \A p \in DOMAIN public' : public'[p] = "recv" =>
           p \in public_sockets' \/ (p \in DOMAIN public /\ public[p] = "recv")
      /\ public' = [p \in DOMAIN public' |-> public'[p]]
  <2>1. CASE Translate(w)
    <3>1. UNCHANGED <<public_sockets, public>> /\ private[w].at = "recv"
      BY <2>1 DEF Translate
    <3>2. CASE TranslateMapped(Peer, Relays[w]) \/ TranslateNew(Peer, Relays[w])
      <4> DEFINE port == mappings'[MappingKey(Peer, Relays[w])].public
      <4>1. CASE private' = [private EXCEPT ![w] = [at |-> "lookup", port |-> port]]
        <5>1. port \in Ports
          BY <3>2, RelaysAreRemotes, PeerAssumption, TranslatedPort
        <5> HIDE DEF port
        <5>2. private'[w] = [at |-> "lookup", port |-> port]
          BY <4>1, <1>0 DEF WorkersOK
        <5> QED BY <3>1, <4>1, <5>1, <5>2, <1>0 DEF WorkersOK, Stage
      <4>2. CASE UNCHANGED private
        BY <3>1, <4>2, <1>0 DEF WorkersOK
      <4> QED BY <2>1, <4>1, <4>2 DEF Translate
    <3>3. CASE UNCHANGED private
      BY <3>1, <3>3, <1>0 DEF WorkersOK
    <3> QED BY <2>1, <3>2, <3>3 DEF Translate
  <2>2. CASE Lookup(w)
    BY <2>2, <1>0 DEF Lookup, Become, WorkersOK, Stage
  <2>3. CASE Bind(w)
    <3>1. UNCHANGED <<public_sockets, public>>
          /\ (private'[w] = Idle \/ private'[w] = [private[w] EXCEPT !.at = "insert"])
          /\ private' = [private EXCEPT ![w] = private'[w]]
      BY <2>3, <1>0 DEF Bind, WorkersOK
    <3>2. private'[w] \in [at : Stage, port : Ports] /\ private'[w].at \in {"recv", "insert"}
      BY <3>1, <1>0 DEF Idle, Stage
    <3> QED BY <3>1, <3>2, <1>0 DEF WorkersOK
  <2>4. CASE Insert(w)
    BY <2>4, <1>0 DEF Insert, Register, Become, WorkersOK, Stage
  <2>5. CASE Spawn(w)
    <3>1. /\ private[w].at = "spawn" /\ public_sockets' = public_sockets
          /\ public' = Put(public, private[w].port, "recv")
          /\ private' = [private EXCEPT ![w].at = "send"]
      BY <2>5 DEF Spawn, SpawnPublicWorker, Become
    <3>2. private[w].port \in public_sockets
      BY <3>1, <1>0 DEF SocketsKnown
    <3>3. private'[w].at = "send" /\ private'[w].port = private[w].port
          /\ private'[w] \in [at : Stage, port : Ports]
          /\ private' = [private EXCEPT ![w] = private'[w]]
      BY <3>1, <1>0 DEF WorkersOK, Stage
    <3>4. /\ DOMAIN public' = DOMAIN public \cup {private[w].port}
          /\ \A p \in DOMAIN public' : p # private[w].port => public'[p] = public[p]
          /\ public' = [p \in DOMAIN public' |-> public'[p]]
      BY <3>1 DEF Put
    <3> QED BY <3>1, <3>2, <3>3, <3>4
  <2>6. CASE Send(w)
    BY <2>6, <1>0 DEF Send, Idle, WorkersOK, Stage
  <2> QED BY <2>1, <2>2, <2>3, <2>4, <2>5, <2>6 DEF Handle
<1>4. WorkersOK'
  <2>1. private' \in [Workers -> [at : Stage, port : Ports]]
    BY <1>0, <1>3 DEF WorkersOK
  <2>2. \A v \in Workers : v > started' => private'[v].at = "absent"
    BY <1>0, <1>1, <1>2, <1>3 DEF WorkersOK
  <2> QED BY <2>1, <2>2, <1>0, <1>1, <1>3 DEF WorkersOK
<1>5. SocketsKnown'
  <2>1. Alive(w)
    BY <1>2 DEF Alive
  <2>2. \A p \in DOMAIN public' : public'[p] = "recv" => p \in public_sockets'
    BY <2>1, <1>0, <1>3 DEF SocketsKnown
  <2>3. \A v \in Workers :
          private'[v].at \in {"spawn", "send"} => private'[v].port \in public_sockets'
    <3> SUFFICES ASSUME NEW v \in Workers, private'[v].at \in {"spawn", "send"}
                 PROVE  private'[v].port \in public_sockets'
      OBVIOUS
    <3>1. v # w => private'[v] = private[v]
      BY <1>0, <1>3 DEF WorkersOK
    <3> QED BY <3>1, <1>0, <1>3 DEF SocketsKnown
  <2> QED BY <2>2, <2>3 DEF SocketsKnown
<1> QED BY <1>4, <1>5

LEMMA NextSockets == NatInv /\ IInv' /\ [NatNext]_<<vars, workers>> => WorkersOK' /\ SocketsKnown'
<1> SUFFICES ASSUME NatInv, IInv', [NatNext]_<<vars, workers>> PROVE WorkersOK' /\ SocketsKnown'
  OBVIOUS
<1>0. WorkersOK /\ SocketsKnown
  BY DEF NatInv
<1>1. CASE UNCHANGED <<started, private, public_sockets, public>> /\ (shutdown # "open" => shutdown' # "open")
  BY <1>0, <1>1 DEF WorkersOK, SocketsKnown, Alive
<1>2. CASE StartWorker
  <2> DEFINE w == started + 1
  <2>1. /\ shutdown = "open" /\ started < Len(Relays) /\ started' = w
        /\ private' = [private EXCEPT ![w].at = "recv"]
        /\ UNCHANGED <<shutdown, public_sockets, public>>
    BY <1>2 DEF StartWorker, Starting, Become
  <2>2. Len(Relays) \in Nat /\ started \in Nat /\ Workers = 1 .. Len(Relays) /\ w \in Workers
    BY <2>1, <1>0, RelaysAssumption DEF WorkersOK, Workers
  <2>3. private' \in [Workers -> [at : Stage, port : Ports]]
    BY <2>1, <2>2, <1>0 DEF WorkersOK, Stage
  <2>4. \A v \in Workers : v > started' => private'[v].at = "absent"
    BY <2>1, <2>2, <1>0 DEF WorkersOK
  <2>5. WorkersOK'
    BY <2>1, <2>2, <2>3, <2>4, <1>0 DEF WorkersOK
  <2>6. SocketsKnown'
    BY <2>1, <2>2, <1>0 DEF SocketsKnown, WorkersOK
  <2> QED BY <2>5, <2>6
<1>3. ASSUME NEW w \in Workers, StopPrivate(w) PROVE WorkersOK' /\ SocketsKnown'
  <2>1. /\ private[w].at = "recv" /\ shutdown # "open"
        /\ private' = [private EXCEPT ![w].at = "stopped"]
        /\ public_sockets' = IF \E v \in Workers \ {w} : Alive(v) THEN public_sockets ELSE {}
        /\ UNCHANGED <<started, shutdown, public>>
    BY <1>3 DEF StopPrivate, Stop, Become
  <2>2. WorkersOK'
    BY <2>1, <1>0 DEF WorkersOK, Stage
  <2>3. /\ private'[w].at = "stopped"
        /\ \A v \in Workers \ {w} : private'[v] = private[v]
    BY <2>1, <1>0 DEF WorkersOK
  <2>4. CASE \E v \in Workers \ {w} : Alive(v)
    BY <2>1, <2>2, <2>3, <2>4, <1>0 DEF SocketsKnown
  <2>5. CASE ~ \E v \in Workers \ {w} : Alive(v)
    <3>1. \A v \in Workers : private'[v].at \in {"absent", "stopped"}
      BY <2>3, <2>5 DEF Alive
    <3> QED BY <2>1, <2>2, <3>1 DEF SocketsKnown, Alive
  <2> QED BY <2>4, <2>5
<1>4. ASSUME NEW port \in Ports, StopPublic(port) PROVE WorkersOK' /\ SocketsKnown'
  <2>1. /\ public' = [public EXCEPT ![port] = "stopped"] /\ port \in DOMAIN public
        /\ UNCHANGED <<started, shutdown, private, public_sockets>>
    BY <1>4 DEF StopPublic
  <2>2. /\ public' = [p \in DOMAIN public' |-> public'[p]] /\ DOMAIN public' = DOMAIN public
        /\ \A p \in DOMAIN public : public'[p] = "recv" => public[p] = "recv"
    BY <2>1
  <2> QED BY <2>1, <2>2, <1>0 DEF WorkersOK, SocketsKnown, Alive
<1>5. ASSUME NEW w \in Workers, PeerSends(w) PROVE WorkersOK' /\ SocketsKnown'
  BY <1>1, <1>5 DEF PeerSends
<1>6. ASSUME NEW port \in Ports, NEW remote \in Remotes, RemoteSends(remote, port) \/ Forward(remote, port)
      PROVE  WorkersOK' /\ SocketsKnown'
  BY <1>1, <1>6 DEF RemoteSends, Forward
<1>7. CASE StartFails \/ Drop
  BY <1>1, <1>7 DEF StartFails, Drop
<1>8. CASE UNCHANGED <<vars, workers>>
  BY <1>1, <1>8 DEF workers
<1> QED BY <1>2, <1>3, <1>4, <1>5, <1>6, <1>7, <1>8, HandleKeepsSockets DEF NatNext

LEMMA NextInvited == NatInv /\ [NatNext]_<<vars, workers>> => SentByPeer' /\ DeliveredWasInvited'
<1> SUFFICES ASSUME NatInv, [NatNext]_<<vars, workers>> PROVE SentByPeer' /\ DeliveredWasInvited'
  OBVIOUS
<1>0. IInv /\ SentByPeer /\ DeliveredWasInvited
  BY DEF NatInv
<1>1. CASE UNCHANGED <<vars, delivered>>
  BY <1>0, <1>1 DEF vars, SentByPeer, DeliveredWasInvited
<1>2. ASSUME NEW w \in Workers, Translate(w) PROVE SentByPeer' /\ DeliveredWasInvited'
  <2>1. /\ delivered' = delivered /\ nat_type' = nat_type /\ sent \subseteq sent'
        /\ \A packet \in sent' : packet \in sent \/ packet.source = Peer
    <3>0. delivered' = delivered
      BY <1>2 DEF Translate
    <3>1. CASE TranslateMapped(Peer, Relays[w])
      BY <3>0, <3>1 DEF TranslateMapped
    <3>2. CASE TranslateNew(Peer, Relays[w])
      <4>1. PICK port \in Ports :
              sent' = sent \cup {[source |-> Peer, destination |-> Relays[w], port |-> port]}
        BY <3>2 DEF TranslateNew
      <4>2. nat_type' = nat_type
        BY <3>2 DEF TranslateNew
      <4> QED BY <3>0, <4>1, <4>2
    <3>3. CASE TranslateExhausted(Peer, Relays[w])
      BY <3>0, <3>3 DEF TranslateExhausted, vars
    <3> QED BY <1>2, <3>1, <3>2, <3>3 DEF Translate
  <2> QED BY <2>1, <1>0 DEF SentByPeer, DeliveredWasInvited
<1>3. ASSUME NEW port \in Ports, NEW remote \in Remotes, Forward(remote, port)
      PROVE  SentByPeer' /\ DeliveredWasInvited'
  <2>1. UNCHANGED <<nat_type, sent>>
        /\ \/ UNCHANGED delivered
           \/ /\ TranslateInbound(remote, PublicAddr, port) # {}
              /\ delivered' = delivered \cup {<<remote, port>>}
    BY <1>3 DEF Forward, vars
  <2>2. CASE /\ TranslateInbound(remote, PublicAddr, port) # {}
             /\ delivered' = delivered \cup {<<remote, port>>}
    <3>1. InboundWasInvited
      BY <1>0, InvariantInvites
    <3>2. \E packet \in sent :
            /\ packet.port = port
            /\ nat_type # "FullCone" => packet.destination.ip = remote.ip
            /\ nat_type \in {"PortRestrictedCone", "Symmetric"} => packet.destination = remote
      BY <2>2, <3>1 DEF InboundWasInvited
    <3> QED BY <2>1, <2>2, <3>2, <1>0 DEF SentByPeer, DeliveredWasInvited
  <2>3. CASE UNCHANGED delivered
    BY <2>1, <2>3, <1>0 DEF SentByPeer, DeliveredWasInvited
  <2> QED BY <2>1, <2>2, <2>3
<1>4. ASSUME NEW w \in Workers, PeerSends(w) \/ Handle(w) \/ StopPrivate(w), ~Translate(w)
      PROVE  UNCHANGED <<vars, delivered>>
  BY <1>4 DEF PeerSends, Handle, StopPrivate, Lookup, Bind, Insert, Spawn, Send, Become
<1>5. ASSUME NEW port \in Ports, StopPublic(port) \/ \E remote \in Remotes : RemoteSends(remote, port)
      PROVE  UNCHANGED <<vars, delivered>>
  BY <1>5 DEF StopPublic, RemoteSends
<1>6. ASSUME StartWorker \/ StartFails \/ Drop PROVE UNCHANGED <<vars, delivered>>
  BY <1>6 DEF StartWorker, StartFails, Drop
<1>7. CASE UNCHANGED <<vars, workers>>
  BY <1>1, <1>7 DEF workers
<1> HIDE DEF vars
<1> QED BY <1>1, <1>2, <1>3, <1>4, <1>5, <1>6, <1>7 DEF NatNext, Handle

\* The invariant of the NAT, its table and its sockets.
LEMMA NatInvariant == NatSpec => []NatInv
<1>1. NatInv /\ [NatNext]_<<vars, workers>> => NatInv'
  <2> SUFFICES ASSUME NatInv, [NatNext]_<<vars, workers>> PROVE NatInv'
    OBVIOUS
  <2>1. IInv'
    BY NatStepsTable, NextIInv DEF NatInv
  <2> QED BY <2>1, NextSockets, NextInvited DEF NatInv
<1> QED BY <1>1, InitNatInv, PTL DEF NatSpec

\* A packet is lost for want of a socket only if its port is some other
\* program's or a worker that uses the same port was opening the socket in
\* between, for any number of workers, relays and packets (nat.rs:363-394).
THEOREM LossesAreExplained == NatSpec => LossesExplained
<1> DEFINE Explained ==
      \A w \in Workers :
         private[w].at = "bind" /\ private'[w].at = "recv" =>
           \/ private[w].port \in Taken \cup public_sockets
           \/ \E v \in Workers : private[v] = [at |-> "insert", port |-> private[w].port]
<1>1. ASSUME NatInv, NatNext PROVE Explained
  <2> SUFFICES ASSUME NEW w \in Workers, private[w].at = "bind", private'[w].at = "recv"
               PROVE  \/ private[w].port \in Taken \cup public_sockets
                      \/ \E v \in Workers : private[v] = [at |-> "insert", port |-> private[w].port]
    OBVIOUS
  <2>0. WorkersOK /\ SocketsKnown
    BY <1>1 DEF NatInv
  <2>1. Bind(w)
    <3>1. ~StartWorker
      <4> SUFFICES ASSUME StartWorker PROVE FALSE
        OBVIOUS
      <4>1. private' = [private EXCEPT ![started + 1].at = "recv"]
        BY DEF StartWorker, Become
      <4>2. started + 1 = w
        BY <4>1, <2>0 DEF WorkersOK
      <4>3. started \in Nat
        BY <2>0, RelaysAssumption DEF WorkersOK
      <4>4. w > started
        BY <4>2, <4>3
      <4> QED BY <4>4, <2>0 DEF WorkersOK
    <3>2. \A v \in Workers : Handle(v) \/ StopPrivate(v) => v = w
      BY <2>0 DEF Handle, StopPrivate, Translate, Lookup, Bind, Insert, Spawn, Send, Become, WorkersOK
    <3>3. \A v \in Workers : ~PeerSends(v)
      BY DEF PeerSends
    <3>4. ~(StartFails \/ Drop)
      BY DEF StartFails, Drop
    <3>5. \A port \in Ports : \A remote \in Remotes :
            ~(StopPublic(port) \/ RemoteSends(remote, port) \/ Forward(remote, port))
      BY DEF StopPublic, RemoteSends, Forward
    <3>5a. \A port \in Ports : ~StopPublic(port)
      BY DEF StopPublic
    <3>6. Handle(w) \/ StopPrivate(w)
      BY <1>1, <3>1, <3>2, <3>3, <3>4, <3>5, <3>5a DEF NatNext
    <3> QED BY <3>6 DEF Handle, StopPrivate, Translate, Lookup, Insert, Spawn, Send
  <2>2. private[w].port \in Bound \cup Taken
    BY <2>0, <2>1 DEF Bind, WorkersOK
  <2>3. Alive(w)
    BY DEF Alive
  <2>4. \A p \in DOMAIN public : public[p] = "recv" => p \in public_sockets
    BY <2>0, <2>3 DEF SocketsKnown
  <2>5. ASSUME NEW v \in Workers, private[v].at \in {"insert", "spawn", "send"},
               private[v].port = private[w].port
        PROVE  \/ private[w].port \in public_sockets
               \/ private[v] = [at |-> "insert", port |-> private[w].port]
    BY <2>0, <2>5 DEF SocketsKnown, WorkersOK
  <2> QED BY <2>2, <2>4, <2>5 DEF Bound
<1>2. ASSUME NatInv, UNCHANGED <<vars, workers>> PROVE UNCHANGED <<vars, workers>>
  BY <1>2
<1>3. NatInv /\ [NatNext]_<<vars, workers>> => [Explained]_<<vars, workers>>
  BY <1>1
<1> QED BY <1>3, NatInvariant, PTL DEF NatSpec, LossesExplained

\* The NAT with its sockets and workers implements its table: all that is
\* proved of the table alone holds of the NAT too (nat.rs:272-361).
THEOREM NatImplementsTable == NatSpec => Spec
<1>1. NatInit => Init
  BY DEF NatInit
<1>2. [NatNext]_<<vars, workers>> => [Next]_vars
  BY NatStepsTable
<1> QED BY <1>1, <1>2, PTL DEF NatSpec, Spec

-----------------------------------------------------------------------------
(* Answers.                                                                *)

Busy == {"lookup", "bind", "insert", "spawn", "send"}

SentTo(remote, port) == [source |-> Peer, destination |-> remote, port |-> port]

\* What a worker has in hand is translated, and so is what has left.
SentOut ==
    /\ \A w \in Workers : private[w].at \in Busy => SentTo(Relays[w], private[w].port) \in sent
    /\ \A d \in out : SentTo(d[1], d[2]) \in sent

\* While the NAT runs, no socket of the map is without a reader for good, and
\* none that was used is missing.
SocketsRead ==
    shutdown = "open" =>
      /\ \A p \in public_sockets : HasReader(p)
      /\ \A d \in out : d[2] \in public_sockets

LEMMA TableKeepsSent ==
    ASSUME [NatNext]_<<vars, workers>>
    PROVE  sent \subseteq sent'
<1>1. ASSUME NEW s \in Sources, NEW d \in Remotes, TranslateNew(s, d) PROVE sent \subseteq sent'
  BY <1>1 DEF TranslateNew
<1>2. ASSUME NEW s \in Sources, NEW d \in Remotes, TranslateMapped(s, d) PROVE sent \subseteq sent'
  BY <1>2 DEF TranslateMapped
<1>3. ASSUME NEW s \in Sources, NEW d \in Remotes, TranslateExhausted(s, d) PROVE sent \subseteq sent'
  BY <1>3 DEF TranslateExhausted, vars
<1>4. CASE UNCHANGED vars
  BY <1>4 DEF vars
<1> QED BY <1>1, <1>2, <1>3, <1>4, NatStepsTable DEF Next

\* What a packet is translated to is recorded as sent.
LEMMA TranslatedIsSent ==
    ASSUME TypeOK, NEW s \in Sources, NEW d \in Remotes,
           TranslateMapped(s, d) \/ TranslateNew(s, d)
    PROVE  [source |-> s, destination |-> d,
            port |-> mappings'[MappingKey(s, d)].public] \in sent'
<1> DEFINE key == MappingKey(s, d)
<1>1. CASE TranslateMapped(s, d)
  <2>1. /\ key \in DOMAIN mappings
        /\ mappings' = [mappings EXCEPT ![key].contacts = @ \cup {d}]
        /\ sent' = sent \cup {[source |-> s, destination |-> d, port |-> mappings[key].public]}
    BY <1>1 DEF TranslateMapped
  <2>2. mappings[key] \in Mapping
    BY <2>1 DEF TypeOK
  <2>3. mappings'[key].public = mappings[key].public
    BY <2>1, <2>2 DEF Mapping
  <2> QED BY <2>1, <2>3
<1>2. CASE TranslateNew(s, d)
  <2>1. PICK port \in Ports :
          /\ mappings' = Put(mappings, key, [contacts |-> {d}, public |-> port, source |-> s])
          /\ sent' = sent \cup {[source |-> s, destination |-> d, port |-> port]}
    BY <1>2 DEF TranslateNew
  <2>2. mappings'[key].public = port
    BY <2>1 DEF Put
  <2> QED BY <2>1, <2>2
<1> QED BY <1>1, <1>2

LEMMA NextSentOut ==
    ASSUME NatInv, SentOut, [NatNext]_<<vars, workers>>
    PROVE  SentOut'
<1>0. /\ WorkersOK /\ TypeOK /\ sent \subseteq sent'
      /\ private \in [Workers -> [at : Stage, port : Ports]]
  BY TableKeepsSent DEF NatInv, IInv, WorkersOK
<1>1. CASE UNCHANGED <<private, out>>
  BY <1>0, <1>1 DEF SentOut
<1>2. ASSUME NEW w \in Workers, private' = [private EXCEPT ![w] = private'[w]],
             private'[w].at \in Busy => SentTo(Relays[w], private'[w].port) \in sent',
             out' = out \/ (private[w].at = "send"
                              /\ out' = out \cup {<<Relays[w], private[w].port>>})
      PROVE  SentOut'
  <2>1. \A v \in Workers : v # w => private'[v] = private[v]
    BY <1>0, <1>2
  <2>2. \A v \in Workers : private'[v].at \in Busy => SentTo(Relays[v], private'[v].port) \in sent'
    BY <1>0, <1>2, <2>1 DEF SentOut
  <2>3. \A d \in out' : SentTo(d[1], d[2]) \in sent'
    BY <1>0, <1>2 DEF SentOut, Busy
  <2> QED BY <2>2, <2>3 DEF SentOut
<1>3. ASSUME NEW w \in Workers, Handle(w) PROVE SentOut'
  <2>1. CASE Translate(w)
    <3>1. out' = out
      BY <2>1 DEF Translate
    <3>2. CASE UNCHANGED private
      BY <1>1, <3>1, <3>2
    <3>3. CASE /\ TranslateMapped(Peer, Relays[w]) \/ TranslateNew(Peer, Relays[w])
               /\ private' = [private EXCEPT ![w] =
                    [at |-> "lookup", port |-> mappings'[MappingKey(Peer, Relays[w])].public]]
      <4> DEFINE port == mappings'[MappingKey(Peer, Relays[w])].public
      <4>1. SentTo(Relays[w], port) \in sent'
        BY <1>0, <3>3, TranslatedIsSent, RelaysAreRemotes, PeerAssumption DEF SentTo
      <4> HIDE DEF port
      <4>2. private' = [private EXCEPT ![w] = [at |-> "lookup", port |-> port]]
        BY <3>3 DEF port
      <4>3. private'[w] = [at |-> "lookup", port |-> port]
        BY <1>0, <4>2
      <4>4. private' = [private EXCEPT ![w] = private'[w]]
        BY <4>2, <4>3
      <4>5. SentTo(Relays[w], private'[w].port) \in sent'
        BY <4>1, <4>3
      <4> QED BY <1>2, <3>1, <4>4, <4>5
    <3> QED BY <2>1, <3>2, <3>3 DEF Translate
  <2>2. CASE Lookup(w) \/ Bind(w) \/ Insert(w) \/ Spawn(w) \/ Send(w)
    <3>1. /\ private[w].at \in Busy
          /\ private' = [private EXCEPT ![w] = private'[w]]
          /\ private'[w].at \notin Busy \/ private'[w].port = private[w].port
          /\ out' = out \/ (private[w].at = "send"
                              /\ out' = out \cup {<<Relays[w], private[w].port>>})
      <4>1. CASE Lookup(w)
        BY <1>0, <4>1 DEF Lookup, Become, Busy
      <4>2. CASE Bind(w)
        BY <1>0, <4>2 DEF Bind, Idle, Busy
      <4>3. CASE Insert(w)
        BY <1>0, <4>3 DEF Insert, Become, Busy
      <4>4. CASE Spawn(w)
        BY <1>0, <4>4 DEF Spawn, Become, Busy
      <4>5. CASE Send(w)
        BY <1>0, <4>5 DEF Send, Idle, Busy
      <4> QED BY <2>2, <4>1, <4>2, <4>3, <4>4, <4>5
    <3>2. private'[w].at \in Busy => SentTo(Relays[w], private'[w].port) \in sent'
      BY <1>0, <3>1 DEF SentOut
    <3> QED BY <1>2, <3>1, <3>2
  <2> QED BY <1>3, <2>1, <2>2 DEF Handle
<1>4. ASSUME NEW w, \/ w = started + 1 /\ StartWorker
                    \/ w \in Workers /\ StopPrivate(w)
      PROVE  SentOut'
  <2>1. w \in Workers
    BY <1>0, <1>4, RelaysAssumption DEF WorkersOK, StartWorker, Starting, Workers
  <2>2. \E at \in {"recv", "stopped"} : private' = [private EXCEPT ![w].at = at]
    BY <1>4 DEF StartWorker, StopPrivate, Become
  <2>3. private' = [private EXCEPT ![w] = private'[w]] /\ private'[w].at \notin Busy
    BY <1>0, <2>1, <2>2 DEF Busy
  <2>4. out' = out
    BY <1>4 DEF StartWorker, StopPrivate
  <2> QED BY <1>2, <2>1, <2>3, <2>4
<1>5. CASE StartFails \/ Drop
  BY <1>1, <1>5 DEF StartFails, Drop
<1>6. ASSUME NEW w \in Workers, PeerSends(w) PROVE SentOut'
  BY <1>1, <1>6 DEF PeerSends
<1>7. ASSUME NEW port \in Ports,
             StopPublic(port) \/ \E remote \in Remotes : RemoteSends(remote, port) \/ Forward(remote, port)
      PROVE  SentOut'
  <2>1. UNCHANGED <<private, out>>
    BY <1>7 DEF StopPublic, RemoteSends, Forward
  <2> QED BY <1>1, <2>1
<1>8. CASE UNCHANGED <<vars, workers>>
  BY <1>1, <1>8 DEF workers
<1> QED BY <1>3, <1>4, <1>5, <1>6, <1>7, <1>8 DEF NatNext

LEMMA NextSocketsRead ==
    ASSUME NatInv, SocketsRead, [NatNext]_<<vars, workers>>
    PROVE  SocketsRead'
<1> SUFFICES ASSUME shutdown' = "open"
             PROVE  /\ \A p \in public_sockets' : HasReader(p)'
                    /\ \A d \in out' : d[2] \in public_sockets'
  BY DEF SocketsRead
<1>0. /\ WorkersOK /\ SocketsKnown
      /\ private \in [Workers -> [at : Stage, port : Ports]]
      /\ public = [p \in DOMAIN public |-> public[p]]
  BY DEF NatInv, WorkersOK
<1>1. ~Stop /\ shutdown = "open"
  <2>1. shutdown' = shutdown \/ shutdown' # "open"
    BY DEF NatNext, StartWorker, StartFails, Drop, PeerSends, Handle, Translate, Lookup, Bind,
           Insert, Spawn, Send, StopPrivate, StopPublic, RemoteSends, Forward, workers
  <2> QED BY <2>1 DEF Stop
<1>2. /\ \A p \in public_sockets : HasReader(p)
      /\ \A d \in out : d[2] \in public_sockets
  BY <1>1 DEF SocketsRead
<1>3. CASE /\ UNCHANGED <<public_sockets, public, out>>
           /\ \A v \in Workers : private[v].at = "spawn" => private'[v] = private[v]
  BY <1>0, <1>2, <1>3 DEF HasReader
<1>4. ASSUME NEW w \in Workers, Handle(w)
      PROVE  /\ \A p \in public_sockets' : HasReader(p)'
             /\ \A d \in out' : d[2] \in public_sockets'
  <2>1. CASE Translate(w) \/ Lookup(w) \/ Bind(w)
    <3>1. UNCHANGED <<public_sockets, public, out>> /\ private[w].at # "spawn"
      BY <2>1 DEF Translate, Lookup, Bind
    <3>2. \A v \in Workers : v # w => private'[v] = private[v]
      BY <1>0, <2>1 DEF Translate, Lookup, Bind, Become
    <3> QED BY <1>3, <3>1, <3>2
  <2>2. CASE Insert(w)
    <3>1. /\ UNCHANGED <<public, out>> /\ public_sockets' = public_sockets \cup {private[w].port}
          /\ private[w].at = "insert" /\ private' = [private EXCEPT ![w].at = "spawn"]
      BY <2>2 DEF Insert, Register, Become
    <3>2. /\ \A v \in Workers : v # w => private'[v] = private[v]
          /\ private'[w] = [at |-> "spawn", port |-> private[w].port]
      BY <1>0, <3>1
    <3> QED BY <1>2, <3>1, <3>2 DEF HasReader
  <2>3. CASE Spawn(w)
    <3>1. /\ UNCHANGED <<public_sockets, out>> /\ public' = Put(public, private[w].port, "recv")
          /\ \A v \in Workers : v # w => private'[v] = private[v]
      BY <1>0, <2>3 DEF Spawn, SpawnPublicWorker, Become
    <3>2. /\ DOMAIN public' = DOMAIN public \cup {private[w].port}
          /\ public'[private[w].port] = "recv"
          /\ \A p \in DOMAIN public : p # private[w].port => public'[p] = public[p]
      BY <3>1 DEF Put
    <3>3. ASSUME NEW p, HasReader(p) PROVE HasReader(p)'
      <4>1. CASE p = private[w].port
        BY <3>2, <4>1 DEF HasReader
      <4>2. CASE p # private[w].port
        BY <3>1, <3>2, <3>3, <4>2 DEF HasReader
      <4> QED BY <4>1, <4>2
    <3> QED BY <1>2, <3>1, <3>3
  <2>4. CASE Send(w)
    <3>1. /\ UNCHANGED <<public_sockets, public>> /\ private[w].at = "send"
          /\ out' = out \cup {<<Relays[w], private[w].port>>} \/ UNCHANGED out
          /\ \A v \in Workers : v # w => private'[v] = private[v]
      BY <1>0, <2>4 DEF Send
    <3>2. private[w].port \in public_sockets
      BY <1>0, <3>1 DEF SocketsKnown
    <3>3. \A p : HasReader(p) => HasReader(p)'
      BY <3>1 DEF HasReader
    <3> QED BY <1>2, <3>1, <3>2, <3>3
  <2> QED BY <1>4, <2>1, <2>2, <2>3, <2>4 DEF Handle
<1>5. CASE StartWorker
  <2>1. /\ UNCHANGED <<public_sockets, public, out>>
        /\ private' = [private EXCEPT ![started + 1].at = "recv"]
        /\ started \in Nat /\ started + 1 > started
        /\ \A v \in Workers : v > started => private[v].at = "absent"
    BY <1>0, <1>5, RelaysAssumption DEF StartWorker, Become, WorkersOK
  <2>2. \A v \in Workers : private[v].at = "spawn" => v # started + 1
    BY <2>1
  <2>3. \A v \in Workers : private[v].at = "spawn" => private'[v] = private[v]
    BY <1>0, <2>1, <2>2
  <2> QED BY <1>3, <2>1, <2>3
<1>6. CASE StartFails \/ Drop
  BY <1>3, <1>6 DEF StartFails, Drop
<1>7. ASSUME NEW w \in Workers, PeerSends(w)
      PROVE  UNCHANGED <<public_sockets, public, out, private>>
  BY <1>7 DEF PeerSends
<1>8. ASSUME NEW port \in Ports, NEW remote \in Remotes, RemoteSends(remote, port) \/ Forward(remote, port)
      PROVE  UNCHANGED <<public_sockets, public, out, private>>
  BY <1>8 DEF RemoteSends, Forward
<1>9. CASE UNCHANGED <<vars, workers>>
  BY <1>3, <1>9 DEF workers
<1>10. /\ \A w \in Workers : ~StopPrivate(w)
       /\ \A port \in Ports : ~StopPublic(port)
  BY <1>1 DEF StopPrivate, StopPublic
<1> QED BY <1>3, <1>4, <1>5, <1>6, <1>7, <1>8, <1>9, <1>10 DEF NatNext

\* Whatever has left by a port can be answered: the table lets the answer in,
\* and while the NAT runs somebody reads it or is about to, for any number of
\* workers that share sockets (nat.rs:363-394).
THEOREM AnswersAreServed == NatSpec => []AnswersServed
<1>1. NatInit => SentOut /\ SocketsRead
  <2> SUFFICES ASSUME NatInit PROVE SentOut /\ SocketsRead
    OBVIOUS
  <2>1. \A w \in Workers : private[w] = [at |-> "absent", port |-> 0]
    BY DEF NatInit, Idle
  <2> QED BY <2>1 DEF NatInit, SentOut, SocketsRead, Busy
<1>2. NatInv /\ SentOut /\ SocketsRead /\ [NatNext]_<<vars, workers>> => (SentOut /\ SocketsRead)'
  BY NextSentOut, NextSocketsRead
<1>3. ASSUME NatInv, SentOut, SocketsRead PROVE AnswersServed
  <2> SUFFICES ASSUME NEW remote \in Remotes, NEW port \in Ports, <<remote, port>> \in out
               PROVE  /\ TranslateInbound(remote, PublicAddr, port) = {Peer}
                      /\ shutdown = "open" => HasReader(port)
    BY DEF AnswersServed
  <2>1. SentTo(remote, port) \in sent
    BY <1>3 DEF SentOut
  <2>2. RepliesReturn
    BY <1>3, InvariantReplies DEF NatInv
  <2>3. TranslateInbound(remote, PublicAddr, port) = {Peer}
    BY <2>1, <2>2 DEF RepliesReturn, SentTo
  <2>4. shutdown = "open" => HasReader(port)
    BY <1>3 DEF SocketsRead
  <2> QED BY <2>3, <2>4
<1> QED BY <1>1, <1>2, <1>3, NatInvariant, PTL DEF NatSpec

\* What comes through the workers to the peer the peer has asked for, whatever
\* is delayed on the way (nat.rs:321-361).
THEOREM DeliveriesAreInvited == NatSpec => []DeliveredWasInvited
<1>1. NatInv => DeliveredWasInvited
  BY DEF NatInv
<1> QED BY <1>1, NatInvariant, PTL
=============================================================================
