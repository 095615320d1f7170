------------------------------ MODULE NatTable ------------------------------
(***************************************************************************)
(* The translation table of the test network's UDP NAT (netlab/src/nat.rs):*)
(* it gives each mapping key a public port of its own, remembers which     *)
(* remote addresses were contacted through the mapping, and decides which  *)
(* packets from outside may come back through it.                          *)
(*                                                                         *)
(* The table is used under one mutex, so each translation is one step.     *)
(* translate_inbound changes nothing: it is the operator TranslateInbound. *)
(***************************************************************************)
EXTENDS Integers, FiniteSets

CONSTANTS
    NatTypes,          \* the NAT types considered
    Sources,           \* private socket addresses
    Remotes,           \* socket addresses outside
    PublicAddr,        \* the public IP of the router
    NoDestination,     \* the destination of a key that has none
    FirstDynamicPort,  \* 49152 in the code
    MaxPort,           \* u16::MAX in the code
    Free               \* the holder of a port nobody uses

AllNatTypes == {"FullCone", "RestrictedCone", "PortRestrictedCone", "Symmetric"}

Ports == 0 .. MaxPort
DynamicPorts == FirstDynamicPort .. MaxPort

ASSUME NatTypesAssumption == NatTypes \subseteq AllNatTypes
ASSUME PortsAssumption ==
    /\ FirstDynamicPort \in Nat \ {0}
    /\ MaxPort \in Nat
    /\ FirstDynamicPort <= MaxPort
ASSUME SourcesAssumption == \A s \in Sources : s.port \in Ports
ASSUME DestinationAssumption == NoDestination \notin Remotes

VARIABLES
    nat_type,   \* of this table; never changes
    mappings,   \* mapping key -> mapping
    ports,      \* public port -> the key it is mapped to
    next_port,  \* where the next scan for a free port starts
    sent        \* history: every outbound packet with the port it left by

vars == <<nat_type, mappings, ports, next_port, sent>>

Keys == [source : Sources, destination : Remotes \cup {NoDestination}]
Mapping == [contacts : SUBSET Remotes, public : Ports, source : Sources]
Packet == [source : Sources, destination : Remotes, port : Ports]

ASSUME FreePortAssumption == Free \notin Keys
-----------------------------------------------------------------------------
(* NatType.                                                                *)

\* Mutant: every NAT maps a source once.
ConeKey(source, destination) == [source |-> source, destination |-> NoDestination]

\* A cone NAT maps a source once; a symmetric one maps it once for each
\* destination.
MappingKey(source, destination) ==
    [source |-> source,
     destination |-> IF nat_type = "Symmetric" THEN destination ELSE NoDestination]

\* Mutant: a port restricted NAT looks at the host only.
AllowsHost(contacts, source) ==
    nat_type = "FullCone" \/ \E c \in contacts : c.ip = source.ip

AllowsInbound(contacts, source) ==
    CASE nat_type = "FullCone" -> TRUE
      [] nat_type = "RestrictedCone" -> \E c \in contacts : c.ip = source.ip
      [] OTHER -> source \in contacts
-----------------------------------------------------------------------------
(* NatTable.                                                               *)

Used == DOMAIN ports
FreeDynamic == DynamicPorts \ Used

\* Mutant: the scan does not wrap around.
SuccUnwrapped(port) == port + 1

Succ(port) == IF port = MaxPort THEN FirstDynamicPort ELSE port + 1

\* Steps of a scan that starts at next_port before it looks at the port.
Distance(port) ==
    IF port >= next_port THEN port - next_port
                         ELSE port - next_port + MaxPort - FirstDynamicPort + 1

\* Mutant: the preferred port is taken whether it is free or not.
PreferredAnyway(preferred) == preferred # 0

PreferredFree(preferred) == preferred # 0 /\ preferred \notin Used

FirstFree(port) ==
    /\ port \in FreeDynamic
    /\ \A q \in FreeDynamic : Distance(port) <= Distance(q)

\* The source's own port when it is free; otherwise the first free dynamic
\* port of a scan that starts at next_port and wraps around.
AllocatePort(preferred, port) ==
    \/ /\ PreferredFree(preferred)
       /\ port = preferred
       /\ next_port' = next_port
    \/ /\ ~PreferredFree(preferred)
       /\ FirstFree(port)
       /\ next_port' = Succ(port)

Put(f, x, y) == [z \in DOMAIN f \cup {x} |-> IF z = x THEN y ELSE f[z]]

Init ==
    /\ nat_type \in NatTypes
    /\ mappings = [k \in {} |-> {}]
    /\ ports = [p \in {} |-> {}]
    /\ next_port = FirstDynamicPort
    /\ sent = {}

\* Mutant: only the first destination is remembered as a contact.
TranslateMappedForgets(source, destination) ==
    LET key == MappingKey(source, destination) IN
    /\ key \in DOMAIN mappings
    /\ sent' = sent \cup {[source |-> source, destination |-> destination,
                           port |-> mappings[key].public]}
    /\ UNCHANGED <<nat_type, mappings, ports, next_port>>

\* translate_outbound for a key that has a mapping.
TranslateMapped(source, destination) ==
    LET key == MappingKey(source, destination) IN
    /\ key \in DOMAIN mappings
    /\ mappings' = [mappings EXCEPT ![key].contacts = @ \cup {destination}]
    /\ sent' = sent \cup {[source |-> source, destination |-> destination,
                           port |-> mappings[key].public]}
    /\ UNCHANGED <<nat_type, ports, next_port>>

\* translate_outbound for a new key.
TranslateNew(source, destination) ==
    LET key == MappingKey(source, destination) IN
    /\ key \notin DOMAIN mappings
    /\ \E port \in Ports :
         /\ AllocatePort(source.port, port)
         /\ ports' = Put(ports, port, key)
         /\ mappings' = Put(mappings, key, [contacts |-> {destination},
                                            public |-> port, source |-> source])
         /\ sent' = sent \cup {[source |-> source, destination |-> destination,
                                port |-> port]}
    /\ UNCHANGED nat_type

\* "nat port pool is exhausted": the scan went once around and is back where
\* it started.
TranslateExhausted(source, destination) ==
    /\ MappingKey(source, destination) \notin DOMAIN mappings
    /\ ~PreferredFree(source.port)
    /\ FreeDynamic = {}
    /\ UNCHANGED vars

Next ==
    \E source \in Sources, destination \in Remotes :
      \/ TranslateMapped(source, destination)
      \/ TranslateNew(source, destination)
      \/ TranslateExhausted(source, destination)

Spec == Init /\ [][Next]_vars

\* translate_inbound: where a packet from `source` to the public address ip
\* and port is sent on to; the empty set when it is dropped.
TranslateInbound(source, ip, port) ==
    IF /\ ip = PublicAddr
       /\ port \in Used
       /\ AllowsInbound(mappings[ports[port]].contacts, source)
    THEN {mappings[ports[port]].source}
    ELSE {}
-----------------------------------------------------------------------------
(* Properties.                                                             *)

\* Types of the table and of its history.
TypeOK ==
    /\ nat_type \in NatTypes
    /\ DOMAIN mappings \subseteq Keys
    /\ \A k \in DOMAIN mappings : mappings[k] \in Mapping
    /\ Used \subseteq Ports
    /\ \A p \in Used : ports[p] \in Keys
    /\ next_port \in DynamicPorts
    /\ sent \subseteq Packet

\* The two maps are inverse to each other (nat.rs:162-171): so no two keys
\* share a port, and a port that answers belongs to a mapping.
MapsAgree ==
    /\ \A k \in DOMAIN mappings :
         mappings[k].public \in Used /\ ports[mappings[k].public] = k
    /\ \A p \in Used : ports[p] \in DOMAIN mappings /\ mappings[ports[p]].public = p

\* Whatever was sent can be answered: the remote address a packet went to
\* reaches its sender through the port the packet left by, for every NAT
\* type and however many mappings came since (nat.rs:124-177).
RepliesReturn ==
    \A packet \in sent :
      TranslateInbound(packet.destination, PublicAddr, packet.port) = {packet.source}

\* Whatever comes in was asked for as strictly as the NAT type demands: the
\* private address it reaches has sent through that port, to an address of
\* that host unless the NAT is a full cone, to that very address when it is
\* port restricted or symmetric (nat.rs:244-251).
InboundWasInvited ==
    \A remote \in Remotes, port \in Ports :
      \A source \in TranslateInbound(remote, PublicAddr, port) :
        \E packet \in sent :
          /\ packet.port = port
          /\ packet.source = source
          /\ nat_type # "FullCone" => packet.destination.ip = remote.ip
          /\ nat_type \in {"PortRestrictedCone", "Symmetric"} =>
               packet.destination = remote

\* A cone NAT shows a private address to everyone as the same public port; a
\* symmetric one shows it to no two destinations as the same port
\* (nat.rs:253-261).
PortPerNatType ==
    \A a, b \in sent :
      a.source = b.source =>
        (a.port = b.port <=> (nat_type # "Symmetric" \/ a.destination = b.destination))

\* A turn of allocate_port's loop.
Turn(acc) ==
    IF acc.found # {} THEN acc
    ELSE [next |-> Succ(acc.next), found |-> {acc.next} \ Used]

\* What the loop knows after a number of turns.
Turns ==
    LET turns[n \in Nat] ==
            IF n = 0 THEN [next |-> next_port, found |-> {}] ELSE Turn(turns[n - 1])
    IN turns

\* The first free port is the one allocate_port's loop finds, one turn per
\* dynamic port, with the same place to start from the next time; and the loop
\* comes back to where it started, empty-handed, exactly when no dynamic port
\* is free (nat.rs:184-197).
ScanIsLoop ==
    LET loop == Turns[Cardinality(DynamicPorts)] IN
    /\ {p \in Ports : FirstFree(p)} = loop.found
    /\ loop.next = IF loop.found = {} THEN next_port
                   ELSE Succ(CHOOSE p \in Ports : FirstFree(p))

\* The public ports are leased for good.
holder == [p \in Ports |-> IF p \in Used THEN ports[p] ELSE Free]
PortLeases == INSTANCE Leases WITH Slots <- Ports, Owners <- Keys
PortsPermanent == PortLeases!PermanentSpec
=============================================================================
