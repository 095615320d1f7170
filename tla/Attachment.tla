----------------------------- MODULE Attachment -----------------------------
(***************************************************************************)
(* Attaching hosts and routers to the LANs of the test network             *)
(* (netlab/src/topology/): Lan::join_host, Lan::set_gateway,               *)
(* Router::attach, Router::enable_masquerade and Router::enable_udp_nat,   *)
(* called concurrently.                                                    *)
(*                                                                         *)
(* The records live in NetState under a mutex; each critical section is    *)
(* one step. What the kernel is told (interfaces, addresses, routes,       *)
(* nftables) takes an await: a step of its own, which may fail, and then   *)
(* the call returns the error and undoes nothing.                          *)
(***************************************************************************)
EXTENDS Integers, FiniteSets

CONSTANTS
    Hosts,
    Routers,
    Lans,
    Calls,             \* the calls made, in any order and overlapping
    Workloads,         \* what the calls do, to which node and LAN: job is one of these
    PoolSize,          \* host addresses of a LAN: 1 .. PoolSize
    None,
    SerialMasquerade   \* no two enable_masquerade calls of a router overlap

Nodes == Hosts \cup Routers
Addresses == 1 .. PoolSize
Ops == {"join_host", "attach", "set_gateway", "enable_masquerade", "enable_udp_nat"}

\* Where a call is: at a critical section or at an await.
Sections == {"new", "attach", "allocate", "remember", "remember_router", "record", "rules",
             "remember_masquerade", "public", "remember_nat"}
Awaits == {"port", "assign", "default_route", "host_routes", "nft", "start_nat"}

ASSUME JobAssumption ==
    /\ Workloads \subseteq [Calls -> [op : Ops, node : Nodes, lan : Lans, public : Lans]]
    /\ \A w \in Workloads, c \in Calls : w[c].op = "join_host" <=> w[c].node \in Hosts
ASSUME NodesAssumption == Hosts \cap Routers = {}
ASSUME NoneAssumption ==
    None \notin Addresses \cup (Calls \X Lans) \cup (Lans \X Addresses)
ASSUME PoolAssumption == PoolSize \in Nat
ASSUME FlagsAssumption == SerialMasquerade \in BOOLEAN

VARIABLES
    job,            \* what each call does; never changes
    lans,           \* LanEntry of each LAN
    routers,        \* RouterEntry of each router
    calls,          \* progress of each call
    interfaces,     \* kernel: the interfaces on the LANs' bridges, by the call that made them
    default_route,  \* kernel: the default route of each host
    nft,            \* kernel: the LANs each router has masquerade rules for
    holder          \* history: the call, and its LAN, that was given each address

kernel == <<interfaces, default_route, nft>>
vars == <<job, lans, routers, calls, kernel, holder>>

Slots == Lans \X Addresses

LanEntry == [gateway : Addresses \cup {None},
             hosts : [Hosts -> Addresses \cup {None}],
             next_host : 0 .. PoolSize,
             routers : [Routers -> Addresses \cup {None}]]

\* A UdpNat: the addresses of the router it relays between.
UdpNats == (Lans \X Addresses) \X (Lans \X Addresses)

RouterEntry == [lans : SUBSET Lans, masquerade_lans : SUBSET Lans, udp_nats : SUBSET UdpNats]

Init ==
    /\ job \in Workloads
    /\ lans = [l \in Lans |-> [gateway |-> None, hosts |-> [h \in Hosts |-> None],
                               next_host |-> 0, routers |-> [r \in Routers |-> None]]]
    /\ routers = [r \in Routers |-> [lans |-> {}, masquerade_lans |-> {}, udp_nats |-> {}]]
    /\ calls = [c \in Calls |-> [stage |-> "new", lan |-> job[c].lan, address |-> None,
                                 gateway |-> None, hosts |-> {}, left |-> {},
                                 rules |-> {}, private |-> None]]
    /\ interfaces = {}
    /\ default_route = [h \in Hosts |-> None]
    /\ nft = [r \in Routers |-> {}]
    /\ holder = [s \in Slots |-> None]
-----------------------------------------------------------------------------
Node(c) == job[c].node
LanOf(c) == calls[c].lan  \* the one that is being attached
Op(c) == job[c].op
At(c, stage) == calls[c].stage = stage
Running(c) == calls[c].stage \notin {"new", "ok", "error"}
Goto(c, stage) == calls' = [calls EXCEPT ![c].stage = stage]

\* Where Router::attach returns to.
AfterAttach(c) ==
    CASE Op(c) = "attach" -> "ok"
      [] Op(c) = "set_gateway" -> "record"
      [] Op(c) = "enable_udp_nat" -> IF calls[c].private = None THEN "public" ELSE "start_nat"
      [] OTHER -> "rules"

\* The address under which the LAN knows the node, or None.
Known(c) ==
    IF Op(c) = "join_host" THEN lans[LanOf(c)].hosts[Node(c)]
                           ELSE lans[LanOf(c)].routers[Node(c)]

MayStart(c) ==
    Op(c) = "enable_masquerade" /\ SerialMasquerade =>
        \A d \in Calls : Op(d) = "enable_masquerade" /\ Node(d) = Node(c) => ~Running(d)

\* join_host and attach begin alike: a node the LAN knows keeps its address.
Start(c) ==
    /\ (At(c, "new") /\ MayStart(c)) \/ At(c, "attach")
    /\ calls' = [calls EXCEPT ![c].address = Known(c),
                              ![c].stage = IF Known(c) = None THEN "port"
                                           ELSE IF Op(c) = "join_host" THEN "ok"
                                           ELSE AfterAttach(c)]
    /\ UNCHANGED <<lans, routers, kernel, holder>>

\* Lan::attach_node: a veth pair whose one end is a port of the bridge.
AttachNode(c) ==
    /\ At(c, "port")
    /\ interfaces' = interfaces \cup {[call |-> c, lan |-> LanOf(c), address |-> None]}
    /\ Goto(c, "allocate")
    /\ UNCHANGED <<lans, routers, default_route, nft, holder>>

\* Mutant: the counter of the LAN stays.
SameNext(n) == n

NextHost(n) == n + 1

Exhausted(n) == n = PoolSize

\* Mutant: the address is recorded and not added to the interface.
RecordOnly == "remember"

AfterAllocation == "assign"

\* The next address of the pool, unless it is exhausted; none ever returns.
AllocateAddress(c) ==
    /\ At(c, "allocate")
    /\ LET n == lans[LanOf(c)].next_host IN
       \/ /\ Exhausted(n)
          /\ Goto(c, "error")
          /\ UNCHANGED <<lans, holder>>
       \/ /\ ~Exhausted(n)
          /\ holder' = [holder EXCEPT ![<<LanOf(c), n + 1>>] = <<c, LanOf(c)>>]
          /\ lans' = [lans EXCEPT ![LanOf(c)].next_host = NextHost(n)]
          /\ calls' = [calls EXCEPT ![c].address = n + 1, ![c].stage = AfterAllocation]
    /\ UNCHANGED <<routers, kernel>>

\* Interface::add_address.
AddAddress(c) ==
    /\ At(c, "assign")
    /\ interfaces' = {IF i.call = c /\ i.lan = LanOf(c)
                      THEN [i EXCEPT !.address = calls[c].address] ELSE i : i \in interfaces}
    /\ Goto(c, "remember")
    /\ UNCHANGED <<lans, routers, default_route, nft, holder>>

\* Lan::remember_host: from here on set_gateway knows the host, and a gateway
\* that is known already is this call's to install.
RememberHost(c) ==
    /\ At(c, "remember")
    /\ Op(c) = "join_host"
    /\ lans' = [lans EXCEPT ![LanOf(c)].hosts[Node(c)] = calls[c].address]
    /\ LET gateway == lans[LanOf(c)].gateway IN
       calls' = [calls EXCEPT ![c].gateway = gateway,
                              ![c].stage = IF gateway = None THEN "ok" ELSE "default_route"]
    /\ UNCHANGED <<routers, kernel, holder>>

DefaultRoute(c) ==
    /\ At(c, "default_route")
    /\ default_route' = [default_route EXCEPT ![Node(c)] = <<LanOf(c), calls[c].gateway>>]
    /\ Goto(c, "ok")
    /\ UNCHANGED <<lans, routers, interfaces, nft, holder>>

\* Mutant: the router does not record the LAN.
RememberLanForgets(c) ==
    /\ At(c, "remember")
    /\ Op(c) # "join_host"
    /\ Goto(c, "remember_router")
    /\ UNCHANGED <<lans, routers, kernel, holder>>

\* Router::remember_lan.
RememberLan(c) ==
    /\ At(c, "remember")
    /\ Op(c) # "join_host"
    /\ routers' = [routers EXCEPT ![Node(c)].lans = @ \cup {LanOf(c)}]
    /\ Goto(c, "remember_router")
    /\ UNCHANGED <<lans, kernel, holder>>

\* Lan::remember_router.
RememberRouter(c) ==
    /\ At(c, "remember_router")
    /\ lans' = [lans EXCEPT ![LanOf(c)].routers[Node(c)] = calls[c].address]
    /\ Goto(c, AfterAttach(c))
    /\ UNCHANGED <<routers, kernel, holder>>

\* Mutant: the last gateway wins.
AnyGateway(l, address) == TRUE

GatewayAgrees(l, address) == lans[l].gateway \in {None, address}

KnownHosts(l) == {h \in Hosts : lans[l].hosts[h] # None}

\* set_gateway: the gateway of a LAN is recorded once; every host the LAN
\* knows at this moment is to be given it.
RecordGateway(c) ==
    /\ At(c, "record")
    /\ LET l == LanOf(c)
           address == lans[l].routers[Node(c)] IN
       \/ /\ ~GatewayAgrees(l, address)
          /\ Goto(c, "error")
          /\ UNCHANGED lans
       \/ /\ GatewayAgrees(l, address)
          /\ lans' = [lans EXCEPT ![l].gateway = address]
          /\ calls' = [calls EXCEPT ![c].gateway = address, ![c].stage = "host_routes",
                                    ![c].hosts = KnownHosts(l), ![c].left = KnownHosts(l)]
    /\ UNCHANGED <<routers, kernel, holder>>

\* Its loop over the hosts' interfaces, in the order of a hash map.
HostRoute(c, h) ==
    /\ At(c, "host_routes")
    /\ h \in calls[c].left
    /\ default_route' = [default_route EXCEPT ![h] = <<LanOf(c), calls[c].gateway>>]
    /\ calls' = [calls EXCEPT ![c].left = @ \ {h}]
    /\ UNCHANGED <<lans, routers, interfaces, nft, holder>>

AllRouted(c) ==
    /\ At(c, "host_routes")
    /\ calls[c].left = {}
    /\ Goto(c, "ok")
    /\ UNCHANGED <<lans, routers, kernel, holder>>

\* Mutant: the rules are those of this LAN.
RulesOf(c) == {LanOf(c)}

\* Router::masquerade_rules_with.
RulesWith(c) == routers[Node(c)].masquerade_lans \cup {LanOf(c)}

MasqueradeRules(c) ==
    /\ At(c, "rules")
    /\ calls' = [calls EXCEPT ![c].rules = RulesWith(c), ![c].stage = "nft"]
    /\ UNCHANGED <<lans, routers, kernel, holder>>

\* nat::apply_masquerade replaces the whole table in one transaction.
ApplyMasquerade(c) ==
    /\ At(c, "nft")
    /\ nft' = [nft EXCEPT ![Node(c)] = calls[c].rules]
    /\ Goto(c, "remember_masquerade")
    /\ UNCHANGED <<lans, routers, interfaces, default_route, holder>>

RememberMasqueradeLan(c) ==
    /\ At(c, "remember_masquerade")
    /\ routers' = [routers EXCEPT ![Node(c)].masquerade_lans = @ \cup {LanOf(c)}]
    /\ Goto(c, "ok")
    /\ UNCHANGED <<lans, kernel, holder>>

\* enable_udp_nat: the router has its private address and goes for the public
\* one.
AttachPublic(c) ==
    /\ At(c, "public")
    /\ calls' = [calls EXCEPT ![c].private = <<LanOf(c), calls[c].address>>,
                              ![c].lan = job[c].public, ![c].stage = "attach"]
    /\ UNCHANGED <<lans, routers, kernel, holder>>

\* UdpNat::start on the router's executor; see UdpNat.tla.
StartNat(c) ==
    /\ At(c, "start_nat")
    /\ Goto(c, "remember_nat")
    /\ UNCHANGED <<lans, routers, kernel, holder>>

RememberUdpNat(c) ==
    /\ At(c, "remember_nat")
    /\ routers' = [routers EXCEPT ![Node(c)].udp_nats =
         @ \cup {<<calls[c].private, <<LanOf(c), calls[c].address>>>>}]
    /\ Goto(c, "ok")
    /\ UNCHANGED <<lans, kernel, holder>>

\* An await fails.
Fail(c) ==
    /\ calls[c].stage \in Awaits
    /\ At(c, "host_routes") => calls[c].left # {}
    /\ Goto(c, "error")
    /\ UNCHANGED <<lans, routers, kernel, holder>>

Step(c) ==
    \/ Start(c) \/ AttachNode(c) \/ AllocateAddress(c) \/ AddAddress(c)
    \/ RememberHost(c) \/ DefaultRoute(c)
    \/ RememberLan(c) \/ RememberRouter(c)
    \/ RecordGateway(c) \/ AllRouted(c) \/ \E h \in Hosts : HostRoute(c, h)
    \/ MasqueradeRules(c) \/ ApplyMasquerade(c) \/ RememberMasqueradeLan(c)
    \/ AttachPublic(c) \/ StartNat(c) \/ RememberUdpNat(c)
    \/ Fail(c)

Next == UNCHANGED job /\ \E c \in Calls : Step(c)

Spec == Init /\ [][Next]_vars
-----------------------------------------------------------------------------
Returned(op, l) == {c \in Calls : Op(c) = op /\ LanOf(c) = l /\ At(c, "ok")}

\* The host has the gateway of one of its LANs as its default route.
Connected(h) ==
    \E l \in Lans : /\ lans[l].hosts[h] # None
                    /\ lans[l].gateway # None
                    /\ default_route[h] = <<l, lans[l].gateway>>

\* A join that was to install the default route has failed there.
LeftUnrouted(h, l) ==
    \E c \in Calls : /\ Op(c) = "join_host" /\ Node(c) = h /\ LanOf(c) = l
                     /\ At(c, "error")
                     /\ calls[c].gateway # None

\* A join and a set_gateway that overlap do not miss each other: once no call
\* is in progress and some set_gateway of the LAN has returned, every host the
\* LAN knows is connected; or its join has failed after the LAN had recorded
\* it, which repeating the join does not make up for, but any set_gateway does
\* that begins to install routes later (lan.rs:53-55, 93-114).
GatewayReachesHosts ==
    (\A c \in Calls : ~Running(c)) =>
        \A l \in Lans : \A h \in KnownHosts(l) :
            Returned("set_gateway", l) # {} =>
                \/ Connected(h)
                \/ /\ LeftUnrouted(h, l)
                   /\ \A c \in Returned("set_gateway", l) : h \notin calls[c].hosts

\* The node has the address on an interface to the LAN.
Has(node, lan, address) ==
    \E i \in interfaces : i.address = address /\ i.lan = lan /\ Node(i.call) = node

\* The address that a join or an attach returns is on an interface of that
\* node to that LAN, also when the call found it recorded by another call that
\* has not returned yet; and so are both addresses of a UDP NAT
\* (lan.rs:44-53, router.rs:38-49, 77-88).
AddressesWork ==
    /\ \A c \in Calls : At(c, "ok") => Has(Node(c), LanOf(c), calls[c].address)
    /\ \A r \in Routers : \A nat \in routers[r].udp_nats :
         Has(r, nat[1][1], nat[1][2]) /\ Has(r, nat[2][1], nat[2][2])

\* What a snapshot of the topology may rely on: entries are well formed, with
\* at most as many addresses given as the pool has, a LAN names a router only if
\* the router names the LAN, and only such LANs are masqueraded
\* (router.rs:48-49, 57-61; net.rs:136-168).
RecordsAgree ==
    /\ lans \in [Lans -> LanEntry]
    /\ routers \in [Routers -> RouterEntry]
    /\ \A r \in Routers, l \in Lans :
        /\ lans[l].routers[r] # None => l \in routers[r].lans
        /\ l \in routers[r].masquerade_lans => lans[l].routers[r] # None

\* Each rule set the kernel is given covers all LANs that are recorded as
\* masqueraded: a later enable_masquerade does not take back an earlier one
\* (router.rs:57-61, nat.rs:90-99).
MasqueradeKept ==
    SerialMasquerade => \A r \in Routers : routers[r].masquerade_lans \subseteq nft[r]

AddressLeases == INSTANCE Leases WITH
    Slots <- Slots, Owners <- Calls \X Lans, Free <- None, holder <- holder

\* Addresses are leased for good: none is given to two attachments, and a call that
\* fails keeps the one it was given (lan.rs:72-84).
AddressesLeased == AddressLeases!PermanentSpec
=============================================================================
