------------------------------ MODULE Converge ------------------------------
(***************************************************************************)
(* Net::converge of the test network (netlab/src/net.rs): one snapshot of  *)
(* the topology, a breadth-first search from every router over that        *)
(* snapshot, and the route updates it yields, applied one by one through   *)
(* netlink. The topology may change while a call runs, a call may fail at  *)
(* any update, and calls are repeated.                                     *)
(*                                                                         *)
(* The hash maps and sets of the code are iterated in an order nobody      *)
(* chooses: every loop over one is an existential here.                    *)
(*                                                                         *)
(* A gateway <<n, l>> is the address of router n on LAN l.                 *)
(***************************************************************************)
EXTENDS Integers, FiniteSets, SequencesExt

CONSTANTS
    RouterIds,
    LanIds,
    None,      \* no gateway, no router
    Workloads  \* what a behaviour may start from: a topology, and the bounds on
               \* the calls of converge and on those that change the topology

Gateways == RouterIds \X LanIds

Topology(routers, lans) ==
    [lans : [routers -> SUBSET lans],
     routers : [lans -> SUBSET routers],
     masquerade : [routers -> SUBSET lans]]

\* A network has finitely many routers.
ASSUME RoutersAssumption == IsFiniteSet(RouterIds)
ASSUME NoneAssumption == None \notin RouterIds \cup Gateways
ASSUME WorkloadsAssumption ==
    \A w \in Workloads :
      /\ w.calls \in Nat /\ w.changes \in Nat
      /\ \E routers \in SUBSET RouterIds, lans \in SUBSET LanIds :
           /\ w.topology \in Topology(routers, lans)
           /\ \A r \in routers :
                /\ w.topology.masquerade[r] \subseteq w.topology.lans[r]
                /\ w.topology.lans[r] = {l \in lans : r \in w.topology.routers[l]}

VARIABLES
    topology,   \* NetState: what attach and enable_masquerade have recorded
    routes,     \* the static route of each router to each LAN, in its kernel
    stage,      \* where the call of converge is
    snapshot,   \* the topology the call works from
    sources,    \* routers whose search has not begun
    source,     \* the router searched from, or None
    queue,      \* of the search; its head is the router being looked at
    exploring,  \* LANs of that router still to be looked at
    visited,    \* visited_routers
    gateways,   \* first hop towards each router found
    reached,    \* reached_lans
    updates,    \* sets of route updates, to be applied in this order
    calls,      \* calls of converge still to come
    changes     \* calls of attach and enable_masquerade still to come

\* Both are created once and for all.
Routers == DOMAIN topology.lans
Lans == DOMAIN topology.routers

search == <<source, queue, exploring, visited, gateways, reached>>
vars == <<topology, routes, stage, snapshot, sources, search, updates, calls, changes>>

NoGateway(S) == [x \in S |-> None]

Init ==
    /\ \E w \in Workloads : topology = w.topology /\ calls = w.calls /\ changes = w.changes
    /\ routes = [r \in Routers |-> NoGateway(Lans)]
    /\ stage = "idle"
    /\ snapshot = topology
    /\ sources = {}
    /\ source = None
    /\ queue = <<>>
    /\ exploring = {}
    /\ visited = {}
    /\ gateways = NoGateway(Routers)
    /\ reached = NoGateway(Lans)
    /\ updates = <<>>
-----------------------------------------------------------------------------
(* The topology changes.                                                   *)

\* A search reads nothing but its snapshot: what changes meanwhile might as
\* well change when it is over.
Change(next) ==
    /\ stage # "search"
    /\ topology' = next
    /\ UNCHANGED <<routes, stage, snapshot, sources, search, updates, calls>>

\* One more call of attach or enable_masquerade begins.
Begin == changes > 0 /\ changes' = changes - 1

\* Router::attach, its first record. A static route to the LAN that an earlier
\* converge installed would compete with the kernel's route to the attached
\* network: that choice is the kernel's and is left out.
RememberLan(r, l) ==
    /\ stage \in {"idle", "settled"}
    /\ l \notin topology.lans[r]
    /\ routes[r][l] = None
    /\ Begin
    /\ Change([topology EXCEPT !.lans[r] = @ \cup {l}])

\* Router::attach, its second record.
RememberRouter(r, l) ==
    /\ l \in topology.lans[r]
    /\ r \notin topology.routers[l]
    /\ UNCHANGED changes
    /\ Change([topology EXCEPT !.routers[l] = @ \cup {r}])

\* Router::enable_masquerade, which has attached the LAN before.
RememberMasqueradeLan(r, l) ==
    /\ r \in topology.routers[l]
    /\ l \notin topology.masquerade[r]
    /\ Begin
    /\ Change([topology EXCEPT !.masquerade[r] = @ \cup {l}])
-----------------------------------------------------------------------------
(* converge.                                                               *)

TakeSnapshot ==
    /\ stage \in {"idle", "settled"}
    /\ calls > 0
    /\ calls' = calls - 1
    /\ stage' = "search"
    /\ snapshot' = topology
    /\ sources' = Routers
    /\ updates' = <<>>
    /\ UNCHANGED <<topology, routes, search, changes>>

\* route_updates_from: the search from one router.
Search(r) ==
    /\ stage = "search"
    /\ source = None
    /\ r \in sources
    /\ sources' = sources \ {r}
    /\ source' = r
    /\ queue' = <<r>>
    /\ exploring' = snapshot.lans[r]
    /\ visited' = {r}
    /\ gateways' = NoGateway(Routers)
    /\ reached' = NoGateway(Lans)
    /\ UNCHANGED <<topology, routes, stage, snapshot, updates, calls, changes>>

Current == Head(queue)

\* A router exports its LANs except those it masquerades; its own are all in
\* its reach.
Exports(r, l) == r = source \/ l \notin snapshot.masquerade[r]

FirstHop(r, l) == IF Current = source THEN <<r, l>> ELSE gateways[Current]

\* Mutant: the last router that reaches a LAN is the one that counts.
ReachLatest(l) ==
    reached' = IF Current # source /\ l \notin snapshot.lans[source]
               THEN [reached EXCEPT ![l] = gateways[Current]]
               ELSE reached

Reach(l) ==
    reached' = IF Current # source /\ l \notin snapshot.lans[source] /\ reached[l] = None
               THEN [reached EXCEPT ![l] = gateways[Current]]
               ELSE reached

Visit(found) == visited' = visited \cup found

\* One LAN of the router at the head of the queue.
Explore(l) ==
    /\ source # None
    /\ queue # <<>>
    /\ l \in exploring
    /\ exploring' = exploring \ {l}
    /\ \/ /\ ~Exports(Current, l)
          /\ UNCHANGED <<queue, visited, gateways, reached>>
       \/ /\ Exports(Current, l)
          /\ Reach(l)
          /\ LET found == snapshot.routers[l] \ visited IN
             /\ Visit(found)
             /\ gateways' = [r \in Routers |-> IF r \in found THEN FirstHop(r, l)
                                                              ELSE gateways[r]]
             /\ \E order \in SetToSeqs(found) : queue' = queue \o order
    /\ UNCHANGED <<topology, routes, stage, snapshot, sources, source, updates, calls, changes>>

NextRouter ==
    /\ source # None
    /\ queue # <<>>
    /\ exploring = {}
    /\ queue' = Tail(queue)
    /\ exploring' = IF Len(queue) = 1 THEN {} ELSE snapshot.lans[queue[2]]
    /\ UNCHANGED <<topology, routes, stage, snapshot, sources, source, visited,
                   gateways, reached, updates, calls, changes>>

\* Mutant: what is no longer reachable keeps its route.
DeletesReached(r) ==
    {[router |-> r, lan |-> l, gateway |-> None] : l \in {m \in Lans : reached[m] # None}}

\* Every LAN that is not attached loses its route first.
Deletes(r) ==
    {[router |-> r, lan |-> l, gateway |-> None] : l \in Lans \ snapshot.lans[r]}

Adds(r) ==
    {[router |-> r, lan |-> l, gateway |-> reached[l]] : l \in {m \in Lans : reached[m] # None}}

\* The search is over; what it worked with is dropped.
Plan ==
    /\ source # None
    /\ queue = <<>>
    /\ updates' = updates \o <<Deletes(source), Adds(source)>>
    /\ source' = None
    /\ visited' = {}
    /\ gateways' = NoGateway(Routers)
    /\ reached' = NoGateway(Lans)
    /\ UNCHANGED <<topology, routes, stage, snapshot, sources, queue, exploring, calls, changes>>

BeginUpdates ==
    /\ stage = "search"
    /\ source = None
    /\ sources = {}
    /\ stage' = "apply"
    /\ UNCHANGED <<topology, routes, snapshot, sources, search, updates, calls, changes>>

\* apply_route: netlink replaces or deletes one route.
Apply(u) ==
    /\ stage = "apply"
    /\ updates # <<>>
    /\ u \in Head(updates)
    /\ routes' = [routes EXCEPT ![u.router][u.lan] = u.gateway]
    /\ updates' = [updates EXCEPT ![1] = @ \ {u}]
    /\ UNCHANGED <<topology, stage, snapshot, sources, search, calls, changes>>

NextUpdates ==
    /\ stage = "apply"
    /\ updates # <<>>
    /\ Head(updates) = {}
    /\ updates' = Tail(updates)
    /\ UNCHANGED <<topology, routes, stage, snapshot, sources, search, calls, changes>>

\* apply_route fails: the call returns the error and the rest is not applied.
Fail ==
    /\ stage = "apply"
    /\ updates # <<>>
    /\ Head(updates) # {}
    /\ stage' = "idle"
    /\ updates' = <<>>
    /\ UNCHANGED <<topology, routes, snapshot, sources, search, calls, changes>>

Return ==
    /\ stage = "apply"
    /\ updates = <<>>
    /\ stage' = "settled"
    /\ UNCHANGED <<topology, routes, snapshot, sources, search, updates, calls, changes>>

Next ==
    \/ TakeSnapshot \/ NextRouter \/ Plan \/ BeginUpdates \/ NextUpdates \/ Fail \/ Return
    \/ \E r \in Routers : Search(r)
    \/ \E l \in Lans : Explore(l)
    \/ \E u \in UNION {updates[i] : i \in DOMAIN updates} : Apply(u)
    \/ \E r \in Routers, l \in Lans :
        RememberLan(r, l) \/ RememberRouter(r, l) \/ RememberMasqueradeLan(r, l)

Spec == Init /\ [][Next]_vars
-----------------------------------------------------------------------------
(* What a call promises, independently of how it searches.                 *)

\* q leads a search from s to r: both are on a LAN that q exports.
Leads(t, s, q, r) ==
    \E l \in t.lans[q] : r \in t.routers[l] /\ (q = s \/ l \notin t.masquerade[q])

\* The routers of the topology t at most n hops from s.
RoutersWithin(t, s) ==
    LET levels[n \in Nat] ==
            IF n = 0 THEN {s}
            ELSE levels[n - 1] \cup
                 {r \in DOMAIN t.lans : \E q \in levels[n - 1] : Leads(t, s, q, r)}
    IN levels

\* The LAN l, not attached to s, is exported by a router at most n hops away.
InReach(t, s, l, n) ==
    /\ l \notin t.lans[s]
    /\ \E r \in RoutersWithin(t, s)[n] : r # s /\ l \in t.lans[r] \ t.masquerade[r]

\* Where the router `at` sends a packet for l that has not arrived.
Forward(at, l) ==
    IF at = None \/ l \in topology.lans[at] THEN at
    ELSE IF routes[at][l] = None THEN None ELSE routes[at][l][1]

\* Where a packet for l that starts at r is after n hops.
Packet(r, l) ==
    LET hops[n \in Nat] == IF n = 0 THEN r ELSE Forward(hops[n - 1], l)
    IN hops

\* The last call returned without an error and nothing changed since its
\* snapshot.
Settled == stage = "settled" /\ snapshot = topology

\* Whatever a call installs, complete or not, the gateway of a route is the
\* address of another router on a LAN that the router itself is attached to:
\* the kernel refuses any other (net.rs:219-225).
OnLink ==
    \A r \in Routers, l \in Lans :
        routes[r][l] # None =>
            LET hop == routes[r][l] IN
            hop[1] # r /\ hop[2] \in topology.lans[r] /\ hop[1] \in topology.routers[hop[2]]

\* Once settled, a router has a route exactly to the LANs it is not attached
\* to and that some router exports to it: no route leads into a LAN behind a
\* masquerading router, also when an earlier call had installed one
\* (net.rs:199-208, 231-239; tests/router.rs:136 and 176).
RoutesExactly ==
    Settled =>
        \A r \in Routers, l \in Lans :
            l \notin topology.lans[r] =>
                (routes[r][l] # None <=> InReach(topology, r, l, Cardinality(Routers)))

\* Once settled, the routes of different routers, each found by a search with
\* its own order, agree: a packet that follows them hop by hop never circles
\* and arrives within the distance of the closest router that exports the LAN
\* (net.rs:195-229; tests/router.rs:64).
ShortestPaths ==
    Settled =>
        \A r \in Routers, l \in Lans :
            \A n \in 1 .. Cardinality(Routers) :
                InReach(topology, r, l, n) =>
                    LET at == Packet(r, l)[n] IN at # None /\ l \in topology.lans[at]
=============================================================================
