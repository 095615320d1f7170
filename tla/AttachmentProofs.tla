-------------------------- MODULE AttachmentProofs --------------------------
(***************************************************************************)
(* Proofs about attaching nodes to LANs, for any hosts, routers and LANs,  *)
(* any pool of addresses and any number of overlapping calls: the leases   *)
(* of addresses, the agreement of the records and masquerading; then, each *)
(* from an invariant of its own on top of the first, that the addresses    *)
(* work and that the gateway reaches the hosts.                            *)
(*                                                                         *)
(* The first invariant ties the stage of each call to what the records say *)
(* by then: a call that may still be given an address has none yet, and    *)
(* what an attach has recorded is there when the rest of its operation     *)
(* runs.                                                                   *)
(***************************************************************************)
EXTENDS Attachment, TLAPS

Stages == Sections \cup Awaits \cup {"ok", "error"}

CallEntry == [stage : Stages, lan : Lans, address : Addresses \cup {None},
              gateway : Addresses \cup {None}, hosts : SUBSET Hosts, left : SUBSET Hosts,
              rules : SUBSET Lans, private : (Lans \X Addresses) \cup {None}]

AttachTypeOK ==
    /\ job \in Workloads
    /\ lans \in [Lans -> LanEntry]
    /\ routers \in [Routers -> RouterEntry]
    /\ calls \in [Calls -> CallEntry]
    /\ nft \in [Routers -> SUBSET Lans]
    /\ holder \in [Slots -> (Calls \X Lans) \cup {None}]

\* Stages that only a router's call gets to.
RouterStages == {"remember_router", "record", "rules", "nft", "remember_masquerade",
                 "public", "attach", "start_nat", "remember_nat"}

KnownRouter(c) == lans[LanOf(c)].routers[Node(c)] # None

\* What a call has achieved when it is in a stage.
Achieved(c) ==
    /\ calls[c].stage \in {"assign", "remember", "remember_router", "public", "start_nat",
                           "remember_nat"} => calls[c].address # None
    /\ calls[c].stage \in RouterStages => Op(c) # "join_host"
    /\ calls[c].stage \in {"rules", "nft", "remember_masquerade"} =>
         Op(c) = "enable_masquerade"
    /\ calls[c].stage \in {"public", "rules", "nft", "remember_masquerade"} => KnownRouter(c)
    /\ At(c, "remember_router") => LanOf(c) \in routers[Node(c)].lans
    /\ calls[c].stage \in {"start_nat", "remember_nat"} => calls[c].private # None
    /\ At(c, "public") => calls[c].private = None

\* Addresses are given in order, and a call that may yet be given one for the
\* LAN it is attaching has none there.
Given ==
    /\ \A l \in Lans, a \in Addresses : holder[<<l, a>>] # None => a <= lans[l].next_host
    /\ \A s \in Slots, c \in Calls, l \in Lans : holder[s] = <<c, l>> =>
         /\ l = LanOf(c) \/ calls[c].private # None
         /\ l = LanOf(c) => /\ calls[c].stage \notin {"new", "port", "allocate"}
                            /\ At(c, "attach") => KnownRouter(c)

Masquerades(c) == Op(c) = "enable_masquerade"

\* One call at a time masquerades for a router: what it computed stays true.
OneAtATime ==
    SerialMasquerade =>
      /\ \A c, d \in Calls :
           c # d /\ Masquerades(c) /\ Masquerades(d) /\ Running(c) /\ Running(d) =>
             Node(c) # Node(d)
      /\ \A c \in Calls :
           /\ At(c, "nft") => routers[Node(c)].masquerade_lans \cup {LanOf(c)} \subseteq calls[c].rules
           /\ At(c, "remember_masquerade") =>
                routers[Node(c)].masquerade_lans \cup {LanOf(c)} \subseteq nft[Node(c)]

AttachInv ==
    /\ AttachTypeOK
    /\ \A c \in Calls : Achieved(c)
    /\ Given
    /\ RecordsAgree
    /\ OneAtATime
    /\ MasqueradeKept
-----------------------------------------------------------------------------
LEMMA InitAttach == Init => AttachInv
<1> SUFFICES ASSUME Init PROVE AttachInv
  OBVIOUS
<1>1. \A c \in Calls : job[c] \in [op : Ops, node : Nodes, lan : Lans, public : Lans]
  BY JobAssumption DEF Init
<1>2. /\ \A c \in Calls : calls[c].stage = "new" /\ calls[c].lan = job[c].lan
      /\ calls \in [Calls -> CallEntry]
  <2>1. "new" \in Stages
    BY DEF Stages, Sections
  <2> QED BY <1>1, <2>1 DEF Init, CallEntry
<1>3. lans \in [Lans -> LanEntry] /\ routers \in [Routers -> RouterEntry]
  BY PoolAssumption DEF Init, LanEntry, RouterEntry
<1>4. AttachTypeOK
  BY <1>2, <1>3 DEF Init, AttachTypeOK
<1>5. /\ \A l \in Lans, r \in Routers : lans[l].routers[r] = None
      /\ \A r \in Routers : routers[r].masquerade_lans = {}
      /\ \A s \in Slots : holder[s] = None
  BY DEF Init
<1>6. \A c \in Calls : Achieved(c)
  BY <1>2 DEF Achieved, At, RouterStages
<1>7. Given
  <2>1. \A l \in Lans, a \in Addresses : <<l, a>> \in Slots
    BY DEF Slots
  <2>2. \A c \in Calls, l \in Lans : None # <<c, l>>
    BY NoneAssumption
  <2> QED BY <1>5, <2>1, <2>2 DEF Given
<1>8. RecordsAgree /\ MasqueradeKept
  BY <1>3, <1>5 DEF RecordsAgree, MasqueradeKept
<1>9. OneAtATime
  BY <1>2 DEF OneAtATime, Running, At
<1> QED BY <1>4, <1>6, <1>7, <1>8, <1>9 DEF AttachInv

\* Calls of routers are not joins.
LEMMA RouterCalls ==
    ASSUME AttachTypeOK, NEW c \in Calls
    PROVE  /\ job[c].op \in Ops /\ job[c].lan \in Lans /\ job[c].public \in Lans
           /\ calls[c] \in CallEntry /\ LanOf(c) \in Lans
           /\ Op(c) # "join_host" => Node(c) \in Routers
BY JobAssumption, NodesAssumption DEF AttachTypeOK, CallEntry, LanOf, Op, Node, Nodes

\* A step of a call under way that keeps what was recorded, gives no address
\* and has nothing to do with the rules of a router beyond computing them.
LEMMA QuietPreserves ==
    ASSUME AttachInv, NEW c \in Calls, Running(c),
           AttachTypeOK', Achieved(c)',
           \A d \in Calls \ {c} : calls'[d] = calls[d],
           calls'[c].lan = calls[c].lan, calls'[c].private = calls[c].private,
           calls'[c].stage \notin {"new", "attach", "remember_masquerade"},
           calls'[c].stage \in {"port", "allocate"} => calls[c].stage = "port",
           calls'[c].stage = "nft" => calls'[c].rules = RulesWith(c),
           UNCHANGED <<job, nft, holder>>,
           \A l \in Lans : lans'[l].next_host = lans[l].next_host,
           \A l \in Lans, r \in Routers :
             /\ lans[l].routers[r] # None => lans'[l].routers[r] # None
             /\ lans'[l].routers[r] # None => lans[l].routers[r] # None \/ l \in routers[r].lans,
           \A r \in Routers : /\ routers[r].lans \subseteq routers'[r].lans
                              /\ routers'[r].masquerade_lans = routers[r].masquerade_lans
    PROVE  AttachInv'
<1>1. \A d \in Calls : /\ Op(d)' = Op(d) /\ Node(d)' = Node(d) /\ LanOf(d)' = LanOf(d)
                       /\ LanOf(d) \in Lans /\ (Op(d) # "join_host" => Node(d) \in Routers)
                       /\ calls'[d].private = calls[d].private
  <2>1. \A d \in Calls : LanOf(d) \in Lans /\ (Op(d) # "join_host" => Node(d) \in Routers)
    BY RouterCalls DEF AttachInv
  <2> QED BY <2>1 DEF Op, Node, LanOf
<1>2. \A d \in Calls : Achieved(d)'
  <2> SUFFICES ASSUME NEW d \in Calls \ {c} PROVE Achieved(d)'
    OBVIOUS
  <2>1. Achieved(d) /\ calls'[d] = calls[d]
    BY DEF AttachInv
  <2>2. Op(d) # "join_host" => (KnownRouter(d) => KnownRouter(d)')
    BY <1>1 DEF KnownRouter
  <2>3. Op(d) # "join_host" =>
          (LanOf(d) \in routers[Node(d)].lans => LanOf(d)' \in routers'[Node(d)'].lans)
    BY <1>1
  <2> QED BY <1>1, <2>1, <2>2, <2>3 DEF Achieved, At, RouterStages
<1>3. Given'
  <2>1. \A l \in Lans, a \in Addresses : holder'[<<l, a>>] # None => a <= lans'[l].next_host
    BY DEF AttachInv, Given
  <2>2. ASSUME NEW s \in Slots, NEW d \in Calls, NEW l \in Lans, holder'[s] = <<d, l>>
        PROVE  /\ l = LanOf(d)' \/ calls'[d].private # None
               /\ l = LanOf(d)' => /\ calls'[d].stage \notin {"new", "port", "allocate"}
                                   /\ At(d, "attach")' => KnownRouter(d)'
    <3>1. /\ l = LanOf(d) \/ calls[d].private # None
          /\ l = LanOf(d) => /\ calls[d].stage \notin {"new", "port", "allocate"}
                             /\ At(d, "attach") => KnownRouter(d)
      BY <2>2 DEF AttachInv, Given
    <3>2. CASE d = c
      BY <3>1, <3>2, <1>1 DEF At
    <3>3. CASE d # c
      <4>1. At(d, "attach") => Op(d) # "join_host"
        BY DEF AttachInv, Achieved, RouterStages, At
      <4>2. At(d, "attach") /\ KnownRouter(d) => KnownRouter(d)'
        BY <4>1, <1>1 DEF KnownRouter
      <4> QED BY <3>1, <3>3, <4>2, <1>1 DEF At
    <3> QED BY <3>2, <3>3
  <2> QED BY <2>1, <2>2 DEF Given
<1>4. RecordsAgree'
  BY DEF AttachInv, AttachTypeOK, RecordsAgree
<1>5. OneAtATime'
  <2> SUFFICES ASSUME SerialMasquerade
               PROVE  OneAtATime'
    BY DEF OneAtATime
  <2>1. \A d \in Calls : Running(d)' => Running(d)
    BY DEF Running
  <2>2. \A d \in Calls : At(d, "nft")' =>
          routers'[Node(d)'].masquerade_lans \cup {LanOf(d)'} \subseteq calls'[d].rules
    <3> SUFFICES ASSUME NEW d \in Calls, At(d, "nft")'
                 PROVE  routers'[Node(d)'].masquerade_lans \cup {LanOf(d)'} \subseteq calls'[d].rules
      OBVIOUS
    <3>1. Op(d)' # "join_host"
      BY <1>2 DEF Achieved, RouterStages, At
    <3>2. routers'[Node(d)'].masquerade_lans = routers[Node(d)].masquerade_lans
      BY <1>1, <3>1
    <3>3. CASE d = c
      BY <1>1, <3>2, <3>3 DEF RulesWith, At
    <3>4. CASE d # c
      <4>1. At(d, "nft") /\ calls'[d] = calls[d]
        BY <3>4 DEF At
      <4> QED BY <1>1, <3>2, <4>1 DEF AttachInv, OneAtATime
    <3> QED BY <3>3, <3>4
  <2>3. \A d \in Calls : At(d, "remember_masquerade")' =>
          routers'[Node(d)'].masquerade_lans \cup {LanOf(d)'} \subseteq nft'[Node(d)']
    <3> SUFFICES ASSUME NEW d \in Calls, At(d, "remember_masquerade")'
                 PROVE  routers'[Node(d)'].masquerade_lans \cup {LanOf(d)'} \subseteq nft'[Node(d)']
      OBVIOUS
    <3>1. d # c /\ At(d, "remember_masquerade")
      BY DEF At
    <3>2. Op(d)' # "join_host"
      BY <1>2 DEF Achieved, RouterStages, At
    <3>3. routers'[Node(d)'].masquerade_lans = routers[Node(d)].masquerade_lans
      BY <1>1, <3>2
    <3> QED BY <1>1, <3>1, <3>3 DEF AttachInv, OneAtATime
  <2>4. \A d, e \in Calls :
          d # e /\ Masquerades(d)' /\ Masquerades(e)' /\ Running(d)' /\ Running(e)' =>
            Node(d)' # Node(e)'
    BY <1>1, <2>1 DEF AttachInv, OneAtATime, Masquerades
  <2> QED BY <2>2, <2>3, <2>4 DEF OneAtATime
<1>6. MasqueradeKept'
  BY DEF AttachInv, MasqueradeKept
<1> QED BY <1>2, <1>3, <1>4, <1>5, <1>6 DEF AttachInv
LEMMA AfterAttachStages ==
    ASSUME AttachTypeOK, NEW c \in Calls, Op(c) # "join_host"
    PROVE  /\ AfterAttach(c) \in {"ok", "record", "public", "start_nat", "rules"}
           /\ AfterAttach(c) = "public" => calls[c].private = None
           /\ AfterAttach(c) = "start_nat" => calls[c].private # None
           /\ AfterAttach(c) = "rules" => Op(c) = "enable_masquerade"
<1>1. Op(c) \in Ops
  BY RouterCalls DEF Op
<1>2. CASE Op(c) = "attach"
  BY <1>2 DEF AfterAttach
<1>3. CASE Op(c) = "set_gateway"
  BY <1>3 DEF AfterAttach
<1>4. CASE Op(c) = "enable_udp_nat"
  BY <1>4 DEF AfterAttach
<1>5. CASE Op(c) = "enable_masquerade"
  BY <1>5 DEF AfterAttach
<1> QED BY <1>1, <1>2, <1>3, <1>4, <1>5 DEF Ops

\* A step that tells the kernel something, or fails at it.
LEMMA AwaitPreserves ==
    ASSUME AttachInv, UNCHANGED job, NEW c \in Calls,
           \/ AttachNode(c) \/ AddAddress(c) \/ DefaultRoute(c) \/ StartNat(c)
           \/ AllRouted(c) \/ Fail(c)
    PROVE  AttachInv'
<1>1. PICK at \in {"allocate", "remember", "ok", "remember_nat", "error"} :
        /\ calls' = [calls EXCEPT ![c].stage = at]
        /\ UNCHANGED <<lans, routers, nft, holder>>
        /\ at = "allocate" => At(c, "port")
        /\ at = "remember" => At(c, "assign")
        /\ at = "remember_nat" => At(c, "start_nat")
        /\ calls[c].stage \in Awaits
  BY DEF AttachNode, AddAddress, DefaultRoute, StartNat, AllRouted, Fail, Goto, kernel, Awaits, At
<1>2. calls \in [Calls -> CallEntry] /\ at \in Stages
  BY DEF AttachInv, AttachTypeOK, Stages, Sections, Awaits
<1>3. calls' \in [Calls -> CallEntry]
  BY <1>1, <1>2 DEF CallEntry
<1>4. /\ calls'[c].stage = at /\ calls'[c].lan = calls[c].lan
      /\ calls'[c].private = calls[c].private /\ calls'[c].address = calls[c].address
      /\ \A d \in Calls \ {c} : calls'[d] = calls[d]
  BY <1>1, <1>2 DEF CallEntry
<1>5. AttachTypeOK'
  BY <1>1, <1>3 DEF AttachInv, AttachTypeOK
<1>6. Achieved(c)'
  BY <1>1, <1>4 DEF AttachInv, Achieved, At, RouterStages, Op
<1>7. Running(c)
  BY <1>1 DEF Running, Awaits
<1> QED
  BY <1>1, <1>4, <1>5, <1>6, <1>7, QuietPreserves DEF At

LEMMA RememberHostPreserves ==
    ASSUME AttachInv, UNCHANGED job, NEW c \in Calls, RememberHost(c)
    PROVE  AttachInv'
<1> DEFINE l == LanOf(c)
           at == IF lans[l].gateway = None THEN "ok" ELSE "default_route"
<1>1. /\ At(c, "remember") /\ Op(c) = "join_host"
      /\ lans' = [lans EXCEPT ![l].hosts[Node(c)] = calls[c].address]
      /\ calls' = [calls EXCEPT ![c].gateway = lans[l].gateway, ![c].stage = at]
      /\ UNCHANGED <<routers, nft, holder>>
  BY DEF RememberHost, kernel
<1>2. calls[c] \in CallEntry /\ l \in Lans /\ lans[l] \in LanEntry /\ at \in Stages
  BY RouterCalls DEF AttachInv, AttachTypeOK, Stages, Sections, Awaits
<1>3. /\ calls' \in [Calls -> CallEntry]
      /\ calls'[c].stage = at /\ calls'[c].lan = calls[c].lan
      /\ calls'[c].private = calls[c].private
      /\ \A d \in Calls \ {c} : calls'[d] = calls[d]
  BY <1>1, <1>2 DEF AttachInv, AttachTypeOK, CallEntry, LanEntry
<1>4. /\ lans' \in [Lans -> LanEntry]
      /\ \A m \in Lans : /\ lans'[m].next_host = lans[m].next_host
                         /\ lans'[m].routers = lans[m].routers
  BY <1>1, <1>2 DEF AttachInv, AttachTypeOK, CallEntry, LanEntry
<1>5. AttachTypeOK'
  BY <1>1, <1>3, <1>4 DEF AttachInv, AttachTypeOK
<1>6. Achieved(c)'
  BY <1>3 DEF Achieved, At, RouterStages
<1>7. Running(c)
  BY <1>1 DEF Running, At
<1> QED BY <1>1, <1>3, <1>4, <1>5, <1>6, <1>7, QuietPreserves

LEMMA RememberLanPreserves ==
    ASSUME AttachInv, UNCHANGED job, NEW c \in Calls, RememberLan(c)
    PROVE  AttachInv'
<1>1. /\ At(c, "remember") /\ Op(c) # "join_host"
      /\ routers' = [routers EXCEPT ![Node(c)].lans = @ \cup {LanOf(c)}]
      /\ calls' = [calls EXCEPT ![c].stage = "remember_router"]
      /\ UNCHANGED <<lans, nft, holder>>
  BY DEF RememberLan, Goto, kernel
<1>2. /\ calls[c] \in CallEntry /\ LanOf(c) \in Lans /\ Node(c) \in Routers
      /\ "remember_router" \in Stages
  BY <1>1, RouterCalls DEF AttachInv, Stages, Sections
<1>3. /\ calls' \in [Calls -> CallEntry]
      /\ calls'[c].stage = "remember_router" /\ calls'[c].lan = calls[c].lan
      /\ calls'[c].private = calls[c].private /\ calls'[c].address = calls[c].address
      /\ \A d \in Calls \ {c} : calls'[d] = calls[d]
  BY <1>1, <1>2 DEF AttachInv, AttachTypeOK, CallEntry
<1>4. /\ routers' \in [Routers -> RouterEntry]
      /\ \A r \in Routers : /\ routers[r].lans \subseteq routers'[r].lans
                            /\ routers'[r].masquerade_lans = routers[r].masquerade_lans
      /\ LanOf(c) \in routers'[Node(c)].lans
  BY <1>1, <1>2 DEF AttachInv, AttachTypeOK, RouterEntry
<1>5. AttachTypeOK'
  BY <1>1, <1>3, <1>4 DEF AttachInv, AttachTypeOK
<1>6. Achieved(c)'
  BY <1>1, <1>3, <1>4 DEF AttachInv, Achieved, At, Op, Node, LanOf
<1>7. Running(c)
  BY <1>1 DEF Running, At
<1> QED BY <1>1, <1>3, <1>4, <1>5, <1>6, <1>7, QuietPreserves

LEMMA RememberRouterPreserves ==
    ASSUME AttachInv, UNCHANGED job, NEW c \in Calls, RememberRouter(c)
    PROVE  AttachInv'
<1> DEFINE l == LanOf(c)
           a == calls[c].address
<1>1. /\ At(c, "remember_router")
      /\ lans' = [lans EXCEPT ![l].routers[Node(c)] = a]
      /\ calls' = [calls EXCEPT ![c].stage = AfterAttach(c)]
      /\ UNCHANGED <<routers, nft, holder>>
  BY DEF RememberRouter, Goto, kernel
<1>2. Op(c) # "join_host" /\ a # None /\ l \in routers[Node(c)].lans
  BY <1>1 DEF AttachInv, Achieved, At, RouterStages
<1>3. /\ calls[c] \in CallEntry /\ l \in Lans /\ Node(c) \in Routers /\ lans[l] \in LanEntry
      /\ a \in Addresses
  BY <1>2, RouterCalls DEF AttachInv, AttachTypeOK, CallEntry
<1>4. /\ AfterAttach(c) \in {"ok", "record", "public", "start_nat", "rules"}
      /\ AfterAttach(c) = "public" => calls[c].private = None
      /\ AfterAttach(c) = "start_nat" => calls[c].private # None
      /\ AfterAttach(c) = "rules" => Op(c) = "enable_masquerade"
      /\ AfterAttach(c) \in Stages
  BY <1>2, AfterAttachStages DEF AttachInv, Stages, Sections, Awaits
<1>5. /\ calls' \in [Calls -> CallEntry]
      /\ calls'[c].stage = AfterAttach(c) /\ calls'[c].lan = calls[c].lan
      /\ calls'[c].private = calls[c].private /\ calls'[c].address = a
      /\ \A d \in Calls \ {c} : calls'[d] = calls[d]
  BY <1>1, <1>3, <1>4 DEF AttachInv, AttachTypeOK, CallEntry
<1>6. /\ lans' \in [Lans -> LanEntry]
      /\ \A m \in Lans : /\ lans'[m].next_host = lans[m].next_host
                         /\ \A r \in Routers :
                              lans'[m].routers[r] = IF m = l /\ r = Node(c)
                                                    THEN a ELSE lans[m].routers[r]
  BY <1>1, <1>3 DEF AttachInv, AttachTypeOK, LanEntry
<1>7. AttachTypeOK'
  BY <1>1, <1>5, <1>6 DEF AttachInv, AttachTypeOK
<1>8. Achieved(c)'
  <2>1. KnownRouter(c)'
    BY <1>2, <1>3, <1>5, <1>6 DEF KnownRouter, LanOf, Node
  <2>2. Op(c)' = Op(c)
    BY DEF Op
  <2> QED BY <1>2, <1>4, <1>5, <2>1, <2>2 DEF Achieved, At
<1>9. Running(c)
  BY <1>1 DEF Running, At
<1>10. \A m \in Lans, r \in Routers :
         /\ lans[m].routers[r] # None => lans'[m].routers[r] # None
         /\ lans'[m].routers[r] # None => lans[m].routers[r] # None \/ m \in routers[r].lans
  BY <1>2, <1>6
<1> QED BY <1>1, <1>4, <1>5, <1>6, <1>7, <1>8, <1>9, <1>10, QuietPreserves

LEMMA RecordGatewayPreserves ==
    ASSUME AttachInv, UNCHANGED job, NEW c \in Calls, RecordGateway(c)
    PROVE  AttachInv'
<1> DEFINE l == LanOf(c)
           a == lans[l].routers[Node(c)]
<1>1. /\ At(c, "record") /\ Op(c) # "join_host"
      /\ UNCHANGED <<routers, nft, holder>>
  BY DEF RecordGateway, kernel, AttachInv, Achieved, At, RouterStages
<1>2. /\ calls[c] \in CallEntry /\ l \in Lans /\ Node(c) \in Routers /\ lans[l] \in LanEntry
      /\ a \in Addresses \cup {None} /\ KnownHosts(l) \subseteq Hosts
      /\ {"error", "host_routes"} \subseteq Stages
  BY <1>1, RouterCalls DEF AttachInv, AttachTypeOK, LanEntry, KnownHosts, Stages, Awaits
<1>3. /\ lans' \in [Lans -> LanEntry]
      /\ \A m \in Lans : /\ lans'[m].next_host = lans[m].next_host
                         /\ lans'[m].routers = lans[m].routers
  <2>1. lans' = lans \/ lans' = [lans EXCEPT ![l].gateway = a]
    BY DEF RecordGateway
  <2>2. CASE lans' = lans
    BY <2>2 DEF AttachInv, AttachTypeOK
  <2>3. CASE lans' = [lans EXCEPT ![l].gateway = a]
    <3> DEFINE e == [lans[l] EXCEPT !.gateway = a]
    <3>1. e \in LanEntry /\ e.next_host = lans[l].next_host /\ e.routers = lans[l].routers
      BY <1>2 DEF LanEntry
    <3>2. lans' = [lans EXCEPT ![l] = e]
      BY <2>3
    <3> HIDE DEF e
    <3> QED BY <3>1, <3>2 DEF AttachInv, AttachTypeOK
  <2> QED BY <2>1, <2>2, <2>3
<1>4. /\ calls' \in [Calls -> CallEntry]
      /\ calls'[c].stage \in {"error", "host_routes"} /\ calls'[c].lan = calls[c].lan
      /\ calls'[c].private = calls[c].private
      /\ \A d \in Calls \ {c} : calls'[d] = calls[d]
  <2>1. CASE calls' = [calls EXCEPT ![c].stage = "error"]
    BY <2>1, <1>2 DEF AttachInv, AttachTypeOK, CallEntry
  <2>2. CASE calls' = [calls EXCEPT ![c].gateway = a, ![c].stage = "host_routes",
                                    ![c].hosts = KnownHosts(l), ![c].left = KnownHosts(l)]
    <3> DEFINE e == [calls[c] EXCEPT !.gateway = a, !.stage = "host_routes",
                                     !.hosts = KnownHosts(l), !.left = KnownHosts(l)]
    <3>1. e \in CallEntry /\ e.stage = "host_routes" /\ e.lan = calls[c].lan
          /\ e.private = calls[c].private
      BY <1>2 DEF CallEntry
    <3>2. calls' = [calls EXCEPT ![c] = e]
      BY <2>2
    <3> HIDE DEF e
    <3> QED BY <3>1, <3>2 DEF AttachInv, AttachTypeOK
  <2> QED BY <2>1, <2>2 DEF RecordGateway, Goto
<1>5. AttachTypeOK'
  BY <1>1, <1>3, <1>4 DEF AttachInv, AttachTypeOK
<1>6. Achieved(c)'
  BY <1>4 DEF Achieved, At, RouterStages
<1>7. Running(c)
  BY <1>1 DEF Running, At
<1> QED BY <1>1, <1>3, <1>4, <1>5, <1>6, <1>7, QuietPreserves
\* Steps that change nothing but the call: a host's route, the rules.
LEMMA CallOnlyPreserves ==
    ASSUME AttachInv, UNCHANGED job, NEW c \in Calls,
           MasqueradeRules(c) \/ \E h \in Hosts : HostRoute(c, h)
    PROVE  AttachInv'
<1>1. CASE MasqueradeRules(c)
  <2>1. /\ At(c, "rules")
        /\ calls' = [calls EXCEPT ![c].rules = RulesWith(c), ![c].stage = "nft"]
        /\ UNCHANGED <<lans, routers, nft, holder>>
    BY <1>1 DEF MasqueradeRules, kernel
  <2>2. Op(c) = "enable_masquerade" /\ KnownRouter(c)
    BY <2>1 DEF AttachInv, Achieved, At
  <2>3. calls[c] \in CallEntry /\ Node(c) \in Routers /\ LanOf(c) \in Lans
    BY <2>2, RouterCalls DEF AttachInv
  <2>4. RulesWith(c) \in SUBSET Lans /\ "nft" \in Stages
    BY <2>3 DEF AttachInv, AttachTypeOK, RouterEntry, RulesWith, Stages, Awaits
  <2>5. /\ calls' \in [Calls -> CallEntry]
        /\ calls'[c].stage = "nft" /\ calls'[c].rules = RulesWith(c)
        /\ calls'[c].lan = calls[c].lan /\ calls'[c].private = calls[c].private
        /\ \A d \in Calls \ {c} : calls'[d] = calls[d]
    BY <2>1, <2>3, <2>4 DEF AttachInv, AttachTypeOK, CallEntry
  <2>6. AttachTypeOK'
    BY <2>1, <2>5 DEF AttachInv, AttachTypeOK
  <2>7. Achieved(c)'
    BY <2>1, <2>2, <2>5 DEF Achieved, At, KnownRouter, LanOf, Node, Op
  <2>8. Running(c)
    BY <2>1 DEF Running, At
  <2> QED BY <2>1, <2>5, <2>6, <2>7, <2>8, QuietPreserves
<1>2. CASE \E h \in Hosts : HostRoute(c, h)
  <2>1. PICK h \in Hosts :
          /\ At(c, "host_routes")
          /\ calls' = [calls EXCEPT ![c].left = @ \ {h}]
          /\ UNCHANGED <<lans, routers, nft, holder>>
    BY <1>2 DEF HostRoute
  <2>2. calls[c] \in CallEntry
    BY RouterCalls DEF AttachInv
  <2>3. /\ calls' \in [Calls -> CallEntry]
        /\ calls'[c].stage = "host_routes"
        /\ calls'[c].lan = calls[c].lan /\ calls'[c].private = calls[c].private
        /\ \A d \in Calls \ {c} : calls'[d] = calls[d]
    BY <2>1, <2>2 DEF AttachInv, AttachTypeOK, CallEntry, At
  <2>4. AttachTypeOK'
    BY <2>1, <2>3 DEF AttachInv, AttachTypeOK
  <2>5. Achieved(c)'
    BY <2>3 DEF Achieved, At, RouterStages
  <2>6. Running(c)
    BY <2>1 DEF Running, At
  <2> QED BY <2>1, <2>3, <2>4, <2>5, <2>6, QuietPreserves
<1> QED BY <1>1, <1>2

LEMMA RememberUdpNatPreserves ==
    ASSUME AttachInv, UNCHANGED job, NEW c \in Calls, RememberUdpNat(c)
    PROVE  AttachInv'
<1> DEFINE nat == <<calls[c].private, <<LanOf(c), calls[c].address>>>>
<1>1. /\ At(c, "remember_nat")
      /\ routers' = [routers EXCEPT ![Node(c)].udp_nats = @ \cup {nat}]
      /\ calls' = [calls EXCEPT ![c].stage = "ok"]
      /\ UNCHANGED <<lans, nft, holder>>
  BY DEF RememberUdpNat, Goto, kernel
<1>2. Op(c) # "join_host" /\ calls[c].address # None /\ calls[c].private # None
  BY <1>1 DEF AttachInv, Achieved, At, RouterStages
<1>3. calls[c] \in CallEntry /\ LanOf(c) \in Lans /\ Node(c) \in Routers
  BY <1>2, RouterCalls DEF AttachInv
<1>4. nat \in UdpNats
  BY <1>2, <1>3 DEF CallEntry, UdpNats
<1>5. /\ calls' \in [Calls -> CallEntry]
      /\ calls'[c].stage = "ok" /\ calls'[c].lan = calls[c].lan
      /\ calls'[c].private = calls[c].private
      /\ \A d \in Calls \ {c} : calls'[d] = calls[d]
  BY <1>1, <1>3 DEF AttachInv, AttachTypeOK, CallEntry, Stages
<1>6. /\ routers' \in [Routers -> RouterEntry]
      /\ \A r \in Routers : /\ routers'[r].lans = routers[r].lans
                            /\ routers'[r].masquerade_lans = routers[r].masquerade_lans
  <2> HIDE DEF nat
  <2> QED BY <1>1, <1>3, <1>4 DEF AttachInv, AttachTypeOK, RouterEntry
<1>7. AttachTypeOK'
  BY <1>1, <1>5, <1>6 DEF AttachInv, AttachTypeOK
<1>8. Achieved(c)'
  BY <1>5 DEF Achieved, At, RouterStages
<1>9. Running(c)
  BY <1>1 DEF Running, At
<1> QED BY <1>1, <1>5, <1>6, <1>7, <1>8, <1>9, QuietPreserves
\* What the other calls have achieved stays when the records do.
LEMMA OthersKeep ==
    ASSUME AttachInv, NEW c \in Calls,
           \A d \in Calls \ {c} : calls'[d] = calls[d],
           UNCHANGED <<job, lans>>,
           \A r \in Routers : routers'[r].lans = routers[r].lans
    PROVE  \A d \in Calls \ {c} : Achieved(d)'
<1> SUFFICES ASSUME NEW d \in Calls \ {c} PROVE Achieved(d)'
  OBVIOUS
<1>1. Achieved(d) /\ calls'[d] = calls[d] /\ (Op(d) # "join_host" => Node(d) \in Routers)
  BY RouterCalls DEF AttachInv
<1> QED
  BY <1>1 DEF Achieved, At, RouterStages, KnownRouter, LanOf, Node, Op

LEMMA StartPreserves ==
    ASSUME AttachInv, UNCHANGED job, NEW c \in Calls, Start(c)
    PROVE  AttachInv'
<1> DEFINE at == IF Known(c) = None THEN "port"
                 ELSE IF Op(c) = "join_host" THEN "ok" ELSE AfterAttach(c)
<1>1. /\ (At(c, "new") /\ MayStart(c)) \/ At(c, "attach")
      /\ calls' = [calls EXCEPT ![c].address = Known(c), ![c].stage = at]
      /\ UNCHANGED <<lans, routers, nft, holder>>
  BY DEF Start, kernel
<1>2. calls[c] \in CallEntry /\ LanOf(c) \in Lans /\ lans[LanOf(c)] \in LanEntry
  BY RouterCalls DEF AttachInv, AttachTypeOK
<1>3. Known(c) \in Addresses \cup {None}
  <2>1. Op(c) = "join_host" => Node(c) \in Hosts
    BY JobAssumption DEF AttachInv, AttachTypeOK, Op, Node
  <2>2. Op(c) # "join_host" => Node(c) \in Routers
    BY RouterCalls DEF AttachInv
  <2> QED BY <1>2, <2>1, <2>2 DEF Known, LanEntry
<1>4. /\ at \in {"port", "ok", "record", "public", "start_nat", "rules"}
      /\ at # "port" => Known(c) # None
      /\ at \notin {"port", "ok"} => Op(c) # "join_host" /\ KnownRouter(c)
      /\ at = "public" => calls[c].private = None
      /\ at = "start_nat" => calls[c].private # None
      /\ at = "rules" => Op(c) = "enable_masquerade"
  BY AfterAttachStages DEF AttachInv, Known, KnownRouter
<1>5. at \in Stages
  BY <1>4 DEF Stages, Sections, Awaits
<1>6. At(c, "attach") => Op(c) # "join_host"
  BY DEF AttachInv, Achieved, At, RouterStages
<1>7. At(c, "attach") /\ KnownRouter(c) => at # "port"
  BY <1>4, <1>6 DEF Known, KnownRouter, AfterAttach
<1> HIDE DEF at
<1>8. /\ calls' \in [Calls -> CallEntry]
      /\ calls'[c].stage = at /\ calls'[c].address = Known(c)
      /\ calls'[c].lan = calls[c].lan /\ calls'[c].private = calls[c].private
      /\ \A d \in Calls \ {c} : calls'[d] = calls[d]
  BY <1>1, <1>2, <1>3, <1>5 DEF AttachInv, AttachTypeOK, CallEntry
<1>9. AttachTypeOK'
  BY <1>1, <1>8 DEF AttachInv, AttachTypeOK
<1>10. \A d \in Calls : Achieved(d)'
  <2>1. Achieved(c)'
    BY <1>1, <1>4, <1>8 DEF Achieved, At, RouterStages, KnownRouter, LanOf, Node, Op
  <2> QED BY <1>1, <1>8, <2>1, OthersKeep
<1>11. Given'
  <2>1. \A l \in Lans, a \in Addresses : holder'[<<l, a>>] # None => a <= lans'[l].next_host
    BY <1>1 DEF AttachInv, Given
  <2>2. ASSUME NEW s \in Slots, NEW d \in Calls, NEW l \in Lans, holder'[s] = <<d, l>>
        PROVE  /\ l = LanOf(d)' \/ calls'[d].private # None
               /\ l = LanOf(d)' => /\ calls'[d].stage \notin {"new", "port", "allocate"}
                                   /\ At(d, "attach")' => KnownRouter(d)'
    <3>1. /\ l = LanOf(d) \/ calls[d].private # None
          /\ l = LanOf(d) => /\ calls[d].stage \notin {"new", "port", "allocate"}
                             /\ At(d, "attach") => KnownRouter(d)
      BY <1>1, <2>2 DEF AttachInv, Given
    <3>2. CASE d = c
      BY <3>1, <3>2, <1>1, <1>4, <1>7, <1>8 DEF At, LanOf
    <3>3. CASE d # c
      BY <3>1, <3>3, <1>1, <1>8 DEF At, LanOf, KnownRouter, Node
    <3> QED BY <3>2, <3>3
  <2> QED BY <2>1, <2>2 DEF Given
<1>12. RecordsAgree' /\ MasqueradeKept'
  BY <1>1 DEF AttachInv, RecordsAgree, MasqueradeKept
<1>13. OneAtATime'
  <2> SUFFICES ASSUME SerialMasquerade
               PROVE  OneAtATime'
    BY DEF OneAtATime
  <2>1. ASSUME NEW d \in Calls, NEW e \in Calls, d # e, Masquerades(d)', Masquerades(e)',
               Running(d)', Running(e)'
        PROVE  Node(d)' # Node(e)'
    <3>1. Masquerades(d) /\ Masquerades(e) /\ Node(d)' = Node(d) /\ Node(e)' = Node(e)
      BY <2>1 DEF Masquerades, Op, Node
    <3>2. CASE Running(d) /\ Running(e)
      BY <2>1, <3>1, <3>2 DEF AttachInv, OneAtATime
    <3>3. CASE d = c /\ ~Running(c)
      <4>1. MayStart(c) /\ Running(e)
        BY <1>1, <1>8, <2>1, <3>3 DEF Running, At
      <4> QED BY <4>1, <3>1, <3>3 DEF MayStart, Masquerades
    <3>4. CASE e = c /\ ~Running(c)
      <4>1. MayStart(c) /\ Running(d)
        BY <1>1, <1>8, <2>1, <3>4 DEF Running, At
      <4> QED BY <4>1, <3>1, <3>4 DEF MayStart, Masquerades
    <3> QED BY <1>8, <2>1, <3>2, <3>3, <3>4 DEF Running
  <2>2. \A d \in Calls :
          calls'[d].stage \in {"nft", "remember_masquerade"} => d # c /\ calls'[d] = calls[d]
    BY <1>4, <1>8
  <2>3. \A d \in Calls :
          /\ At(d, "nft")' => routers'[Node(d)'].masquerade_lans \cup {LanOf(d)'} \subseteq calls'[d].rules
          /\ At(d, "remember_masquerade")' =>
               routers'[Node(d)'].masquerade_lans \cup {LanOf(d)'} \subseteq nft'[Node(d)']
    BY <1>1, <2>2 DEF AttachInv, OneAtATime, At, LanOf, Node
  <2> QED BY <2>1, <2>3 DEF OneAtATime
<1> QED BY <1>9, <1>10, <1>11, <1>12, <1>13 DEF AttachInv

\* enable_udp_nat turns to its public LAN.  If that is its private one, the
\* LAN knows the router, which is therefore given no second address there.
LEMMA AttachPublicPreserves ==
    ASSUME AttachInv, UNCHANGED job, NEW c \in Calls, AttachPublic(c)
    PROVE  AttachInv'
<1> DEFINE private == <<LanOf(c), calls[c].address>>
<1>1. /\ At(c, "public")
      /\ calls' = [calls EXCEPT ![c].private = private, ![c].lan = job[c].public,
                                ![c].stage = "attach"]
      /\ UNCHANGED <<lans, routers, nft, holder>>
  BY DEF AttachPublic, kernel
<1>2. /\ Op(c) # "join_host" /\ calls[c].address # None /\ calls[c].private = None
      /\ KnownRouter(c)
  BY <1>1 DEF AttachInv, Achieved, At, RouterStages
<1>3. /\ calls[c] \in CallEntry /\ LanOf(c) \in Lans /\ job[c].public \in Lans
      /\ "attach" \in Stages
  BY RouterCalls DEF AttachInv, Stages, Sections
<1>4. private \in Lans \X Addresses
  BY <1>2, <1>3 DEF CallEntry
<1>5. private # None
  BY <1>4, NoneAssumption
<1> HIDE DEF private
<1>6. /\ calls' \in [Calls -> CallEntry]
      /\ calls'[c].stage = "attach" /\ calls'[c].lan = job[c].public
      /\ calls'[c].private = private
      /\ \A d \in Calls \ {c} : calls'[d] = calls[d]
  <2> DEFINE e == [calls[c] EXCEPT !.private = private, !.lan = job[c].public,
                                   !.stage = "attach"]
  <2>1. e \in CallEntry /\ e.stage = "attach" /\ e.lan = job[c].public /\ e.private = private
    BY <1>3, <1>4 DEF CallEntry
  <2>2. calls' = [calls EXCEPT ![c] = e]
    BY <1>1
  <2> HIDE DEF e
  <2> QED BY <2>1, <2>2 DEF AttachInv, AttachTypeOK
<1>7. AttachTypeOK'
  BY <1>1, <1>6 DEF AttachInv, AttachTypeOK
<1>8. \A d \in Calls : Achieved(d)'
  <2>1. Achieved(c)'
    BY <1>2, <1>6 DEF Achieved, At, Op
  <2> QED BY <1>1, <1>6, <2>1, OthersKeep
<1>9. Given'
  <2>1. \A l \in Lans, a \in Addresses : holder'[<<l, a>>] # None => a <= lans'[l].next_host
    BY <1>1 DEF AttachInv, Given
  <2>2. ASSUME NEW s \in Slots, NEW d \in Calls, NEW l \in Lans, holder'[s] = <<d, l>>
        PROVE  /\ l = LanOf(d)' \/ calls'[d].private # None
               /\ l = LanOf(d)' => /\ calls'[d].stage \notin {"new", "port", "allocate"}
                                   /\ At(d, "attach")' => KnownRouter(d)'
    <3>1. /\ l = LanOf(d) \/ calls[d].private # None
          /\ l = LanOf(d) => /\ calls[d].stage \notin {"new", "port", "allocate"}
                             /\ At(d, "attach") => KnownRouter(d)
      BY <1>1, <2>2 DEF AttachInv, Given
    <3>2. CASE d = c
      <4>1. l = LanOf(c)
        BY <3>1, <3>2, <1>2
      <4>2. l = LanOf(c)' => KnownRouter(c)'
        BY <4>1, <1>1, <1>2 DEF KnownRouter, LanOf, Node
      <4> QED BY <3>2, <4>2, <1>5, <1>6
    <3>3. CASE d # c
      BY <3>1, <3>3, <1>1, <1>6 DEF At, LanOf, KnownRouter, Node
    <3> QED BY <3>2, <3>3
  <2> QED BY <2>1, <2>2 DEF Given
<1>10. RecordsAgree' /\ MasqueradeKept'
  BY <1>1 DEF AttachInv, RecordsAgree, MasqueradeKept
<1>11. OneAtATime'
  <2>1. \A d \in Calls : Running(d)' => Running(d)
    BY <1>1, <1>6 DEF Running, At
  <2>2. \A d \in Calls :
          calls'[d].stage \in {"nft", "remember_masquerade"} => d # c /\ calls'[d] = calls[d]
    BY <1>6
  <2>3. \A d, e \in Calls :
          d # e /\ Masquerades(d)' /\ Masquerades(e)' /\ Running(d)' /\ Running(e)'
            /\ SerialMasquerade => Node(d)' # Node(e)'
    BY <2>1 DEF AttachInv, OneAtATime, Masquerades, Op, Node
  <2>4. SerialMasquerade => \A d \in Calls :
          /\ At(d, "nft")' => routers'[Node(d)'].masquerade_lans \cup {LanOf(d)'} \subseteq calls'[d].rules
          /\ At(d, "remember_masquerade")' =>
               routers'[Node(d)'].masquerade_lans \cup {LanOf(d)'} \subseteq nft'[Node(d)']
    BY <1>1, <2>2 DEF AttachInv, OneAtATime, At, LanOf, Node
  <2> QED BY <2>3, <2>4 DEF OneAtATime
<1> QED BY <1>7, <1>8, <1>9, <1>10, <1>11 DEF AttachInv
\* allocate_address gives an address beyond all that were given before, to a
\* call that had none.
LEMMA AllocatePreserves ==
    ASSUME AttachInv, UNCHANGED job, NEW c \in Calls, AllocateAddress(c)
    PROVE  AttachInv' /\ [AddressLeases!Grow]_holder
<1> DEFINE l == LanOf(c)
           n == lans[l].next_host
<1>1. At(c, "allocate") /\ UNCHANGED <<routers, nft>>
  BY DEF AllocateAddress, kernel
<1>2. calls[c] \in CallEntry /\ l \in Lans /\ lans[l] \in LanEntry /\ n \in 0 .. PoolSize
  BY RouterCalls DEF AttachInv, AttachTypeOK, LanEntry
<1>3. Running(c)
  BY <1>1 DEF Running, At
<1>4. CASE Exhausted(n)
  <2>1. /\ calls' = [calls EXCEPT ![c].stage = "error"] /\ UNCHANGED <<lans, holder>>
    BY <1>4 DEF AllocateAddress, Goto
  <2>2. "error" \in Stages
    BY DEF Stages
  <2>3. /\ calls' \in [Calls -> CallEntry]
        /\ calls'[c].stage = "error" /\ calls'[c].lan = calls[c].lan
        /\ calls'[c].private = calls[c].private
        /\ \A d \in Calls \ {c} : calls'[d] = calls[d]
    BY <2>1, <2>2, <1>2 DEF AttachInv, AttachTypeOK, CallEntry
  <2>4. AttachTypeOK'
    BY <1>1, <2>1, <2>3 DEF AttachInv, AttachTypeOK
  <2>5. Achieved(c)'
    BY <2>3 DEF Achieved, At, RouterStages
  <2> QED BY <1>1, <1>3, <2>1, <2>3, <2>4, <2>5, QuietPreserves
<1>5. CASE ~Exhausted(n)
  <2> DEFINE slot == <<l, n + 1>>
             owner == <<c, l>>
  <2>1. /\ holder' = [holder EXCEPT ![slot] = owner]
        /\ lans' = [lans EXCEPT ![l].next_host = n + 1]
        /\ calls' = [calls EXCEPT ![c].address = n + 1, ![c].stage = "assign"]
    BY <1>5 DEF AllocateAddress, NextHost, AfterAllocation
  <2>2. n \in Nat /\ n + 1 \in Addresses /\ n + 1 \in 0 .. PoolSize /\ n + 1 # None
    BY <1>2, <1>5, PoolAssumption, NoneAssumption DEF Exhausted, Addresses
  <2>3. slot \in Slots /\ owner \in Calls \X Lans /\ owner # None /\ "assign" \in Stages
    BY <1>2, <2>2, NoneAssumption DEF Slots, Stages, Awaits
  <2>4. /\ calls' \in [Calls -> CallEntry]
        /\ calls'[c].stage = "assign" /\ calls'[c].lan = calls[c].lan
        /\ calls'[c].address = n + 1 /\ calls'[c].private = calls[c].private
        /\ \A d \in Calls \ {c} : calls'[d] = calls[d]
    <3> HIDE DEF n
    <3> QED BY <1>2, <2>1, <2>2, <2>3 DEF AttachInv, AttachTypeOK, CallEntry
  <2>5. /\ lans' \in [Lans -> LanEntry]
        /\ \A m \in Lans : /\ lans'[m].routers = lans[m].routers
                           /\ lans'[m].next_host = IF m = l THEN n + 1 ELSE lans[m].next_host
    <3> DEFINE e == [lans[l] EXCEPT !.next_host = n + 1]
    <3>1. e \in LanEntry /\ e.next_host = n + 1 /\ e.routers = lans[l].routers
      BY <1>2, <2>2 DEF LanEntry
    <3>2. lans' = [lans EXCEPT ![l] = e]
      BY <2>1
    <3> HIDE DEF e
    <3> QED BY <3>1, <3>2, <1>2 DEF AttachInv, AttachTypeOK
  <2>6. holder' \in [Slots -> (Calls \X Lans) \cup {None}]
    <3> HIDE DEF slot, owner
    <3> QED BY <2>1, <2>3 DEF AttachInv, AttachTypeOK
  <2>7. AttachTypeOK'
    BY <1>1, <2>4, <2>5, <2>6 DEF AttachInv, AttachTypeOK
  <2>8. \A d \in Calls : Achieved(d)'
    <3>1. Achieved(c)'
      BY <2>2, <2>4 DEF Achieved, At, RouterStages
    <3>2. ASSUME NEW d \in Calls \ {c} PROVE Achieved(d)'
      <4>1. Achieved(d) /\ calls'[d] = calls[d] /\ (Op(d) # "join_host" => Node(d) \in Routers)
              /\ LanOf(d) \in Lans
        BY <2>4, RouterCalls DEF AttachInv
      <4>2. KnownRouter(d)' = KnownRouter(d)
        BY <4>1, <2>5 DEF KnownRouter, LanOf, Node
      <4> QED BY <1>1, <4>1, <4>2 DEF Achieved, At, LanOf, Node, Op
    <3> QED BY <3>1, <3>2
  <2>9. holder[slot] = None
    <3>1. ~(n + 1 <= lans[l].next_host)
      BY <2>2
    <3> QED BY <1>2, <2>2, <3>1 DEF AttachInv, Given
  <2>10. \A s \in Slots : holder[s] # owner
    BY <1>1, <1>2 DEF AttachInv, Given, At
  <2>11. Given'
    <3>1. ASSUME NEW m \in Lans, NEW a \in Addresses, holder'[<<m, a>>] # None
          PROVE  a <= lans'[m].next_host
      <4>1. CASE <<m, a>> = slot
        <5>1. m = l /\ a = n + 1
          BY <4>1
        <5> QED BY <5>1, <2>2, <2>5
      <4>2. CASE <<m, a>> # slot
        <5>1. holder'[<<m, a>>] = holder[<<m, a>>]
          <6>1. <<m, a>> \in Slots
            BY DEF Slots
          <6> HIDE DEF slot, owner
          <6> QED BY <4>2, <6>1, <2>1 DEF AttachInv, AttachTypeOK
        <5>2. a <= lans[m].next_host /\ a \in Int /\ lans[m].next_host \in Int
          BY <3>1, <5>1 DEF AttachInv, AttachTypeOK, LanEntry, Given, Addresses
        <5> QED BY <5>2, <2>2, <2>5
      <4> QED BY <4>1, <4>2
    <3>2. ASSUME NEW s \in Slots, NEW d \in Calls, NEW m \in Lans, holder'[s] = <<d, m>>
          PROVE  /\ m = LanOf(d)' \/ calls'[d].private # None
                 /\ m = LanOf(d)' => /\ calls'[d].stage \notin {"new", "port", "allocate"}
                                     /\ At(d, "attach")' => KnownRouter(d)'
      <4>1. CASE s = slot
        <5>1. holder'[slot] = owner
          <6> HIDE DEF slot, owner
          <6> QED BY <2>1, <2>3 DEF AttachInv, AttachTypeOK
        <5>2. d = c /\ m = l
          BY <3>2, <4>1, <5>1
        <5> QED BY <5>2, <2>4 DEF LanOf, At
      <4>2. CASE s # slot
        <5>1. holder[s] = <<d, m>>
          <6>1. holder'[s] = holder[s]
            <7> HIDE DEF slot, owner
            <7> QED BY <4>2, <2>1 DEF AttachInv, AttachTypeOK
          <6> QED BY <6>1, <3>2
        <5>2. /\ m = LanOf(d) \/ calls[d].private # None
              /\ m = LanOf(d) => /\ calls[d].stage \notin {"new", "port", "allocate"}
                                 /\ At(d, "attach") => KnownRouter(d)
          BY <5>1 DEF AttachInv, Given
        <5>3. CASE d = c
          BY <5>2, <5>3, <2>4 DEF LanOf, At
        <5>4. CASE d # c
          <6>1. calls'[d] = calls[d] /\ LanOf(d) \in Lans
            BY <5>4, <2>4, RouterCalls DEF AttachInv
          <6>2. KnownRouter(d)' = KnownRouter(d)
            BY <6>1, <2>5 DEF KnownRouter, LanOf, Node
          <6> QED BY <5>2, <6>1, <6>2 DEF LanOf, At
        <5> QED BY <5>3, <5>4
      <4> QED BY <4>1, <4>2
    <3> QED BY <3>1, <3>2 DEF Given
  <2>12. RecordsAgree' /\ MasqueradeKept'
    BY <1>1, <2>5, <2>7 DEF AttachInv, AttachTypeOK, RecordsAgree, MasqueradeKept
  <2>13. OneAtATime'
    <3>1. \A d \in Calls : Running(d)' => Running(d)
      BY <1>3, <2>4 DEF Running
    <3>2. \A d \in Calls :
            calls'[d].stage \in {"nft", "remember_masquerade"} => d # c /\ calls'[d] = calls[d]
      BY <2>4
    <3>3. \A d, e \in Calls :
            d # e /\ Masquerades(d)' /\ Masquerades(e)' /\ Running(d)' /\ Running(e)'
              /\ SerialMasquerade => Node(d)' # Node(e)'
      BY <3>1 DEF AttachInv, OneAtATime, Masquerades, Op, Node
    <3>4. SerialMasquerade => \A d \in Calls :
            /\ At(d, "nft")' =>
                 routers'[Node(d)'].masquerade_lans \cup {LanOf(d)'} \subseteq calls'[d].rules
            /\ At(d, "remember_masquerade")' =>
                 routers'[Node(d)'].masquerade_lans \cup {LanOf(d)'} \subseteq nft'[Node(d)']
      BY <1>1, <3>2 DEF AttachInv, OneAtATime, At, LanOf, Node
    <3> QED BY <3>3, <3>4 DEF OneAtATime
  <2>14. AddressLeases!Grow
    BY <2>1, <2>3, <2>9, <2>10 DEF AddressLeases!Grow, AddressLeases!Lease
  <2> QED BY <2>7, <2>8, <2>11, <2>12, <2>13, <2>14 DEF AttachInv
<1> QED BY <1>4, <1>5
\* Given speaks of what the last steps of enable_masquerade leave alone.
LEMMA GivenKept ==
    ASSUME AttachInv, NEW c \in Calls, Running(c),
           \A d \in Calls \ {c} : calls'[d] = calls[d],
           calls'[c].lan = calls[c].lan, calls'[c].private = calls[c].private,
           calls'[c].stage \notin {"new", "port", "allocate", "attach"},
           UNCHANGED <<job, lans, holder>>
    PROVE  Given'
<1>1. \A l \in Lans, a \in Addresses : holder'[<<l, a>>] # None => a <= lans'[l].next_host
  BY DEF AttachInv, Given
<1>2. ASSUME NEW s \in Slots, NEW d \in Calls, NEW l \in Lans, holder'[s] = <<d, l>>
      PROVE  /\ l = LanOf(d)' \/ calls'[d].private # None
             /\ l = LanOf(d)' => /\ calls'[d].stage \notin {"new", "port", "allocate"}
                                 /\ At(d, "attach")' => KnownRouter(d)'
  <2>1. /\ l = LanOf(d) \/ calls[d].private # None
        /\ l = LanOf(d) => /\ calls[d].stage \notin {"new", "port", "allocate"}
                           /\ At(d, "attach") => KnownRouter(d)
    BY <1>2 DEF AttachInv, Given
  <2>2. CASE d = c
    BY <2>1, <2>2 DEF At, LanOf
  <2>3. CASE d # c
    BY <2>1, <2>3 DEF At, LanOf, KnownRouter, Node
  <2> QED BY <2>2, <2>3
<1> QED BY <1>1, <1>2 DEF Given

\* While a call has the rules in hand no other call of its router does, so
\* that what it computed, and then applied, still covers what is recorded.
LEMMA ApplyPreserves ==
    ASSUME AttachInv, UNCHANGED job, NEW c \in Calls, ApplyMasquerade(c)
    PROVE  AttachInv'
<1>1. /\ At(c, "nft")
      /\ nft' = [nft EXCEPT ![Node(c)] = calls[c].rules]
      /\ calls' = [calls EXCEPT ![c].stage = "remember_masquerade"]
      /\ UNCHANGED <<lans, routers, holder>>
  BY DEF ApplyMasquerade, Goto
<1>2. Masquerades(c) /\ KnownRouter(c) /\ Running(c)
  BY <1>1 DEF AttachInv, Achieved, At, Masquerades, Running
<1>3. calls[c] \in CallEntry /\ Node(c) \in Routers /\ "remember_masquerade" \in Stages
  BY <1>2, RouterCalls DEF AttachInv, Masquerades, Stages, Sections
<1>4. /\ calls' \in [Calls -> CallEntry]
      /\ calls'[c].stage = "remember_masquerade" /\ calls'[c].lan = calls[c].lan
      /\ calls'[c].private = calls[c].private
      /\ \A d \in Calls \ {c} : calls'[d] = calls[d]
  BY <1>1, <1>3 DEF AttachInv, AttachTypeOK, CallEntry
<1>5. /\ nft' \in [Routers -> SUBSET Lans]
      /\ nft'[Node(c)] = calls[c].rules
      /\ \A r \in Routers \ {Node(c)} : nft'[r] = nft[r]
  <2>1. calls[c].rules \in SUBSET Lans
    BY <1>3 DEF CallEntry
  <2> QED BY <2>1, <1>1, <1>3 DEF AttachInv, AttachTypeOK
<1>6. AttachTypeOK'
  BY <1>1, <1>4, <1>5 DEF AttachInv, AttachTypeOK
<1>7. \A d \in Calls : Achieved(d)'
  <2>1. Achieved(c)'
    BY <1>1, <1>2, <1>4 DEF Achieved, At, RouterStages, KnownRouter, LanOf, Node, Op, Masquerades
  <2> QED BY <1>1, <1>4, <2>1, OthersKeep
<1>8. Given'
  BY <1>1, <1>2, <1>4, GivenKept
<1>9. RecordsAgree'
  BY <1>1 DEF AttachInv, RecordsAgree
<1>10. SerialMasquerade =>
         routers[Node(c)].masquerade_lans \cup {LanOf(c)} \subseteq calls[c].rules
  BY <1>1 DEF AttachInv, OneAtATime
<1>11. MasqueradeKept'
  BY <1>1, <1>5, <1>10 DEF AttachInv, MasqueradeKept
<1>12. OneAtATime'
  <2> SUFFICES ASSUME SerialMasquerade
               PROVE  OneAtATime'
    BY DEF OneAtATime
  <2>1. \A d \in Calls : Running(d)' => Running(d)
    BY <1>2, <1>4 DEF Running
  <2>2. \A d, e \in Calls :
          d # e /\ Masquerades(d)' /\ Masquerades(e)' /\ Running(d)' /\ Running(e)' =>
            Node(d)' # Node(e)'
    BY <2>1 DEF AttachInv, OneAtATime, Masquerades, Op, Node
  <2>3. \A d \in Calls : At(d, "nft")' =>
          routers'[Node(d)'].masquerade_lans \cup {LanOf(d)'} \subseteq calls'[d].rules
    BY <1>1, <1>4 DEF AttachInv, OneAtATime, At, LanOf, Node
  <2>4. ASSUME NEW d \in Calls, At(d, "remember_masquerade")'
        PROVE  routers'[Node(d)'].masquerade_lans \cup {LanOf(d)'} \subseteq nft'[Node(d)']
    <3>1. CASE d = c
      BY <3>1, <1>1, <1>4, <1>5, <1>10 DEF LanOf, Node
    <3>2. CASE d # c
      <4>1. At(d, "remember_masquerade") /\ calls'[d] = calls[d]
        BY <2>4, <3>2, <1>4 DEF At
      <4>2. Masquerades(d) /\ Running(d) /\ Node(d) \in Routers
        BY <4>1, RouterCalls DEF AttachInv, Achieved, At, Masquerades, Running
      <4>3. Node(d) # Node(c)
        BY <3>2, <4>2, <1>2 DEF AttachInv, OneAtATime
      <4> QED BY <4>1, <4>2, <4>3, <1>1, <1>5 DEF AttachInv, OneAtATime, LanOf, Node
    <3> QED BY <3>1, <3>2
  <2> QED BY <2>2, <2>3, <2>4 DEF OneAtATime
<1> QED BY <1>6, <1>7, <1>8, <1>9, <1>11, <1>12 DEF AttachInv

LEMMA RememberMasqueradePreserves ==
    ASSUME AttachInv, UNCHANGED job, NEW c \in Calls, RememberMasqueradeLan(c)
    PROVE  AttachInv'
<1>1. /\ At(c, "remember_masquerade")
      /\ routers' = [routers EXCEPT ![Node(c)].masquerade_lans = @ \cup {LanOf(c)}]
      /\ calls' = [calls EXCEPT ![c].stage = "ok"]
      /\ UNCHANGED <<lans, nft, holder>>
  BY DEF RememberMasqueradeLan, Goto, kernel
<1>2. Masquerades(c) /\ KnownRouter(c) /\ Running(c)
  BY <1>1 DEF AttachInv, Achieved, At, Masquerades, Running
<1>3. /\ calls[c] \in CallEntry /\ Node(c) \in Routers /\ LanOf(c) \in Lans
      /\ "ok" \in Stages
  BY <1>2, RouterCalls DEF AttachInv, Masquerades, Stages
<1>4. /\ calls' \in [Calls -> CallEntry]
      /\ calls'[c].stage = "ok" /\ calls'[c].lan = calls[c].lan
      /\ calls'[c].private = calls[c].private
      /\ \A d \in Calls \ {c} : calls'[d] = calls[d]
  BY <1>1, <1>3 DEF AttachInv, AttachTypeOK, CallEntry
<1>5. /\ routers' \in [Routers -> RouterEntry]
      /\ \A r \in Routers :
           /\ routers'[r].lans = routers[r].lans
           /\ routers'[r].masquerade_lans =
                IF r = Node(c) THEN routers[r].masquerade_lans \cup {LanOf(c)}
                               ELSE routers[r].masquerade_lans
  BY <1>1, <1>3 DEF AttachInv, AttachTypeOK, RouterEntry
<1>6. AttachTypeOK'
  BY <1>1, <1>4, <1>5 DEF AttachInv, AttachTypeOK
<1>7. \A d \in Calls : Achieved(d)'
  <2>1. Achieved(c)'
    BY <1>4 DEF Achieved, At, RouterStages
  <2> QED BY <1>1, <1>4, <1>5, <2>1, OthersKeep
<1>8. Given'
  BY <1>1, <1>2, <1>4, GivenKept
<1>9. RecordsAgree'
  BY <1>1, <1>2, <1>5, <1>6 DEF AttachInv, AttachTypeOK, RecordsAgree, KnownRouter
<1>10. SerialMasquerade =>
         routers[Node(c)].masquerade_lans \cup {LanOf(c)} \subseteq nft[Node(c)]
  BY <1>1 DEF AttachInv, OneAtATime
<1>11. MasqueradeKept'
  BY <1>1, <1>5, <1>10 DEF AttachInv, MasqueradeKept
<1>12. OneAtATime'
  <2> SUFFICES ASSUME SerialMasquerade
               PROVE  OneAtATime'
    BY DEF OneAtATime
  <2>1. \A d \in Calls : Running(d)' => Running(d)
    BY <1>2, <1>4 DEF Running
  <2>2. \A d, e \in Calls :
          d # e /\ Masquerades(d)' /\ Masquerades(e)' /\ Running(d)' /\ Running(e)' =>
            Node(d)' # Node(e)'
    BY <2>1 DEF AttachInv, OneAtATime, Masquerades, Op, Node
  <2>3. ASSUME NEW d \in Calls, calls'[d].stage \in {"nft", "remember_masquerade"}
        PROVE  /\ calls'[d] = calls[d]
               /\ routers'[Node(d)].masquerade_lans = routers[Node(d)].masquerade_lans
    <3>1. d # c /\ calls'[d] = calls[d]
      BY <2>3, <1>4
    <3>2. Masquerades(d) /\ Running(d) /\ Node(d) \in Routers
      BY <2>3, <3>1, RouterCalls DEF AttachInv, Achieved, Masquerades, Running
    <3>3. Node(d) # Node(c)
      BY <3>1, <3>2, <1>2 DEF AttachInv, OneAtATime
    <3> QED BY <3>1, <3>2, <3>3, <1>5
  <2>4. \A d \in Calls :
          /\ At(d, "nft")' =>
               routers'[Node(d)'].masquerade_lans \cup {LanOf(d)'} \subseteq calls'[d].rules
          /\ At(d, "remember_masquerade")' =>
               routers'[Node(d)'].masquerade_lans \cup {LanOf(d)'} \subseteq nft'[Node(d)']
    BY <1>1, <2>3 DEF AttachInv, OneAtATime, At, LanOf, Node
  <2> QED BY <2>2, <2>4 DEF OneAtATime
<1> QED BY <1>6, <1>7, <1>8, <1>9, <1>11, <1>12 DEF AttachInv

LEMMA StutterAttach == AttachInv /\ UNCHANGED vars => AttachInv'
<1> SUFFICES ASSUME AttachInv, UNCHANGED vars PROVE AttachInv'
  OBVIOUS
<1>1. UNCHANGED <<job, lans, routers, calls, nft, holder>>
  BY DEF vars, kernel
<1>2. AttachTypeOK' /\ RecordsAgree' /\ MasqueradeKept'
  BY <1>1 DEF AttachInv, AttachTypeOK, RecordsAgree, MasqueradeKept
<1>3. \A c \in Calls : Achieved(c)'
  BY <1>1 DEF AttachInv, Achieved, At, KnownRouter, LanOf, Node, Op
<1>4. Given'
  BY <1>1 DEF AttachInv, Given, At, KnownRouter, LanOf, Node
<1>5. OneAtATime'
  BY <1>1 DEF AttachInv, OneAtATime, At, Running, Masquerades, LanOf, Node, Op
<1> QED BY <1>2, <1>3, <1>4, <1>5 DEF AttachInv

\* Every step preserves the invariant, and gives at most one address.
LEMMA NextAttach ==
    ASSUME AttachInv, [Next]_vars
    PROVE  AttachInv' /\ [AddressLeases!Grow]_holder
<1>1. CASE UNCHANGED vars
  BY <1>1, StutterAttach DEF vars
<1>2. CASE Next
  <2>1. PICK c \in Calls : Step(c)
    BY <1>2 DEF Next
  <2>2. UNCHANGED job
    BY <1>2 DEF Next
  <2>3. CASE AllocateAddress(c)
    BY <2>2, <2>3, AllocatePreserves
  <2>4. CASE Start(c)
    BY <2>2, <2>4, StartPreserves DEF Start
  <2>5. CASE \/ AttachNode(c) \/ AddAddress(c) \/ DefaultRoute(c) \/ StartNat(c)
             \/ AllRouted(c) \/ Fail(c)
    <3>1. holder' = holder
      BY <2>5 DEF AttachNode, AddAddress, DefaultRoute, StartNat, AllRouted, Fail
    <3> QED BY <2>2, <2>5, <3>1, AwaitPreserves
  <2>6. CASE RememberHost(c)
    BY <2>2, <2>6, RememberHostPreserves DEF RememberHost
  <2>7. CASE RememberLan(c)
    BY <2>2, <2>7, RememberLanPreserves DEF RememberLan
  <2>8. CASE RememberRouter(c)
    BY <2>2, <2>8, RememberRouterPreserves DEF RememberRouter
  <2>9. CASE RecordGateway(c)
    BY <2>2, <2>9, RecordGatewayPreserves DEF RecordGateway
  <2>10. CASE MasqueradeRules(c) \/ \E h \in Hosts : HostRoute(c, h)
    <3>1. holder' = holder
      BY <2>10 DEF MasqueradeRules, HostRoute
    <3> QED BY <2>2, <2>10, <3>1, CallOnlyPreserves
  <2>11. CASE ApplyMasquerade(c)
    BY <2>2, <2>11, ApplyPreserves DEF ApplyMasquerade
  <2>12. CASE RememberMasqueradeLan(c)
    BY <2>2, <2>12, RememberMasqueradePreserves DEF RememberMasqueradeLan
  <2>13. CASE AttachPublic(c)
    BY <2>2, <2>13, AttachPublicPreserves DEF AttachPublic
  <2>14. CASE RememberUdpNat(c)
    BY <2>2, <2>14, RememberUdpNatPreserves DEF RememberUdpNat
  <2> QED
    BY <2>1, <2>3, <2>4, <2>5, <2>6, <2>7, <2>8, <2>9, <2>10, <2>11, <2>12, <2>13, <2>14
    DEF Step
<1> QED BY <1>1, <1>2
-----------------------------------------------------------------------------
\* No address of a LAN is given to two attachments, and what was given is
\* never given again (lan.rs:72-84).
THEOREM AddressesAreLeasedForGood == Spec => AddressesLeased
<1>1. Init => AttachInv /\ AddressLeases!Init
  BY InitAttach DEF Init, AddressLeases!Init
<1>2. AttachInv /\ [Next]_vars => AttachInv' /\ [AddressLeases!Grow]_holder
  BY NextAttach
<1> QED BY <1>1, <1>2, PTL DEF Spec, AddressesLeased, AddressLeases!PermanentSpec

\* What a snapshot of the topology relies on holds whatever calls overlap and
\* fail (router.rs:48-49, 57-61; net.rs:136-168).
THEOREM RecordsAlwaysAgree == Spec => []RecordsAgree
<1>1. Init => AttachInv
  BY InitAttach
<1>2. AttachInv /\ [Next]_vars => AttachInv'
  BY NextAttach
<1>3. AttachInv => RecordsAgree
  BY DEF AttachInv
<1> QED BY <1>1, <1>2, <1>3, PTL DEF Spec

\* If the calls of a router that masquerade do not overlap, none takes back
\* the rules of an earlier one (router.rs:57-61, nat.rs:90-99).
THEOREM MasqueradeAlwaysKept == Spec => []MasqueradeKept
<1>1. Init => AttachInv
  BY InitAttach
<1>2. AttachInv /\ [Next]_vars => AttachInv'
  BY NextAttach
<1>3. AttachInv => MasqueradeKept
  BY DEF AttachInv
<1> QED BY <1>1, <1>2, <1>3, PTL DEF Spec
-----------------------------------------------------------------------------
(* The addresses work.  An address that a call has for its LAN, or that a  *)
(* record names, is on an interface of the node; and an interface has its  *)
(* address for good, because a call that may yet assign one has none yet.  *)
InterfaceEntry == [call : Calls, lan : Lans, address : Addresses \cup {None}]

Works(node, lan, address) == address # None /\ Has(node, lan, address)

\* From these stages on the call has an address of the LAN it attaches.
AttachedStages == {"remember", "remember_router", "default_route", "record", "host_routes",
                   "rules", "nft", "remember_masquerade", "public", "start_nat",
                   "remember_nat", "ok"}

HasAddresses(c) ==
    /\ calls[c].stage \in AttachedStages => Works(Node(c), LanOf(c), calls[c].address)
    /\ calls[c].private # None =>
         Works(Node(c), calls[c].private[1], calls[c].private[2])

HasInterface(c) ==
    calls[c].stage \in {"allocate", "assign"} =>
        \E i \in interfaces : i.call = c /\ i.lan = LanOf(c)

\* An interface that has an address is not that of an attachment under way.
Assigned(i) ==
    i.address # None =>
        /\ i.lan = LanOf(i.call) \/ calls[i.call].private # None
        /\ i.lan = LanOf(i.call) =>
             /\ calls[i.call].stage \notin {"new", "port", "allocate", "assign"}
             /\ At(i.call, "attach") => KnownRouter(i.call)

RecordsWork ==
    /\ \A l \in Lans, h \in Hosts :
         lans[l].hosts[h] # None => Has(h, l, lans[l].hosts[h])
    /\ \A l \in Lans, r \in Routers :
         lans[l].routers[r] # None => Has(r, l, lans[l].routers[r])
    /\ \A r \in Routers : \A nat \in routers[r].udp_nats :
         Works(r, nat[1][1], nat[1][2]) /\ Works(r, nat[2][1], nat[2][2])

WorkInv ==
    /\ interfaces \subseteq InterfaceEntry
    /\ \A c \in Calls : HasAddresses(c) /\ HasInterface(c)
    /\ \A i \in interfaces : Assigned(i)
    /\ RecordsWork
-----------------------------------------------------------------------------
\* A step of one call leaves the progress of the others alone.
LEMMA OthersStay ==
    ASSUME AttachTypeOK, NEW c \in Calls, Step(c)
    PROVE  \A d \in Calls \ {c} : calls'[d] = calls[d]
<1>1. CASE Start(c) \/ AttachNode(c) \/ AddAddress(c) \/ RememberHost(c) \/ DefaultRoute(c)
  BY <1>1 DEF AttachTypeOK, Start, AttachNode, AddAddress, RememberHost, DefaultRoute, Goto
<1>2. CASE AllocateAddress(c)
  BY <1>2 DEF AttachTypeOK, AllocateAddress, Goto
<1>3. CASE RecordGateway(c)
  BY <1>3 DEF AttachTypeOK, RecordGateway, Goto
<1>4. CASE RememberLan(c) \/ RememberRouter(c) \/ AllRouted(c) \/ \E h \in Hosts : HostRoute(c, h)
  BY <1>4 DEF AttachTypeOK, RememberLan, RememberRouter, AllRouted, HostRoute, Goto
<1>5. CASE \/ MasqueradeRules(c) \/ ApplyMasquerade(c) \/ RememberMasqueradeLan(c)
           \/ AttachPublic(c) \/ StartNat(c) \/ RememberUdpNat(c) \/ Fail(c)
  BY <1>5 DEF AttachTypeOK, MasqueradeRules, ApplyMasquerade, RememberMasqueradeLan,
     AttachPublic, StartNat, RememberUdpNat, Fail, Goto
<1> QED BY <1>1, <1>2, <1>3, <1>4, <1>5 DEF Step

\* A record of a LAN, once made, is never taken back, and a gateway never
\* replaced; and which steps record what.
LEMMA RecordsKept ==
    ASSUME AttachInv, UNCHANGED job, NEW c \in Calls, Step(c), NEW l \in Lans
    PROVE  /\ lans[l].gateway # None => lans'[l].gateway = lans[l].gateway
           /\ lans'[l].gateway # lans[l].gateway => RecordGateway(c)
           /\ \A h \in Hosts : lans[l].hosts[h] # None => lans'[l].hosts[h] # None
           /\ ~RememberHost(c) => lans'[l].hosts = lans[l].hosts
           /\ \A r \in Routers : lans[l].routers[r] # None => lans'[l].routers[r] # None
           /\ ~RememberRouter(c) => lans'[l].routers = lans[l].routers
<1>1. /\ calls[c] \in CallEntry /\ LanOf(c) \in Lans
      /\ lans[l] \in LanEntry /\ lans[LanOf(c)] \in LanEntry
      /\ lans \in [Lans -> LanEntry]
  BY RouterCalls DEF AttachInv, AttachTypeOK
<1>2. CASE AllocateAddress(c)
  BY <1>1, <1>2 DEF AllocateAddress, NextHost, LanEntry
<1>3. CASE RememberHost(c)
  <2>1. calls[c].address # None
    BY <1>3 DEF RememberHost, AttachInv, Achieved, At
  <2> QED BY <1>1, <1>3, <2>1 DEF RememberHost, LanEntry
<1>4. CASE RememberRouter(c)
  <2>1. calls[c].address # None
    BY <1>4 DEF RememberRouter, AttachInv, Achieved, At
  <2> QED BY <1>1, <1>4, <2>1 DEF RememberRouter, LanEntry
<1>5. CASE RecordGateway(c)
  <2> DEFINE a == lans[LanOf(c)].routers[Node(c)]
  <2>1. \/ lans' = lans
        \/ /\ lans[LanOf(c)].gateway \in {None, a}
           /\ lans' = [lans EXCEPT ![LanOf(c)].gateway = a]
    BY <1>5 DEF RecordGateway, GatewayAgrees
  <2> HIDE DEF a
  <2> QED BY <1>1, <1>5, <2>1 DEF LanEntry
<1>6. CASE UNCHANGED lans
  BY <1>6
<1>7. \/ UNCHANGED lans \/ AllocateAddress(c) \/ RememberHost(c) \/ RememberRouter(c)
      \/ RecordGateway(c)
  BY DEF Step, Start, AttachNode, AddAddress, DefaultRoute, RememberLan, AllRouted, HostRoute,
     MasqueradeRules, ApplyMasquerade, RememberMasqueradeLan, AttachPublic, StartNat,
     RememberUdpNat, Fail
<1> QED BY <1>2, <1>3, <1>4, <1>5, <1>6, <1>7

\* The nodes of joins are hosts, those of the other calls routers.
LEMMA CallNodes ==
    ASSUME AttachTypeOK, NEW c \in Calls
    PROVE  /\ Op(c) = "join_host" => Node(c) \in Hosts
           /\ Op(c) # "join_host" => Node(c) \in Routers
           /\ Known(c) \in Addresses \cup {None}
<1>1. /\ Op(c) = "join_host" => Node(c) \in Hosts
      /\ Op(c) # "join_host" => Node(c) \in Routers
  BY JobAssumption, RouterCalls DEF AttachTypeOK, Op, Node
<1>2. lans[LanOf(c)] \in LanEntry
  BY RouterCalls DEF AttachTypeOK
<1> QED BY <1>1, <1>2 DEF Known, LanEntry

LEMMA InitWork == Init => WorkInv
<1> SUFFICES ASSUME Init PROVE WorkInv
  OBVIOUS
<1>1. \A c \in Calls : calls[c].stage = "new" /\ calls[c].private = None
  BY DEF Init
<1>2. interfaces = {} /\ RecordsWork
  BY DEF Init, RecordsWork
<1> QED BY <1>1, <1>2 DEF WorkInv, HasAddresses, HasInterface, AttachedStages

\* What the calls hold stays true in a step of another one.
LEMMA OthersWork ==
    ASSUME AttachInv, WorkInv, UNCHANGED job, NEW c \in Calls, Step(c),
           \A node \in Nodes, l \in Lans, a \in Addresses \cup {None} :
             Works(node, l, a) => Works(node, l, a)',
           \A i \in interfaces : i.call # c => i \in interfaces',
           \A i \in interfaces' : i.call # c => i \in interfaces,
           interfaces' \subseteq InterfaceEntry,
           HasAddresses(c)', HasInterface(c)',
           \A i \in interfaces' : i.call = c => Assigned(i)',
           RecordsWork'
    PROVE  WorkInv'
<1>1. \A d \in Calls \ {c} : calls'[d] = calls[d]
  BY OthersStay DEF AttachInv
<1>2. ASSUME NEW d \in Calls \ {c} PROVE HasAddresses(d)' /\ HasInterface(d)'
  <2>1. /\ calls[d] \in CallEntry /\ LanOf(d) \in Lans /\ Node(d) \in Nodes
        /\ calls'[d] = calls[d] /\ LanOf(d)' = LanOf(d) /\ Node(d)' = Node(d)
    BY <1>1, RouterCalls, CallNodes DEF AttachInv, Nodes, LanOf, Node
  <2>2. calls[d].private # None =>
          calls[d].private[1] \in Lans /\ calls[d].private[2] \in Addresses
    BY <2>1 DEF CallEntry
  <2>3. calls[d].address \in Addresses \cup {None}
    BY <2>1 DEF CallEntry
  <2>4. HasAddresses(d) /\ HasInterface(d)
    BY DEF WorkInv
  <2>5. HasAddresses(d)'
    BY <2>1, <2>2, <2>3, <2>4 DEF HasAddresses
  <2>6. HasInterface(d)'
    BY <2>1, <2>4 DEF HasInterface
  <2> QED BY <2>5, <2>6
<1>3. ASSUME NEW i \in interfaces', i.call # c PROVE Assigned(i)'
  <2>1. i \in interfaces /\ Assigned(i) /\ i.call \in Calls
    BY <1>3 DEF WorkInv, InterfaceEntry
  <2>2. calls'[i.call] = calls[i.call]
    BY <1>1, <1>3, <2>1
  <2>3. At(i.call, "attach") => Op(i.call) # "join_host"
    BY <2>1 DEF AttachInv, Achieved, RouterStages, At
  <2>4. At(i.call, "attach") /\ KnownRouter(i.call) => KnownRouter(i.call)'
    BY <2>1, <2>2, <2>3, RecordsKept, RouterCalls, CallNodes
    DEF AttachInv, KnownRouter, LanOf, Node
  <2> QED BY <2>1, <2>2, <2>4 DEF Assigned, LanOf, At
<1> QED BY <1>2, <1>3 DEF WorkInv

\* A step after which the call attaches the same LAN, with the address it had
\* if it had one, and that makes and changes no interface.
LEMMA QuietWork ==
    ASSUME AttachInv, WorkInv, UNCHANGED <<job, interfaces>>, NEW c \in Calls, Step(c),
           calls'[c].lan = calls[c].lan, calls'[c].private = calls[c].private,
           calls'[c].stage \in AttachedStages =>
             calls[c].stage \in AttachedStages /\ calls'[c].address = calls[c].address,
           calls'[c].stage \notin {"new", "port", "allocate", "attach"},
           calls'[c].stage = "assign" => At(c, "allocate"),
           RecordsWork'
    PROVE  WorkInv'
<1>1. /\ \A node \in Nodes, l \in Lans, a \in Addresses \cup {None} :
           Works(node, l, a) => Works(node, l, a)'
      /\ Node(c)' = Node(c) /\ LanOf(c)' = LanOf(c)
  BY DEF Works, Has, Node, LanOf
<1>2. /\ calls[c] \in CallEntry /\ LanOf(c) \in Lans /\ Node(c) \in Nodes
      /\ HasAddresses(c) /\ HasInterface(c)
  BY RouterCalls, CallNodes DEF AttachInv, Nodes, WorkInv
<1>3. HasAddresses(c)'
  <2>1. calls[c].private # None =>
          calls[c].private[1] \in Lans /\ calls[c].private[2] \in Addresses
    BY <1>2 DEF CallEntry
  <2>2. calls[c].address \in Addresses \cup {None}
    BY <1>2 DEF CallEntry
  <2> QED BY <1>1, <1>2, <2>1, <2>2 DEF HasAddresses
<1>4. HasInterface(c)'
  BY <1>1, <1>2 DEF HasInterface, At
<1>5. ASSUME NEW i \in interfaces', i.call = c PROVE Assigned(i)'
  <2>1. Assigned(i)
    BY <1>5 DEF WorkInv
  <2> QED BY <1>5, <2>1, <1>1 DEF Assigned, At, LanOf
<1>6. interfaces' \subseteq InterfaceEntry
  BY DEF WorkInv
<1> QED BY <1>1, <1>3, <1>4, <1>5, <1>6, OthersWork

\* Records of addresses that stay are as good as they were.
LEMMA RecordsStillWork ==
    ASSUME WorkInv, UNCHANGED <<job, interfaces>>,
           \A l \in Lans : lans'[l].hosts = lans[l].hosts /\ lans'[l].routers = lans[l].routers,
           \A r \in Routers : routers'[r].udp_nats = routers[r].udp_nats
    PROVE  RecordsWork'
BY DEF WorkInv, RecordsWork, Works, Has, Node

\* The steps that neither touch an interface nor record an address.
LEMMA PlainStepsWork ==
    ASSUME AttachInv, WorkInv, UNCHANGED job, NEW c \in Calls,
           \/ DefaultRoute(c) \/ RememberLan(c) \/ AllRouted(c) \/ MasqueradeRules(c)
           \/ ApplyMasquerade(c) \/ RememberMasqueradeLan(c) \/ StartNat(c) \/ Fail(c)
           \/ \E h \in Hosts : HostRoute(c, h)
    PROVE  WorkInv'
<1>1. calls[c] \in CallEntry /\ calls \in [Calls -> CallEntry] /\ Step(c)
  BY RouterCalls DEF AttachInv, AttachTypeOK, Step
<1>2. /\ UNCHANGED <<lans, interfaces>>
      /\ \A r \in Routers : routers'[r].udp_nats = routers[r].udp_nats
  <2>1. CASE RememberLan(c)
    <3>1. Node(c) \in Routers
      BY <2>1, CallNodes DEF RememberLan, AttachInv
    <3> QED BY <2>1, <3>1 DEF RememberLan, AttachInv, AttachTypeOK, RouterEntry, kernel
  <2>2. CASE RememberMasqueradeLan(c)
    <3>1. routers \in [Routers -> RouterEntry] /\ UNCHANGED <<lans, interfaces>>
          /\ routers' = [routers EXCEPT ![Node(c)].masquerade_lans = @ \cup {LanOf(c)}]
      BY <2>2 DEF RememberMasqueradeLan, AttachInv, AttachTypeOK, kernel
    <3>2. Node(c) \in Routers
      BY <2>2, CallNodes DEF RememberMasqueradeLan, AttachInv, Achieved, At
    <3> QED BY <3>1, <3>2 DEF RouterEntry
  <2>3. CASE ~RememberLan(c) /\ ~RememberMasqueradeLan(c)
    BY <2>3 DEF DefaultRoute, AllRouted, MasqueradeRules, ApplyMasquerade, StartNat, Fail,
       HostRoute, kernel
  <2> QED BY <2>1, <2>2, <2>3
<1>3. /\ calls'[c].lan = calls[c].lan /\ calls'[c].private = calls[c].private
      /\ calls'[c].stage \in AttachedStages =>
           calls[c].stage \in AttachedStages /\ calls'[c].address = calls[c].address
      /\ calls'[c].stage \notin {"new", "port", "allocate", "attach", "assign"}
  <2>1. CASE DefaultRoute(c) \/ RememberLan(c) \/ AllRouted(c) \/ StartNat(c) \/ Fail(c)
    BY <2>1, <1>1 DEF CallEntry, DefaultRoute, RememberLan, AllRouted, StartNat, Fail, Goto, At,
       AttachedStages
  <2>2. CASE MasqueradeRules(c) \/ ApplyMasquerade(c) \/ RememberMasqueradeLan(c)
    BY <2>2, <1>1 DEF CallEntry, MasqueradeRules, ApplyMasquerade, RememberMasqueradeLan, Goto,
       At, AttachedStages
  <2>3. CASE \E h \in Hosts : HostRoute(c, h)
    BY <2>3, <1>1 DEF CallEntry, HostRoute, At, AttachedStages
  <2> QED BY <2>1, <2>2, <2>3
<1>4. RecordsWork'
  BY <1>2, RecordsStillWork
<1> QED BY <1>1, <1>2, <1>3, <1>4, QuietWork

\* allocate_address, and a gateway that is recorded: no record of a node's
\* address changes.
LEMMA LanStepsWork ==
    ASSUME AttachInv, WorkInv, UNCHANGED job, NEW c \in Calls,
           AllocateAddress(c) \/ RecordGateway(c)
    PROVE  WorkInv'
<1>1. calls[c] \in CallEntry /\ calls \in [Calls -> CallEntry] /\ Step(c)
  BY RouterCalls DEF AttachInv, AttachTypeOK, Step
<1>2. UNCHANGED <<routers, interfaces>>
  BY DEF AllocateAddress, RecordGateway, kernel
<1>3. ~RememberHost(c) /\ ~RememberRouter(c)
  BY DEF AllocateAddress, RecordGateway, RememberHost, RememberRouter, At
<1>4. RecordsWork'
  BY <1>1, <1>2, <1>3, RecordsKept, RecordsStillWork
<1>5. /\ calls'[c].lan = calls[c].lan /\ calls'[c].private = calls[c].private
      /\ calls'[c].stage \in AttachedStages =>
           calls[c].stage \in AttachedStages /\ calls'[c].address = calls[c].address
      /\ calls'[c].stage \notin {"new", "port", "allocate", "attach"}
      /\ calls'[c].stage = "assign" => At(c, "allocate")
  <2>1. CASE AllocateAddress(c)
    BY <2>1, <1>1 DEF AllocateAddress, AfterAllocation, CallEntry, Goto, At, AttachedStages
  <2>2. CASE RecordGateway(c)
    <3>1. At(c, "record")
      BY <2>2 DEF RecordGateway
    <3>2. CASE calls' = [calls EXCEPT ![c].stage = "error"]
      BY <3>2, <1>1 DEF CallEntry, AttachedStages
    <3>3. CASE calls' = [calls EXCEPT ![c].gateway = lans[LanOf(c)].routers[Node(c)],
                                      ![c].stage = "host_routes",
                                      ![c].hosts = KnownHosts(LanOf(c)),
                                      ![c].left = KnownHosts(LanOf(c))]
      BY <3>1, <3>3, <1>1 DEF CallEntry, AttachedStages, At
    <3> QED BY <2>2, <3>2, <3>3 DEF RecordGateway, Goto
  <2> QED BY <2>1, <2>2
<1> QED BY <1>1, <1>2, <1>4, <1>5, QuietWork

\* A host, a router or a relay is recorded with an address that the call has.
LEMMA RememberHostWorks ==
    ASSUME AttachInv, WorkInv, UNCHANGED job, NEW c \in Calls, RememberHost(c)
    PROVE  WorkInv'
<1>1. /\ calls[c] \in CallEntry /\ calls \in [Calls -> CallEntry] /\ Step(c)
      /\ LanOf(c) \in Lans /\ lans \in [Lans -> LanEntry] /\ lans[LanOf(c)] \in LanEntry
  BY RouterCalls DEF AttachInv, AttachTypeOK, Step
<1>2. /\ At(c, "remember") /\ UNCHANGED <<routers, interfaces>>
      /\ Node(c) \in Hosts
  BY CallNodes DEF RememberHost, kernel, AttachInv
<1>3. Works(Node(c), LanOf(c), calls[c].address)
  BY <1>2 DEF WorkInv, HasAddresses, AttachedStages, At
<1>4. ~RememberRouter(c)
  BY <1>2 DEF RememberRouter, At
<1>5. \A l \in Lans : /\ lans'[l].routers = lans[l].routers
                      /\ \A h \in Hosts : lans'[l].hosts[h] =
                           IF l = LanOf(c) /\ h = Node(c) THEN calls[c].address
                                                          ELSE lans[l].hosts[h]
  <2>1. \A l \in Lans : lans'[l].routers = lans[l].routers
    BY <1>1, <1>4, RecordsKept
  <2>2. lans' = [lans EXCEPT ![LanOf(c)].hosts[Node(c)] = calls[c].address]
    BY DEF RememberHost
  <2> QED BY <1>1, <1>2, <2>1, <2>2 DEF LanEntry
<1>6. RecordsWork'
  <2>1. ASSUME NEW l \in Lans, NEW h \in Hosts, lans'[l].hosts[h] # None
        PROVE  Has(h, l, lans'[l].hosts[h])
    BY <2>1, <1>3, <1>5 DEF WorkInv, RecordsWork, Works
  <2> QED BY <1>2, <1>5, <2>1 DEF WorkInv, RecordsWork, Works, Has, Node
<1>7. /\ calls'[c].lan = calls[c].lan /\ calls'[c].private = calls[c].private
      /\ calls'[c].address = calls[c].address
      /\ calls'[c].stage \in {"ok", "default_route"}
  BY <1>1 DEF RememberHost, CallEntry
<1> QED BY <1>1, <1>2, <1>6, <1>7, QuietWork DEF AttachedStages, At

LEMMA RememberRouterWorks ==
    ASSUME AttachInv, WorkInv, UNCHANGED job, NEW c \in Calls, RememberRouter(c)
    PROVE  WorkInv'
<1>1. /\ calls[c] \in CallEntry /\ calls \in [Calls -> CallEntry] /\ Step(c)
      /\ LanOf(c) \in Lans /\ lans \in [Lans -> LanEntry] /\ lans[LanOf(c)] \in LanEntry
  BY RouterCalls DEF AttachInv, AttachTypeOK, Step
<1>2. /\ At(c, "remember_router") /\ UNCHANGED <<routers, interfaces>>
      /\ Op(c) # "join_host" /\ Node(c) \in Routers
  BY CallNodes DEF RememberRouter, kernel, AttachInv, Achieved, At, RouterStages
<1>3. Works(Node(c), LanOf(c), calls[c].address)
  BY <1>2 DEF WorkInv, HasAddresses, AttachedStages, At
<1>4. ~RememberHost(c)
  BY <1>2 DEF RememberHost, At
<1>5. \A l \in Lans : /\ lans'[l].hosts = lans[l].hosts
                      /\ \A r \in Routers : lans'[l].routers[r] =
                           IF l = LanOf(c) /\ r = Node(c) THEN calls[c].address
                                                          ELSE lans[l].routers[r]
  <2>1. \A l \in Lans : lans'[l].hosts = lans[l].hosts
    BY <1>1, <1>4, RecordsKept
  <2>2. lans' = [lans EXCEPT ![LanOf(c)].routers[Node(c)] = calls[c].address]
    BY DEF RememberRouter
  <2> QED BY <1>1, <1>2, <2>1, <2>2 DEF LanEntry
<1>6. RecordsWork'
  <2>1. ASSUME NEW l \in Lans, NEW r \in Routers, lans'[l].routers[r] # None
        PROVE  Has(r, l, lans'[l].routers[r])
    BY <2>1, <1>3, <1>5 DEF WorkInv, RecordsWork, Works
  <2> QED BY <1>2, <1>5, <2>1 DEF WorkInv, RecordsWork, Works, Has, Node
<1>7. /\ calls'[c].lan = calls[c].lan /\ calls'[c].private = calls[c].private
      /\ calls'[c].address = calls[c].address
      /\ calls'[c].stage \in {"ok", "record", "public", "start_nat", "rules"}
  BY <1>1, <1>2, AfterAttachStages DEF RememberRouter, CallEntry, Goto, AttachInv
<1> QED BY <1>1, <1>2, <1>6, <1>7, QuietWork DEF AttachedStages, At

LEMMA RememberUdpNatWorks ==
    ASSUME AttachInv, WorkInv, UNCHANGED job, NEW c \in Calls, RememberUdpNat(c)
    PROVE  WorkInv'
<1> DEFINE nat == <<calls[c].private, <<LanOf(c), calls[c].address>>>>
<1>1. /\ calls[c] \in CallEntry /\ calls \in [Calls -> CallEntry] /\ Step(c)
      /\ routers \in [Routers -> RouterEntry]
  BY RouterCalls DEF AttachInv, AttachTypeOK, Step
<1>2. /\ At(c, "remember_nat") /\ UNCHANGED <<lans, interfaces>>
      /\ Op(c) # "join_host" /\ Node(c) \in Routers /\ calls[c].private # None
  BY CallNodes DEF RememberUdpNat, kernel, AttachInv, Achieved, At, RouterStages
<1>3. /\ Works(Node(c), nat[1][1], nat[1][2])
      /\ Works(Node(c), nat[2][1], nat[2][2])
  <2>1. HasAddresses(c)
    BY DEF WorkInv
  <2> QED BY <1>2, <2>1 DEF HasAddresses, AttachedStages, At
<1>4. \A r \in Routers : routers'[r].udp_nats =
        IF r = Node(c) THEN routers[r].udp_nats \cup {nat} ELSE routers[r].udp_nats
  <2> HIDE DEF nat
  <2>1. routers' = [routers EXCEPT ![Node(c)].udp_nats = @ \cup {nat}]
    BY DEF RememberUdpNat, nat
  <2> QED BY <1>1, <1>2, <2>1 DEF RouterEntry
<1>5. RecordsWork'
  <2>1. ASSUME NEW r \in Routers, NEW n \in routers'[r].udp_nats
        PROVE  Works(r, n[1][1], n[1][2])' /\ Works(r, n[2][1], n[2][2])'
    <3>1. Works(r, n[1][1], n[1][2]) /\ Works(r, n[2][1], n[2][2])
      <4>1. CASE n \in routers[r].udp_nats
        BY <4>1 DEF WorkInv, RecordsWork
      <4>2. CASE r = Node(c) /\ n = nat
        BY <4>2, <1>3
      <4> HIDE DEF nat
      <4> QED BY <2>1, <1>4, <4>1, <4>2
    <3> QED BY <3>1, <1>2 DEF Works, Has, Node
  <2> QED BY <1>2, <2>1 DEF WorkInv, RecordsWork, Has, Node
<1>6. /\ calls'[c].lan = calls[c].lan /\ calls'[c].private = calls[c].private
      /\ calls'[c].address = calls[c].address /\ calls'[c].stage = "ok"
  BY <1>1 DEF RememberUdpNat, CallEntry, Goto
<1> QED BY <1>1, <1>2, <1>5, <1>6, QuietWork DEF AttachedStages, At

\* An interface that a node has gets another beside it; no address is touched.
LEMMA AttachNodeWorks ==
    ASSUME AttachInv, WorkInv, UNCHANGED job, NEW c \in Calls, AttachNode(c)
    PROVE  WorkInv'
<1> DEFINE new == [call |-> c, lan |-> LanOf(c), address |-> None]
<1>1. /\ calls[c] \in CallEntry /\ calls \in [Calls -> CallEntry] /\ Step(c)
      /\ LanOf(c) \in Lans
  BY RouterCalls DEF AttachInv, AttachTypeOK, Step
<1>2. /\ At(c, "port") /\ UNCHANGED <<lans, routers>> /\ interfaces' = interfaces \cup {new}
  BY DEF AttachNode
<1>3. /\ calls'[c].lan = calls[c].lan /\ calls'[c].private = calls[c].private
      /\ calls'[c].stage = "allocate" /\ LanOf(c)' = LanOf(c)
  BY <1>1 DEF AttachNode, CallEntry, Goto, LanOf
<1>4. new \in InterfaceEntry /\ new.address = None
  BY <1>1 DEF InterfaceEntry
<1>5. \A node, l, a : Has(node, l, a) => Has(node, l, a)'
  BY <1>2 DEF Has, Node
<1>6. RecordsWork'
  BY <1>2, <1>5 DEF WorkInv, RecordsWork, Works
<1>7. HasAddresses(c)'
  <2>1. Node(c)' = Node(c) /\ HasAddresses(c)
    BY DEF Node, WorkInv
  <2> QED BY <1>3, <1>5, <2>1 DEF HasAddresses, Works, AttachedStages
<1>8. HasInterface(c)'
  <2>1. new \in interfaces' /\ new.call = c /\ new.lan = LanOf(c)
    BY <1>2
  <2> HIDE DEF new
  <2> QED BY <1>3, <2>1 DEF HasInterface
<1>9. ASSUME NEW i \in interfaces', i.call = c PROVE Assigned(i)'
  <2>1. CASE i \in interfaces
    BY <1>2, <1>3, <1>9, <2>1 DEF WorkInv, Assigned, At, LanOf
  <2>2. CASE i = new
    BY <1>4, <2>2 DEF Assigned
  <2> QED BY <1>2, <2>1, <2>2
<1>10. interfaces' \subseteq InterfaceEntry
  BY <1>2, <1>4 DEF WorkInv
<1>11. \A i \in interfaces' : i.call # c => i \in interfaces
  BY <1>2
<1> HIDE DEF new
<1> QED BY <1>1, <1>2, <1>5, <1>6, <1>7, <1>8, <1>9, <1>10, <1>11, OthersWork DEF Works

\* The address goes to the interface the call has made, which has none yet: no
\* interface loses the one it has.
LEMMA AddAddressWorks ==
    ASSUME AttachInv, WorkInv, UNCHANGED job, NEW c \in Calls, AddAddress(c)
    PROVE  WorkInv'
<1> DEFINE a == calls[c].address
           Mine(i) == i.call = c /\ i.lan = LanOf(c)
           To(i) == [i EXCEPT !.address = a]
<1>1. /\ calls[c] \in CallEntry /\ calls \in [Calls -> CallEntry] /\ Step(c)
      /\ LanOf(c) \in Lans
  BY RouterCalls DEF AttachInv, AttachTypeOK, Step
<1>2. /\ At(c, "assign") /\ UNCHANGED <<lans, routers>> /\ a # None
      /\ interfaces' = {IF Mine(i) THEN To(i) ELSE i : i \in interfaces}
  BY DEF AddAddress, AttachInv, Achieved, At
<1>3. /\ calls'[c].lan = calls[c].lan /\ calls'[c].private = calls[c].private
      /\ calls'[c].address = a
      /\ calls'[c].stage = "remember" /\ LanOf(c)' = LanOf(c) /\ Node(c)' = Node(c)
  BY <1>1 DEF AddAddress, CallEntry, Goto, LanOf, Node
<1>4. \A i \in interfaces :
        /\ i \in InterfaceEntry
        /\ Mine(i) => i.address = None
        /\ To(i) \in InterfaceEntry /\ To(i).call = i.call /\ To(i).lan = i.lan
        /\ To(i).address = a
  <2>1. ASSUME NEW i \in interfaces PROVE Mine(i) => i.address = None
    BY <1>2 DEF WorkInv, Assigned, At
  <2> QED BY <1>1, <2>1 DEF WorkInv, InterfaceEntry, CallEntry
<1>5. PICK mine \in interfaces : Mine(mine)
  BY <1>2 DEF WorkInv, HasInterface, At
<1> HIDE DEF a, To, Mine
<1>6. ASSUME NEW node, NEW l, NEW b, b # None, Has(node, l, b)
      PROVE  Has(node, l, b)'
  <2>1. PICK i \in interfaces : i.address = b /\ i.lan = l /\ Node(i.call) = node
    BY <1>6 DEF Has
  <2>2. i \in interfaces'
    BY <1>2, <1>4, <1>6, <2>1
  <2> QED BY <2>1, <2>2 DEF Has, Node
<1>7. Works(Node(c), LanOf(c), a)'
  <2>1. To(mine) \in interfaces'
    BY <1>2, <1>5
  <2>2. To(mine).address = a /\ To(mine).lan = LanOf(c) /\ To(mine).call = c
    BY <1>4, <1>5 DEF Mine
  <2> QED BY <1>2, <1>3, <2>1, <2>2 DEF Works, Has, a
<1>8. RecordsWork'
  BY <1>2, <1>6 DEF WorkInv, RecordsWork, Works
<1>9. HasAddresses(c)'
  <2>1. calls[c].private # None => Works(Node(c), calls[c].private[1], calls[c].private[2])
    BY DEF WorkInv, HasAddresses
  <2> QED BY <1>3, <1>6, <1>7, <2>1 DEF HasAddresses, Works, a
<1>10. HasInterface(c)'
  BY <1>3 DEF HasInterface
<1>11. ASSUME NEW i \in interfaces', i.call = c PROVE Assigned(i)'
  <2>1. CASE i.lan = LanOf(c)
    BY <1>3, <1>11, <2>1 DEF Assigned, At
  <2>2. CASE i.lan # LanOf(c)
    <3>1. i \in interfaces
      BY <1>2, <1>4, <2>2 DEF Mine
    <3> QED BY <1>3, <1>11, <2>2, <3>1 DEF WorkInv, Assigned
  <2> QED BY <2>1, <2>2
<1>12. /\ interfaces' \subseteq InterfaceEntry
       /\ \A i \in interfaces' : i.call # c => i \in interfaces
       /\ \A i \in interfaces : i.call # c => i \in interfaces'
  BY <1>2, <1>4 DEF Mine
<1> QED BY <1>1, <1>6, <1>8, <1>9, <1>10, <1>11, <1>12, OthersWork DEF Works

\* A call that finds its node known returns an address that works; one that
\* does not has no address on that LAN yet.
LEMMA StartWorks ==
    ASSUME AttachInv, WorkInv, UNCHANGED job, NEW c \in Calls, Start(c)
    PROVE  WorkInv'
<1> DEFINE at == IF Known(c) = None THEN "port"
                 ELSE IF Op(c) = "join_host" THEN "ok" ELSE AfterAttach(c)
<1>1. /\ calls[c] \in CallEntry /\ calls \in [Calls -> CallEntry] /\ Step(c)
      /\ LanOf(c) \in Lans /\ Node(c) \in Nodes
  BY RouterCalls, CallNodes DEF AttachInv, AttachTypeOK, Step, Nodes
<1>2. /\ At(c, "new") \/ At(c, "attach")
      /\ UNCHANGED <<lans, routers, interfaces>>
      /\ calls' = [calls EXCEPT ![c].address = Known(c), ![c].stage = at]
  BY DEF Start, kernel
<1>3. /\ at \in {"port", "ok", "record", "public", "start_nat", "rules"}
      /\ at # "port" <=> Known(c) # None
      /\ At(c, "attach") /\ KnownRouter(c) => at # "port"
  <2>1. At(c, "attach") => Op(c) # "join_host"
    BY DEF AttachInv, Achieved, At, RouterStages
  <2> QED BY <2>1, AfterAttachStages DEF AttachInv, Known, KnownRouter
<1> HIDE DEF at
<1>4. /\ calls'[c].lan = calls[c].lan /\ calls'[c].private = calls[c].private
      /\ calls'[c].address = Known(c) /\ calls'[c].stage = at
      /\ LanOf(c)' = LanOf(c) /\ Node(c)' = Node(c)
  BY <1>1, <1>2 DEF CallEntry, LanOf, Node
<1>5. \A node, l, a : Has(node, l, a) <=> Has(node, l, a)'
  BY <1>2 DEF Has, Node
<1>6. RecordsWork'
  BY <1>2, RecordsStillWork
<1>7. HasAddresses(c)'
  <2>1. Known(c) # None => Has(Node(c), LanOf(c), Known(c))
    BY <1>1, CallNodes DEF Known, WorkInv, RecordsWork, AttachInv
  <2>2. calls[c].private # None => Works(Node(c), calls[c].private[1], calls[c].private[2])
    BY DEF WorkInv, HasAddresses
  <2>3. at \in AttachedStages => Known(c) # None
    BY <1>3 DEF AttachedStages
  <2> QED BY <1>4, <1>5, <2>1, <2>2, <2>3 DEF HasAddresses, Works
<1>8. HasInterface(c)'
  BY <1>3, <1>4 DEF HasInterface
<1>9. ASSUME NEW i \in interfaces', i.call = c PROVE Assigned(i)'
  <2>1. Assigned(i)
    BY <1>2, <1>9 DEF WorkInv
  <2> QED BY <1>2, <1>3, <1>4, <1>9, <2>1 DEF Assigned, At
<1>10. interfaces' \subseteq InterfaceEntry
  BY <1>2 DEF WorkInv
<1> QED BY <1>1, <1>2, <1>5, <1>6, <1>7, <1>8, <1>9, <1>10, OthersWork DEF Works

\* enable_udp_nat keeps the private address and turns to the public LAN, where
\* the router has an interface with an address only if the LAN knows it.
LEMMA AttachPublicWorks ==
    ASSUME AttachInv, WorkInv, UNCHANGED job, NEW c \in Calls, AttachPublic(c)
    PROVE  WorkInv'
<1> DEFINE private == <<LanOf(c), calls[c].address>>
           public == job[c].public
<1>1. /\ calls[c] \in CallEntry /\ calls \in [Calls -> CallEntry] /\ Step(c)
      /\ LanOf(c) \in Lans
  BY RouterCalls DEF AttachInv, AttachTypeOK, Step
<1>2. /\ At(c, "public") /\ UNCHANGED <<lans, routers, interfaces>>
      /\ calls[c].private = None /\ calls[c].address # None /\ KnownRouter(c)
  BY DEF AttachPublic, kernel, AttachInv, Achieved, At
<1>3. /\ calls'[c].lan = public /\ calls'[c].private = private
      /\ calls'[c].stage = "attach"
      /\ LanOf(c)' = public /\ Node(c)' = Node(c)
  <2> HIDE DEF private, public
  <2>1. calls' = [calls EXCEPT ![c].private = private, ![c].lan = public, ![c].stage = "attach"]
    BY DEF AttachPublic, private, public
  <2> QED BY <1>1, <2>1 DEF CallEntry, LanOf, Node
<1>4. private # None
  <2>1. calls[c].address \in Addresses
    BY <1>1, <1>2 DEF CallEntry
  <2>2. private \in Lans \X Addresses
    BY <1>1, <2>1
  <2> QED BY <2>2, NoneAssumption
<1>5. \A node, l, a : Has(node, l, a) <=> Has(node, l, a)'
  BY <1>2 DEF Has, Node
<1>6. RecordsWork'
  BY <1>2, RecordsStillWork
<1>7. HasAddresses(c)'
  <2>1. Works(Node(c), private[1], private[2])
    BY <1>2 DEF WorkInv, HasAddresses, AttachedStages, At
  <2> QED BY <1>3, <1>5, <2>1 DEF HasAddresses, Works, AttachedStages
<1>8. HasInterface(c)'
  BY <1>3 DEF HasInterface
<1>9. ASSUME NEW i \in interfaces', i.call = c PROVE Assigned(i)'
  <2>1. Assigned(i)
    BY <1>2, <1>9 DEF WorkInv
  <2>2. i.lan = public /\ i.address # None => KnownRouter(c)'
    <3> SUFFICES ASSUME i.lan = public, i.address # None PROVE KnownRouter(c)'
      OBVIOUS
    <3>1. LanOf(c) = public
      BY <1>2, <1>9, <2>1 DEF Assigned
    <3> QED BY <1>2, <1>3, <3>1 DEF KnownRouter
  <2> HIDE DEF private, public
  <2> QED BY <1>3, <1>4, <1>9, <2>1, <2>2 DEF Assigned, At
<1>10. interfaces' \subseteq InterfaceEntry
  BY <1>2 DEF WorkInv
<1> QED BY <1>1, <1>2, <1>5, <1>6, <1>7, <1>8, <1>9, <1>10, OthersWork DEF Works

LEMMA NextWork == AttachInv /\ WorkInv /\ [Next]_vars => WorkInv'
<1> SUFFICES ASSUME AttachInv, WorkInv, [Next]_vars PROVE WorkInv'
  OBVIOUS
<1>1. CASE UNCHANGED vars
  BY <1>1 DEF vars, kernel, WorkInv, RecordsWork, HasAddresses, HasInterface, Assigned, Works, Has,
     Node, LanOf, At, KnownRouter
<1>2. CASE Next
  <2>1. PICK c \in Calls : Step(c)
    BY <1>2 DEF Next
  <2>2. UNCHANGED job
    BY <1>2 DEF Next
  <2> QED
    BY <2>1, <2>2, PlainStepsWork, LanStepsWork, RememberHostWorks, RememberRouterWorks,
       RememberUdpNatWorks, AttachNodeWorks, AddAddressWorks, StartWorks, AttachPublicWorks
    DEF Step
<1> QED BY <1>1, <1>2

\* The address that a join or an attach returns is on an interface of that
\* node to that LAN, and so are both addresses of a UDP NAT, whatever calls
\* overlap and wherever they fail (lan.rs:44-53, router.rs:38-49, 77-88).
THEOREM AddressesAlwaysWork == Spec => []AddressesWork
<1>1. Init => AttachInv /\ WorkInv
  BY InitAttach, InitWork
<1>2. AttachInv /\ WorkInv /\ [Next]_vars => AttachInv' /\ WorkInv'
  BY NextAttach, NextWork
<1>3. AttachInv /\ WorkInv => AddressesWork
  BY DEF WorkInv, HasAddresses, RecordsWork, Works, AddressesWork, AttachedStages, At
<1> QED BY <1>1, <1>2, <1>3, PTL DEF Spec
-----------------------------------------------------------------------------
(* The gateway reaches the hosts.  The gateway of a LAN is recorded once,  *)
(* so a default route that was installed stays right; and for each host    *)
(* the LAN knows one of three holds: it has a route, a join that found the *)
(* gateway has it to install or has failed at that, or every set_gateway   *)
(* that has recorded the gateway has the host on its list.                 *)

\* What the calls that install routes have in hand.
HasGateway(c) ==
    /\ calls[c].gateway # None =>
         Op(c) \in {"join_host", "set_gateway"} /\ calls[c].gateway = lans[LanOf(c)].gateway
    /\ calls[c].stage \in {"default_route", "host_routes"} => calls[c].gateway # None
    /\ At(c, "default_route") => Op(c) = "join_host" /\ lans[LanOf(c)].hosts[Node(c)] # None
    /\ calls[c].stage \in {"record", "host_routes"} => Op(c) = "set_gateway"
    /\ At(c, "record") => KnownRouter(c)
    /\ calls[c].stage \in {"public", "attach", "start_nat", "remember_nat"} =>
         Op(c) = "enable_udp_nat"
    /\ Op(c) = "set_gateway" /\ At(c, "ok") => calls[c].gateway # None /\ calls[c].left = {}

\* What its loop has done so far.
Routed(c) ==
    /\ calls[c].hosts # {} => Op(c) = "set_gateway"
    /\ calls[c].left \subseteq calls[c].hosts
    /\ calls[c].hosts \subseteq KnownHosts(LanOf(c))
    /\ \A h \in calls[c].hosts \ calls[c].left : default_route[h] # None

Looking(c, h, l) ==
    /\ Op(c) = "join_host" /\ Node(c) = h /\ LanOf(c) = l
    /\ calls[c].stage \in {"default_route", "error"}
    /\ calls[c].gateway # None

Reached(h, l) ==
    \/ default_route[h] # None
    \/ \E c \in Calls : Looking(c, h, l)
    \/ \A c \in Calls : Op(c) = "set_gateway" /\ LanOf(c) = l /\ calls[c].gateway # None =>
         h \in calls[c].hosts

GatewayInv ==
    /\ default_route \in [Hosts -> (Lans \X Addresses) \cup {None}]
    /\ \A h \in Hosts : default_route[h] # None => Connected(h)
    /\ \A c \in Calls : HasGateway(c) /\ Routed(c)
    /\ \A l \in Lans : \A h \in KnownHosts(l) : Reached(h, l)

LEMMA InitGateway == Init => GatewayInv
<1> SUFFICES ASSUME Init PROVE GatewayInv
  OBVIOUS
<1>1. \A c \in Calls : /\ calls[c].stage = "new" /\ calls[c].gateway = None
                       /\ calls[c].hosts = {} /\ calls[c].left = {}
  BY DEF Init
<1>2. /\ \A h \in Hosts : default_route[h] = None
      /\ default_route \in [Hosts -> (Lans \X Addresses) \cup {None}]
      /\ \A l \in Lans : KnownHosts(l) = {}
  BY DEF Init, KnownHosts
<1> QED BY <1>1, <1>2 DEF GatewayInv, HasGateway, Routed, At

\* A step of one call, given what becomes of its own progress and of the
\* default routes: the rest of the invariant follows.
LEMMA GatewayStep ==
    ASSUME AttachInv, GatewayInv, UNCHANGED job, NEW c \in Calls, Step(c),
           default_route' \in [Hosts -> (Lans \X Addresses) \cup {None}],
           \A h \in Hosts : default_route[h] # None => default_route'[h] # None,
           \A h \in Hosts : default_route'[h] # default_route[h] => Connected(h)',
           HasGateway(c)', Routed(c)',
           \A h \in Hosts, l \in Lans :
             Looking(c, h, l) => Looking(c, h, l)' \/ default_route'[h] # None,
           \/ Op(c) # "set_gateway"
           \/ calls'[c].gateway = None
           \/ /\ calls'[c].gateway = calls[c].gateway
              /\ calls'[c].hosts = calls[c].hosts /\ calls'[c].lan = calls[c].lan
           \/ calls'[c].hosts = KnownHosts(LanOf(c))',
           \A l \in Lans : \A h \in KnownHosts(l)' \ KnownHosts(l) : Reached(h, l)'
    PROVE  GatewayInv'
<1>1. /\ \A d \in Calls \ {c} : calls'[d] = calls[d] /\ LanOf(d)' = LanOf(d)
      /\ \A d \in Calls : /\ Op(d)' = Op(d) /\ Node(d)' = Node(d)
                          /\ calls[d] \in CallEntry /\ LanOf(d) \in Lans
                          /\ (Op(d) = "join_host" => Node(d) \in Hosts)
                          /\ (Op(d) # "join_host" => Node(d) \in Routers)
  BY OthersStay, RouterCalls, CallNodes DEF AttachInv, Op, Node, LanOf
<1>2. \A l \in Lans : KnownHosts(l) \subseteq KnownHosts(l)'
  BY RecordsKept DEF KnownHosts
<1>3. ASSUME NEW h \in Hosts, default_route'[h] # None PROVE Connected(h)'
  <2>1. CASE default_route'[h] # default_route[h]
    BY <2>1
  <2>2. CASE default_route'[h] = default_route[h]
    <3>1. PICK l \in Lans : /\ lans[l].hosts[h] # None /\ lans[l].gateway # None
                            /\ default_route[h] = <<l, lans[l].gateway>>
      BY <1>3, <2>2 DEF GatewayInv, Connected
    <3>2. lans'[l].hosts[h] # None /\ lans'[l].gateway = lans[l].gateway
      BY <3>1, RecordsKept
    <3> QED BY <2>2, <3>1, <3>2 DEF Connected
  <2> QED BY <2>1, <2>2
<1>4. ASSUME NEW d \in Calls \ {c} PROVE HasGateway(d)'
  <2>1. HasGateway(d)
    BY DEF GatewayInv
  <2>2. calls[d].gateway # None /\ calls[d].gateway = lans[LanOf(d)].gateway =>
          calls[d].gateway = lans'[LanOf(d)].gateway
    BY <1>1, RecordsKept
  <2>3. /\ Op(d) = "join_host" /\ lans[LanOf(d)].hosts[Node(d)] # None =>
             lans'[LanOf(d)].hosts[Node(d)] # None
        /\ At(d, "record") /\ KnownRouter(d) => KnownRouter(d)'
    <3>1. At(d, "record") => Op(d) # "join_host"
      BY DEF AttachInv, Achieved, RouterStages, At
    <3> QED BY <1>1, <3>1, RecordsKept DEF KnownRouter
  <2> QED BY <1>1, <2>1, <2>2, <2>3 DEF HasGateway, At
<1>5. ASSUME NEW d \in Calls \ {c} PROVE Routed(d)'
  <2>1. Routed(d) /\ calls[d].hosts \subseteq Hosts
    BY <1>1 DEF GatewayInv, CallEntry
  <2> QED BY <1>1, <1>2, <2>1 DEF Routed
<1>6. ASSUME NEW l \in Lans, NEW h \in KnownHosts(l)' PROVE Reached(h, l)'
  <2>1. CASE h \notin KnownHosts(l)
    BY <2>1
  <2>2. CASE h \in KnownHosts(l)
    <3>1. h \in Hosts /\ Reached(h, l)
      BY <2>2 DEF GatewayInv, KnownHosts
    <3>2. CASE default_route[h] # None
      BY <3>1, <3>2 DEF Reached
    <3>3. CASE \E d \in Calls : Looking(d, h, l)
      <4>1. PICK d \in Calls : Looking(d, h, l)
        BY <3>3
      <4>2. d # c => Looking(d, h, l)'
        BY <1>1, <4>1 DEF Looking
      <4> QED BY <3>1, <4>1, <4>2 DEF Reached
    <3>4. CASE \A d \in Calls : Op(d) = "set_gateway" /\ LanOf(d) = l /\ calls[d].gateway # None =>
                 h \in calls[d].hosts
      <4>1. ASSUME NEW d \in Calls, Op(d)' = "set_gateway", LanOf(d)' = l,
                   calls'[d].gateway # None
            PROVE  h \in calls'[d].hosts
        <5>1. CASE d # c
          BY <1>1, <3>4, <4>1, <5>1
        <5>2. CASE d = c
          <6>1. CASE calls'[c].hosts = KnownHosts(LanOf(c))'
            <7>1. KnownHosts(LanOf(c))' = KnownHosts(l)'
              BY <4>1, <5>2
            <7> QED BY <5>2, <6>1, <7>1
          <6>2. CASE /\ calls'[c].gateway = calls[c].gateway
                     /\ calls'[c].hosts = calls[c].hosts /\ calls'[c].lan = calls[c].lan
            BY <3>4, <4>1, <5>2, <6>2, <1>1 DEF LanOf
          <6> QED BY <1>1, <4>1, <5>2, <6>1, <6>2
        <5> QED BY <5>1, <5>2
      <4> QED BY <4>1 DEF Reached
    <3> QED BY <3>1, <3>2, <3>3, <3>4 DEF Reached
  <2> QED BY <2>1, <2>2
<1> QED BY <1>3, <1>4, <1>5, <1>6 DEF GatewayInv

LEMMA AfterAttachOps ==
    ASSUME AttachTypeOK, NEW c \in Calls, Op(c) # "join_host"
    PROVE  /\ AfterAttach(c) = "ok" => Op(c) = "attach"
           /\ AfterAttach(c) = "record" => Op(c) = "set_gateway"
           /\ AfterAttach(c) \in {"public", "start_nat"} => Op(c) = "enable_udp_nat"
<1>1. Op(c) \in Ops
  BY RouterCalls DEF Op
<1>2. CASE Op(c) = "attach"
  BY <1>2 DEF AfterAttach
<1>3. CASE Op(c) = "set_gateway"
  BY <1>3 DEF AfterAttach
<1>4. CASE Op(c) = "enable_udp_nat"
  BY <1>4 DEF AfterAttach
<1>5. CASE Op(c) = "enable_masquerade"
  BY <1>5 DEF AfterAttach
<1> QED BY <1>1, <1>2, <1>3, <1>4, <1>5 DEF Ops

\* A step that installs no route, records neither a host nor a gateway, and
\* goes on to no stage of installing routes.
LEMMA QuietGateway ==
    ASSUME AttachInv, GatewayInv, UNCHANGED <<job, default_route>>, NEW c \in Calls, Step(c),
           ~RememberHost(c), ~RecordGateway(c),
           calls'[c].gateway = calls[c].gateway, calls'[c].hosts = calls[c].hosts,
           calls'[c].left = calls[c].left,
           calls'[c].lan = calls[c].lan \/ Op(c) = "enable_udp_nat",
           ~At(c, "error"), At(c, "default_route") => calls'[c].stage = "error",
           calls'[c].stage \notin {"default_route", "host_routes"},
           calls'[c].stage = "record" => Op(c) = "set_gateway" /\ KnownRouter(c)',
           calls'[c].stage \in {"public", "attach", "start_nat", "remember_nat"} =>
             Op(c) = "enable_udp_nat",
           calls'[c].stage = "ok" /\ Op(c) = "set_gateway" =>
             At(c, "host_routes") /\ calls[c].left = {}
    PROVE  GatewayInv'
<1>1. /\ calls[c] \in CallEntry /\ LanOf(c) \in Lans /\ Op(c)' = Op(c) /\ Node(c)' = Node(c)
      /\ HasGateway(c) /\ Routed(c)
      /\ calls'[c].lan = calls[c].lan => LanOf(c)' = LanOf(c)
  BY RouterCalls DEF AttachInv, Op, Node, LanOf, GatewayInv
<1>2. \A l \in Lans : /\ lans'[l].hosts = lans[l].hosts /\ KnownHosts(l)' = KnownHosts(l)
                      /\ lans'[l].gateway = lans[l].gateway
  BY RecordsKept DEF KnownHosts
<1>3. Op(c) = "enable_udp_nat" => calls[c].gateway = None /\ calls[c].hosts = {}
  BY <1>1 DEF HasGateway, Routed
<1>4. HasGateway(c)'
  BY <1>1, <1>2, <1>3 DEF HasGateway, At
<1>5. Routed(c)'
  BY <1>1, <1>2, <1>3 DEF Routed
<1>6. \A h \in Hosts, l \in Lans : Looking(c, h, l) => Looking(c, h, l)'
  BY <1>1, <1>3 DEF Looking, At
<1>7. /\ default_route' \in [Hosts -> (Lans \X Addresses) \cup {None}]
      /\ \A l \in Lans : KnownHosts(l)' \ KnownHosts(l) = {}
  BY <1>2 DEF GatewayInv
<1> QED BY <1>1, <1>3, <1>4, <1>5, <1>6, <1>7, GatewayStep

LEMMA QuietStepsGateway ==
    ASSUME AttachInv, AttachInv', GatewayInv, UNCHANGED job, NEW c \in Calls,
           \/ Start(c) \/ AttachNode(c) \/ AllocateAddress(c) \/ AddAddress(c)
           \/ RememberLan(c) \/ RememberRouter(c) \/ AllRouted(c)
           \/ MasqueradeRules(c) \/ ApplyMasquerade(c) \/ RememberMasqueradeLan(c)
           \/ AttachPublic(c) \/ StartNat(c) \/ RememberUdpNat(c) \/ Fail(c)
    PROVE  GatewayInv'
<1>1. /\ calls[c] \in CallEntry /\ calls \in [Calls -> CallEntry] /\ Step(c)
      /\ HasGateway(c) /\ Op(c)' = Op(c) /\ LanOf(c) \in Lans
  BY RouterCalls DEF AttachInv, AttachTypeOK, Step, GatewayInv, Op
<1>2. UNCHANGED default_route
  BY DEF Start, AttachNode, AllocateAddress, AddAddress, RememberLan, RememberRouter, AllRouted,
     MasqueradeRules, ApplyMasquerade, RememberMasqueradeLan, AttachPublic, StartNat,
     RememberUdpNat, Fail, kernel
<1>3. CASE Start(c)
  <2> DEFINE at == IF Known(c) = None THEN "port"
                   ELSE IF Op(c) = "join_host" THEN "ok" ELSE AfterAttach(c)
  <2>1. /\ At(c, "new") \/ At(c, "attach")
        /\ calls' = [calls EXCEPT ![c].address = Known(c), ![c].stage = at]
        /\ UNCHANGED lans
    BY <1>3 DEF Start
  <2>2. /\ at \in {"port", "ok", "record", "public", "start_nat", "rules"}
        /\ at = "ok" => Op(c) # "set_gateway"
        /\ at = "record" => Op(c) = "set_gateway" /\ KnownRouter(c)
        /\ at \in {"public", "start_nat"} => Op(c) = "enable_udp_nat"
    BY AfterAttachStages, AfterAttachOps DEF AttachInv, Known, KnownRouter
  <2> HIDE DEF at
  <2>3. /\ calls'[c].lan = calls[c].lan /\ calls'[c].gateway = calls[c].gateway
        /\ calls'[c].hosts = calls[c].hosts /\ calls'[c].left = calls[c].left
        /\ calls'[c].stage = at
        /\ KnownRouter(c)' = KnownRouter(c)
    BY <1>1, <2>1 DEF CallEntry, KnownRouter, LanOf, Node
  <2> QED
    BY <1>1, <1>2, <2>1, <2>2, <2>3, QuietGateway DEF At, RememberHost, RecordGateway
<1>4. CASE AllocateAddress(c)
  <2>1. At(c, "allocate") /\ ~RememberHost(c) /\ ~RecordGateway(c)
    BY <1>4 DEF AllocateAddress, RememberHost, RecordGateway, At
  <2>2. /\ calls'[c].lan = calls[c].lan /\ calls'[c].gateway = calls[c].gateway
        /\ calls'[c].hosts = calls[c].hosts /\ calls'[c].left = calls[c].left
        /\ calls'[c].stage \in {"assign", "error"}
    BY <1>1, <1>4 DEF AllocateAddress, AfterAllocation, Goto, CallEntry
  <2> QED BY <1>1, <1>2, <2>1, <2>2, QuietGateway DEF At
<1>5. CASE RememberRouter(c)
  <2>1. /\ At(c, "remember_router") /\ Op(c) # "join_host"
        /\ calls' = [calls EXCEPT ![c].stage = AfterAttach(c)]
    BY <1>5 DEF RememberRouter, Goto, AttachInv, Achieved, At, RouterStages
  <2>2. /\ AfterAttach(c) \in {"ok", "record", "public", "start_nat", "rules"}
        /\ AfterAttach(c) = "ok" => Op(c) # "set_gateway"
        /\ AfterAttach(c) = "record" => Op(c) = "set_gateway"
        /\ AfterAttach(c) \in {"public", "start_nat"} => Op(c) = "enable_udp_nat"
    BY <2>1, AfterAttachStages, AfterAttachOps DEF AttachInv
  <2>3. /\ calls'[c].lan = calls[c].lan /\ calls'[c].gateway = calls[c].gateway
        /\ calls'[c].hosts = calls[c].hosts /\ calls'[c].left = calls[c].left
        /\ calls'[c].stage = AfterAttach(c)
    BY <1>1, <2>1 DEF CallEntry
  <2>4. KnownRouter(c)'
    <3>1. calls[c].address # None
      BY <2>1 DEF AttachInv, Achieved, At
    <3>2. Node(c) \in Routers /\ lans \in [Lans -> LanEntry]
      BY <2>1, CallNodes DEF AttachInv, AttachTypeOK
    <3>3. lans' = [lans EXCEPT ![LanOf(c)].routers[Node(c)] = calls[c].address]
      BY <1>5 DEF RememberRouter
    <3>4. LanOf(c)' = LanOf(c) /\ Node(c)' = Node(c)
      BY <2>3 DEF LanOf, Node
    <3> QED BY <1>1, <3>1, <3>2, <3>3, <3>4 DEF KnownRouter, LanEntry
  <2> QED
    BY <1>1, <1>2, <2>1, <2>2, <2>3, <2>4, QuietGateway DEF At, RememberHost, RecordGateway
<1>6. CASE AttachPublic(c)
  BY <1>1, <1>2, <1>6, QuietGateway
  DEF AttachPublic, CallEntry, At, RememberHost, RecordGateway, HasGateway
<1>7. CASE \/ AttachNode(c) \/ AddAddress(c) \/ RememberLan(c) \/ AllRouted(c) \/ StartNat(c)
           \/ MasqueradeRules(c) \/ ApplyMasquerade(c) \/ RememberMasqueradeLan(c)
           \/ RememberUdpNat(c) \/ Fail(c)
  <2>1. /\ ~At(c, "error") /\ ~RememberHost(c) /\ ~RecordGateway(c)
        /\ At(c, "default_route") => Fail(c)
    <3>1. CASE AttachNode(c) \/ AddAddress(c) \/ RememberLan(c) \/ AllRouted(c) \/ StartNat(c)
      BY <3>1 DEF AttachNode, AddAddress, RememberLan, AllRouted, StartNat, At, RememberHost,
         RecordGateway
    <3>2. CASE MasqueradeRules(c) \/ ApplyMasquerade(c) \/ RememberMasqueradeLan(c)
                 \/ RememberUdpNat(c)
      BY <3>2 DEF MasqueradeRules, ApplyMasquerade, RememberMasqueradeLan, RememberUdpNat, At,
         RememberHost, RecordGateway
    <3>3. CASE Fail(c)
      BY <3>3 DEF Fail, Awaits, At, RememberHost, RecordGateway
    <3> QED BY <1>7, <3>1, <3>2, <3>3
  <2>2. PICK at \in {"allocate", "remember", "remember_router", "ok", "remember_nat", "nft",
                     "remember_masquerade", "error"} :
          /\ \/ calls' = [calls EXCEPT ![c].stage = at]
             \/ calls' = [calls EXCEPT ![c].rules = RulesWith(c), ![c].stage = at]
          /\ Fail(c) => at = "error"
          /\ at = "remember_nat" => At(c, "start_nat")
          /\ at = "ok" /\ Op(c) = "set_gateway" => At(c, "host_routes") /\ calls[c].left = {}
    <3>1. CASE AttachNode(c) \/ AddAddress(c) \/ RememberLan(c) \/ AllRouted(c) \/ StartNat(c)
      BY <3>1 DEF AttachNode, AddAddress, RememberLan, AllRouted, StartNat, At, Goto, Fail, Awaits
    <3>2. CASE MasqueradeRules(c) \/ ApplyMasquerade(c)
      BY <3>2 DEF MasqueradeRules, ApplyMasquerade, At, Goto, Fail, Awaits
    <3>3. CASE RememberMasqueradeLan(c)
      BY <3>3 DEF RememberMasqueradeLan, At, Goto, Fail, Awaits, AttachInv, Achieved
    <3>4. CASE RememberUdpNat(c)
      BY <1>1, <3>4 DEF RememberUdpNat, At, Goto, Fail, Awaits, HasGateway
    <3>5. CASE Fail(c)
      BY <3>5 DEF Fail, Goto
    <3> QED BY <1>7, <3>1, <3>2, <3>3, <3>4, <3>5
  <2>3. /\ calls'[c].lan = calls[c].lan /\ calls'[c].gateway = calls[c].gateway
        /\ calls'[c].hosts = calls[c].hosts /\ calls'[c].left = calls[c].left
        /\ calls'[c].stage = at
    BY <1>1, <2>2 DEF CallEntry
  <2>4. At(c, "start_nat") => Op(c) = "enable_udp_nat"
    BY <1>1 DEF HasGateway, At
  <2> QED BY <1>1, <1>2, <2>1, <2>2, <2>3, <2>4, QuietGateway
<1> QED BY <1>3, <1>4, <1>5, <1>6, <1>7

\* A route that a join or a set_gateway installs is that of the gateway.
LEMMA RouteStepsGateway ==
    ASSUME AttachInv, GatewayInv, UNCHANGED job, NEW c \in Calls,
           DefaultRoute(c) \/ \E h \in Hosts : HostRoute(c, h)
    PROVE  GatewayInv'
<1> DEFINE route == <<LanOf(c), calls[c].gateway>>
<1>1. /\ calls[c] \in CallEntry /\ calls \in [Calls -> CallEntry] /\ Step(c)
      /\ HasGateway(c) /\ Routed(c) /\ Op(c)' = Op(c) /\ Node(c)' = Node(c) /\ LanOf(c) \in Lans
      /\ default_route \in [Hosts -> (Lans \X Addresses) \cup {None}]
  BY RouterCalls DEF AttachInv, AttachTypeOK, Step, GatewayInv, Op, Node
<1>2. PICK host \in Hosts :
        /\ default_route' = [default_route EXCEPT ![host] = route]
        /\ lans[LanOf(c)].hosts[host] # None
        /\ \/ /\ At(c, "default_route") /\ Op(c) = "join_host" /\ host = Node(c)
              /\ calls' = [calls EXCEPT ![c].stage = "ok"]
           \/ /\ At(c, "host_routes") /\ Op(c) = "set_gateway" /\ host \in calls[c].left
              /\ calls' = [calls EXCEPT ![c].left = @ \ {host}]
        /\ UNCHANGED lans
  <2>1. CASE DefaultRoute(c)
    BY <2>1, <1>1, CallNodes DEF DefaultRoute, Goto, HasGateway, AttachInv, At
  <2>2. ASSUME NEW h \in Hosts, HostRoute(c, h)
        PROVE  /\ default_route' = [default_route EXCEPT ![h] = route]
               /\ lans[LanOf(c)].hosts[h] # None
               /\ At(c, "host_routes") /\ Op(c) = "set_gateway" /\ h \in calls[c].left
               /\ calls' = [calls EXCEPT ![c].left = @ \ {h}]
               /\ UNCHANGED lans
    BY <2>2, <1>1 DEF HostRoute, HasGateway, Routed, KnownHosts, At
  <2> QED BY <2>1, <2>2
<1>3. /\ calls[c].gateway # None /\ calls[c].gateway = lans[LanOf(c)].gateway
      /\ calls[c].gateway \in Addresses
  BY <1>1, <1>2 DEF HasGateway, CallEntry, At
<1>4. route \in Lans \X Addresses /\ route # None
  <2>1. route \in Lans \X Addresses
    BY <1>1, <1>3
  <2> QED BY <2>1, NoneAssumption
<1>5. /\ default_route' \in [Hosts -> (Lans \X Addresses) \cup {None}]
      /\ default_route'[host] = route
      /\ \A h \in Hosts \ {host} : default_route'[h] = default_route[h]
  <2> HIDE DEF route
  <2> QED BY <1>1, <1>2, <1>4
<1>6. Connected(host)'
  BY <1>1, <1>2, <1>3, <1>5 DEF Connected
<1>7. /\ calls'[c].gateway = calls[c].gateway /\ calls'[c].hosts = calls[c].hosts
      /\ calls'[c].lan = calls[c].lan /\ LanOf(c)' = LanOf(c)
      /\ \/ /\ Op(c) = "join_host" /\ host = Node(c)
            /\ calls'[c].stage = "ok" /\ calls'[c].left = calls[c].left
         \/ /\ Op(c) = "set_gateway" /\ calls'[c].stage = "host_routes"
            /\ calls'[c].left = calls[c].left \ {host}
  BY <1>1, <1>2 DEF CallEntry, LanOf, At
<1>8. HasGateway(c)'
  BY <1>1, <1>2, <1>3, <1>7 DEF HasGateway, At
<1>9. Routed(c)'
  <2>1. KnownHosts(LanOf(c))' = KnownHosts(LanOf(c))
    BY <1>2, <1>7 DEF KnownHosts
  <2>2. calls[c].hosts \subseteq Hosts
    BY <1>1 DEF CallEntry
  <2> HIDE DEF route
  <2> QED BY <1>1, <1>4, <1>5, <1>7, <2>1, <2>2 DEF Routed
<1>10. \A h \in Hosts, l \in Lans : Looking(c, h, l) => default_route'[h] # None
  BY <1>2, <1>4, <1>5 DEF Looking, At
<1>11. \A l \in Lans : KnownHosts(l)' \ KnownHosts(l) = {}
  BY <1>2 DEF KnownHosts
<1> HIDE DEF route
<1> QED BY <1>1, <1>4, <1>5, <1>6, <1>7, <1>8, <1>9, <1>10, <1>11, GatewayStep

\* A host that is recorded after the gateway is its join's to connect; before,
\* it is on the list of whoever records the gateway.
LEMMA RememberHostGateway ==
    ASSUME AttachInv, GatewayInv, UNCHANGED job, NEW c \in Calls, RememberHost(c)
    PROVE  GatewayInv'
<1> DEFINE gateway == lans[LanOf(c)].gateway
           at == IF gateway = None THEN "ok" ELSE "default_route"
<1>1. /\ calls[c] \in CallEntry /\ calls \in [Calls -> CallEntry] /\ Step(c)
      /\ HasGateway(c) /\ Routed(c) /\ Op(c)' = Op(c) /\ Node(c)' = Node(c) /\ LanOf(c) \in Lans
      /\ lans \in [Lans -> LanEntry] /\ Node(c) \in Hosts
      /\ default_route \in [Hosts -> (Lans \X Addresses) \cup {None}]
  BY RouterCalls, CallNodes
  DEF AttachInv, AttachTypeOK, Step, GatewayInv, Op, Node, RememberHost
<1>2. /\ At(c, "remember") /\ Op(c) = "join_host" /\ UNCHANGED default_route
      /\ lans' = [lans EXCEPT ![LanOf(c)].hosts[Node(c)] = calls[c].address]
      /\ calls' = [calls EXCEPT ![c].gateway = gateway, ![c].stage = at]
      /\ calls[c].address # None
  BY DEF RememberHost, kernel, AttachInv, Achieved, At
<1>3. /\ calls'[c].gateway = gateway /\ calls'[c].stage = at
      /\ calls'[c].hosts = calls[c].hosts /\ calls'[c].left = calls[c].left
      /\ LanOf(c)' = LanOf(c)
  <2> HIDE DEF gateway, at
  <2> QED BY <1>1, <1>2 DEF CallEntry, LanOf
<1>4. /\ \A l \in Lans : lans'[l].gateway = lans[l].gateway
      /\ lans'[LanOf(c)].hosts[Node(c)] # None
      /\ \A l \in Lans, h \in Hosts : l # LanOf(c) \/ h # Node(c) =>
           lans'[l].hosts[h] = lans[l].hosts[h]
  BY <1>1, <1>2 DEF LanEntry
<1>5. HasGateway(c)'
  BY <1>1, <1>2, <1>3, <1>4 DEF HasGateway, At
<1>6. Routed(c)'
  <2>1. calls[c].hosts = {}
    BY <1>1, <1>2 DEF Routed
  <2> QED BY <1>1, <1>3, <2>1 DEF Routed
<1>7. ASSUME NEW l \in Lans, NEW h \in KnownHosts(l)' \ KnownHosts(l) PROVE Reached(h, l)'
  <2>1. l = LanOf(c) /\ h = Node(c)
    BY <1>4 DEF KnownHosts
  <2>2. CASE gateway = None
    <3>1. ASSUME NEW d \in Calls, Op(d)' = "set_gateway", LanOf(d)' = l, calls'[d].gateway # None
          PROVE  FALSE
      <4>1. d # c /\ calls'[d] = calls[d]
        BY <1>1, <1>2, <3>1, OthersStay DEF AttachInv
      <4>2. HasGateway(d) /\ LanOf(d) = l /\ calls[d].gateway # None
        BY <3>1, <4>1 DEF GatewayInv, LanOf
      <4> QED BY <2>1, <2>2, <4>2 DEF HasGateway
    <3> QED BY <3>1 DEF Reached
  <2>3. CASE gateway # None
    <3>1. Looking(c, h, l)'
      BY <1>1, <1>2, <1>3, <2>1, <2>3 DEF Looking
    <3> QED BY <3>1 DEF Reached
  <2> QED BY <2>2, <2>3
<1>8. \A h \in Hosts, l \in Lans : ~Looking(c, h, l)
  BY <1>2 DEF Looking, At
<1> HIDE DEF gateway, at
<1> QED BY <1>1, <1>2, <1>5, <1>6, <1>7, <1>8, GatewayStep

LEMMA RecordGatewayGateway ==
    ASSUME AttachInv, GatewayInv, UNCHANGED job, NEW c \in Calls, RecordGateway(c)
    PROVE  GatewayInv'
<1> DEFINE l == LanOf(c)
           a == lans[l].routers[Node(c)]
<1>1. /\ calls[c] \in CallEntry /\ calls \in [Calls -> CallEntry] /\ Step(c)
      /\ HasGateway(c) /\ Routed(c) /\ Op(c)' = Op(c) /\ Node(c)' = Node(c) /\ l \in Lans
      /\ lans \in [Lans -> LanEntry]
      /\ default_route \in [Hosts -> (Lans \X Addresses) \cup {None}]
  BY RouterCalls DEF AttachInv, AttachTypeOK, Step, GatewayInv, Op, Node
<1>2. /\ At(c, "record") /\ UNCHANGED default_route /\ Op(c) = "set_gateway" /\ a # None
      /\ ~RememberHost(c)
  BY <1>1 DEF RecordGateway, kernel, HasGateway, KnownRouter, At, RememberHost
<1>3. \A m \in Lans : lans'[m].hosts = lans[m].hosts /\ KnownHosts(m)' = KnownHosts(m)
  BY <1>1, <1>2, RecordsKept DEF KnownHosts
<1>4. \A h \in Hosts, m \in Lans : ~Looking(c, h, m)
  BY <1>2 DEF Looking, At
<1>5. CASE calls' = [calls EXCEPT ![c].stage = "error"] /\ UNCHANGED lans
  <2>1. /\ calls'[c].gateway = calls[c].gateway /\ calls'[c].lan = calls[c].lan
        /\ calls'[c].hosts = calls[c].hosts /\ calls'[c].left = calls[c].left
        /\ calls'[c].stage = "error" /\ LanOf(c)' = l
    BY <1>1, <1>5 DEF CallEntry, LanOf
  <2>2. HasGateway(c)'
    BY <1>1, <1>5, <2>1 DEF HasGateway, At
  <2>3. Routed(c)'
    BY <1>1, <1>2, <1>3, <2>1 DEF Routed
  <2> HIDE DEF l
  <2> QED BY <1>1, <1>2, <1>3, <1>4, <2>1, <2>2, <2>3, GatewayStep
<1>6. CASE /\ lans' = [lans EXCEPT ![l].gateway = a]
           /\ calls' = [calls EXCEPT ![c].gateway = a, ![c].stage = "host_routes",
                                     ![c].hosts = KnownHosts(l), ![c].left = KnownHosts(l)]
  <2>1. /\ calls'[c].gateway = a /\ calls'[c].stage = "host_routes"
        /\ calls'[c].hosts = KnownHosts(l) /\ calls'[c].left = KnownHosts(l)
        /\ LanOf(c)' = l /\ lans'[l].gateway = a
    <3> HIDE DEF l, a
    <3> QED BY <1>1, <1>6 DEF CallEntry, LanEntry, LanOf, l
  <2> HIDE DEF a
  <2>2. HasGateway(c)'
    BY <1>1, <1>2, <2>1 DEF HasGateway, At
  <2>3. Routed(c)' /\ calls'[c].hosts = KnownHosts(LanOf(c))'
    <3>1. KnownHosts(LanOf(c))' = KnownHosts(l)
      BY <1>1, <1>3, <2>1 DEF KnownHosts
    <3> QED BY <1>1, <1>2, <2>1, <3>1 DEF Routed
  <2> HIDE DEF l
  <2> QED BY <1>1, <1>2, <1>3, <1>4, <2>2, <2>3, GatewayStep
<1> QED BY <1>5, <1>6 DEF RecordGateway, Goto

LEMMA NextGateway == AttachInv /\ GatewayInv /\ [Next]_vars => GatewayInv'
<1> SUFFICES ASSUME AttachInv, GatewayInv, [Next]_vars PROVE GatewayInv'
  OBVIOUS
<1>1. CASE UNCHANGED vars
  BY <1>1 DEF vars, kernel, GatewayInv, Connected, HasGateway, Routed, KnownHosts, Reached, Looking,
     Node, Op, LanOf, At, KnownRouter
<1>2. CASE Next
  <2>1. PICK c \in Calls : Step(c)
    BY <1>2 DEF Next
  <2>2. UNCHANGED job /\ AttachInv'
    BY <1>2, NextAttach DEF Next
  <2> QED
    BY <2>1, <2>2, QuietStepsGateway, RouteStepsGateway, RememberHostGateway,
       RecordGatewayGateway
    DEF Step
<1> QED BY <1>1, <1>2

\* A join and a set_gateway that overlap do not miss each other: once no call
\* is in progress and a set_gateway has returned, every host the LAN knows has
\* the default route, or the join that found the gateway has failed to install
\* it after every set_gateway's list was made (lan.rs:53-55, 93-114).
THEOREM GatewayAlwaysReachesHosts == Spec => []GatewayReachesHosts
<1>1. Init => AttachInv /\ GatewayInv
  BY InitAttach, InitGateway
<1>2. AttachInv /\ GatewayInv /\ [Next]_vars => AttachInv' /\ GatewayInv'
  BY NextAttach, NextGateway
<1>3. GatewayInv => GatewayReachesHosts
  <2> SUFFICES ASSUME GatewayInv, \A c \in Calls : ~Running(c),
                      NEW l \in Lans, NEW h \in KnownHosts(l), Returned("set_gateway", l) # {},
                      ~Connected(h)
               PROVE  /\ LeftUnrouted(h, l)
                      /\ \A c \in Returned("set_gateway", l) : h \notin calls[c].hosts
    BY DEF GatewayReachesHosts
  <2>1. h \in Hosts /\ default_route[h] = None
    BY DEF KnownHosts, GatewayInv
  <2>2. ASSUME NEW c \in Returned("set_gateway", l) PROVE h \notin calls[c].hosts
    <3>1. HasGateway(c) /\ Routed(c) /\ Op(c) = "set_gateway" /\ At(c, "ok")
      BY DEF Returned, GatewayInv
    <3> QED BY <2>1, <3>1 DEF HasGateway, Routed
  <2>3. PICK c \in Returned("set_gateway", l) : TRUE
    OBVIOUS
  <2>4. /\ c \in Calls /\ Op(c) = "set_gateway" /\ LanOf(c) = l
        /\ calls[c].gateway # None /\ h \notin calls[c].hosts
    BY <2>2 DEF Returned, GatewayInv, HasGateway
  <2>5. PICK d \in Calls : Looking(d, h, l)
    BY <2>1, <2>4 DEF GatewayInv, Reached
  <2>6. At(d, "error")
    BY <2>5 DEF Looking, Running, At
  <2> QED BY <2>2, <2>5, <2>6 DEF LeftUnrouted, Looking
<1> QED BY <1>1, <1>2, <1>3, PTL DEF Spec
=============================================================================
