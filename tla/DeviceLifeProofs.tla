-------------------------- MODULE DeviceLifeProofs --------------------------
(***************************************************************************)
(* Proofs about what devices take from their host, for any number of       *)
(* callers, any names and ports, and any number of faults and deletions.   *)
(*                                                                         *)
(* The invariant that carries them says what each stage of start holds,    *)
(* and that an index which a late deletion still names is of no device     *)
(* that has, or is about to have, the route.                               *)
(***************************************************************************)
EXTENDS DeviceLife, TLAPS

Stages == {"out", "register", "tun", "route", "bind", "probe", "running", "dropped"}

LifeTypeOK ==
    /\ stage \in [Callers -> Stages]
    /\ index \in [Callers -> Nat]
    /\ holders \in [Callers -> SUBSET (Tasks \cup {Owner})]
    /\ routes \subseteq Nat
    /\ deleting \subseteq Nat

\* What a caller holds in each stage.
StagesHold ==
    \A c \in Callers :
      /\ stage[c] \in {"out", "register", "tun"} => index[c] = 0 /\ holders[c] = {}
      /\ stage[c] \in {"route", "bind"} => index[c] # 0 /\ holders[c] = {}
      /\ stage[c] = "probe" => index[c] # 0 /\ holders[c] = {Owner}
      /\ stage[c] = "running" => index[c] # 0 /\ Owner \in holders[c]
      /\ stage[c] = "dropped" =>
           Owner \notin holders[c] /\ (index[c] = 0 => holders[c] = {})

\* Interfaces differ in index and name, sockets in port.
NothingShared ==
    \A c, d \in Callers : c # d =>
      /\ index[c] # 0 /\ index[d] # 0 => index[c] # index[d] /\ Name[c] # Name[d]
      /\ holders[c] # {} /\ holders[d] # {} => Port[c] # Port[d]

Routed(c) == stage[c] \in {"bind", "probe", "running"}

\* Only interfaces that exist have routes; whoever got past add_route has the
\* only one, and no pending deletion names it or the one about to be added.
RouteKept ==
    /\ \A i \in routes : i # 0
    /\ 0 \notin deleting
    /\ \A c \in Callers :
         /\ Routed(c) => routes = {index[c]}
         /\ Routed(c) \/ stage[c] = "route" => index[c] \notin deleting

LifeInv == LifeTypeOK /\ StagesHold /\ NothingShared /\ RouteKept
-----------------------------------------------------------------------------
LEMMA InitLife == Init => LifeInv
<1> SUFFICES ASSUME Init PROVE LifeInv
  OBVIOUS
<1> QED
  BY DEF Init, LifeInv, LifeTypeOK, Stages, StagesHold, NothingShared, RouteKept, Routed,
         Tasks, Owner

LEMMA InvConnects == LifeInv => RunningConnected
<1> SUFFICES ASSUME LifeInv, NEW c \in Callers, stage[c] = "running"
             PROVE  /\ routes = {index[c]}
                    /\ \A d \in Callers \ {c} :
                         /\ index[d] # 0 => Name[d] # Name[c]
                         /\ holders[d] # {} => Port[d] # Port[c]
  BY DEF RunningConnected
<1>1. routes = {index[c]} /\ index[c] # 0 /\ holders[c] # {}
  BY DEF LifeInv, RouteKept, Routed, StagesHold
<1> QED BY <1>1 DEF LifeInv, NothingShared

\* A step of start that only changes the stage.
LEMMA WaitPreserves ==
    ASSUME LifeInv, NEW c \in Callers,
           Start(c) \/ Register(c) \/ RegisterFails(c) \/ OpenTunFails(c)
    PROVE  LifeInv'
<1>1. /\ stage[c] \in {"out", "register", "tun"}
      /\ \E at \in {"out", "register", "tun"} : stage' = [stage EXCEPT ![c] = at]
      /\ UNCHANGED <<index, holders, routes, deleting>>
  BY DEF Start, Register, RegisterFails, OpenTunFails, Goes
<1>2. LifeTypeOK' /\ StagesHold' /\ NothingShared'
  BY <1>1 DEF LifeInv, LifeTypeOK, Stages, StagesHold, NothingShared
<1>3. RouteKept'
  BY <1>1 DEF LifeInv, LifeTypeOK, Stages, RouteKept, Routed
<1> QED BY <1>2, <1>3 DEF LifeInv

LEMMA OpenTunPreserves ==
    ASSUME LifeInv, NEW c \in Callers, OpenTun(c)
    PROVE  LifeInv'
<1>1. PICK i \in Indexes : FreshIndex(i) /\ index' = [index EXCEPT ![c] = i]
  BY DEF OpenTun
<1>2. /\ stage[c] = "tun" /\ stage' = [stage EXCEPT ![c] = "route"] /\ NameFree(c)
      /\ UNCHANGED <<holders, routes, deleting>>
  BY DEF OpenTun, Goes
<1>3. i \in Nat \ {0} /\ i \notin deleting /\ \A d \in Callers : index[d] # i
  BY <1>1 DEF Indexes, FreshIndex, Unused
<1>4. index'[c] = i /\ \A d \in Callers \ {c} : index'[d] = index[d] /\ stage'[d] = stage[d]
  BY <1>1, <1>2 DEF LifeInv, LifeTypeOK
<1>5. LifeTypeOK'
  BY <1>1, <1>2, <1>3 DEF LifeInv, LifeTypeOK, Stages
<1>6. StagesHold'
  BY <1>2, <1>3, <1>4 DEF LifeInv, LifeTypeOK, StagesHold
<1>7. NothingShared'
  BY <1>2, <1>3, <1>4 DEF LifeInv, LifeTypeOK, NothingShared, NameFree
<1>8. RouteKept'
  BY <1>2, <1>3, <1>4 DEF LifeInv, LifeTypeOK, RouteKept, Routed
<1> QED BY <1>5, <1>6, <1>7, <1>8 DEF LifeInv

\* add_route succeeds only if there is no route, hence nobody else has got
\* this far; what is pending deletion is not the caller's.
LEMMA AddRoutePreserves ==
    ASSUME LifeInv, NEW c \in Callers, AddRoute(c)
    PROVE  LifeInv'
<1>1. /\ stage[c] = "route" /\ stage' = [stage EXCEPT ![c] = "bind"]
      /\ routes = {} /\ routes' = {index[c]}
      /\ UNCHANGED <<index, holders, deleting>>
  BY DEF AddRoute, Goes
<1>2. index[c] # 0 /\ index[c] \in Nat /\ index[c] \notin deleting
  BY <1>1 DEF LifeInv, LifeTypeOK, StagesHold, RouteKept
<1>3. \A d \in Callers : ~Routed(d)
  BY <1>1 DEF LifeInv, RouteKept
<1>4. LifeTypeOK' /\ StagesHold' /\ NothingShared'
  BY <1>1, <1>2 DEF LifeInv, LifeTypeOK, Stages, StagesHold, NothingShared
<1>5. RouteKept'
  BY <1>1, <1>2, <1>3 DEF LifeInv, LifeTypeOK, RouteKept, Routed
<1> QED BY <1>4, <1>5 DEF LifeInv

LEMMA BindPreserves ==
    ASSUME LifeInv, NEW c \in Callers, Bind(c)
    PROVE  LifeInv'
<1>1. /\ stage[c] = "bind" /\ stage' = [stage EXCEPT ![c] = "probe"]
      /\ PortFree(c) /\ holders' = [holders EXCEPT ![c] = {Owner}]
      /\ UNCHANGED <<index, routes, deleting>>
  BY DEF Bind, Goes
<1>2. LifeTypeOK' /\ StagesHold'
  BY <1>1 DEF LifeInv, LifeTypeOK, Stages, StagesHold
<1>3. NothingShared'
  BY <1>1 DEF LifeInv, LifeTypeOK, NothingShared, PortFree
<1>4. RouteKept'
  BY <1>1 DEF LifeInv, LifeTypeOK, RouteKept, Routed
<1> QED BY <1>2, <1>3, <1>4 DEF LifeInv

LEMMA SpawnPreserves ==
    ASSUME LifeInv, NEW c \in Callers, Spawn(c)
    PROVE  LifeInv'
<1>1. /\ stage[c] = "probe" /\ stage' = [stage EXCEPT ![c] = "running"]
      /\ holders' = [holders EXCEPT ![c] = @ \cup Tasks]
      /\ UNCHANGED <<index, routes, deleting>>
  BY DEF Spawn, Goes
<1>2. holders[c] = {Owner} /\ index[c] # 0
  BY <1>1 DEF LifeInv, StagesHold
<1>3. LifeTypeOK' /\ StagesHold'
  BY <1>1, <1>2 DEF LifeInv, LifeTypeOK, Stages, StagesHold
<1>4. NothingShared'
  BY <1>1, <1>2 DEF LifeInv, LifeTypeOK, NothingShared
<1>5. RouteKept'
  BY <1>1 DEF LifeInv, LifeTypeOK, RouteKept, Routed
<1> QED BY <1>3, <1>4, <1>5 DEF LifeInv

\* A start that gives up after it had an interface: the interface goes, and
\* with it at most the caller's own route; a deletion may be left behind.
LEMMA FailurePreserves ==
    ASSUME LifeInv, NEW c \in Callers, AddRouteFails(c) \/ SpawnFails(c)
    PROVE  LifeInv'
<1>1. /\ stage[c] \in {"route", "bind", "probe"}
      /\ stage' = [stage EXCEPT ![c] = "out"]
      /\ index' = [index EXCEPT ![c] = 0]
      /\ holders' = [holders EXCEPT ![c] = {}]
      /\ routes' = routes \ {index[c]}
      /\ deleting \subseteq deleting' /\ deleting' \subseteq deleting \cup {index[c]}
  <2>1. CASE AddRouteFails(c)
    <3>1. holders[c] = {} /\ holders \in [Callers -> SUBSET (Tasks \cup {Owner})]
      BY <2>1 DEF AddRouteFails, LifeInv, LifeTypeOK, StagesHold
    <3>2. holders = [holders EXCEPT ![c] = {}]
      BY <3>1
    <3> QED BY <2>1, <3>2 DEF AddRouteFails, Close, Goes
  <2>2. CASE SpawnFails(c)
    BY <2>2 DEF SpawnFails, Close, Goes
  <2> QED BY <2>1, <2>2
<1>2. index[c] # 0 /\ index[c] \in Nat
  BY <1>1 DEF LifeInv, LifeTypeOK, StagesHold
<1>3. \A d \in Callers \ {c} :
        /\ stage'[d] = stage[d] /\ index'[d] = index[d] /\ holders'[d] = holders[d]
        /\ index[d] # 0 => index[d] # index[c]
  BY <1>1, <1>2 DEF LifeInv, LifeTypeOK, NothingShared
<1>4. stage'[c] = "out" /\ index'[c] = 0 /\ holders'[c] = {}
  BY <1>1 DEF LifeInv, LifeTypeOK
<1>5. LifeTypeOK'
  BY <1>1, <1>2 DEF LifeInv, LifeTypeOK, Stages
<1>6. StagesHold' /\ NothingShared'
  BY <1>3, <1>4 DEF LifeInv, StagesHold, NothingShared
<1>7. RouteKept'
  <2>1. (\A i \in routes' : i # 0) /\ 0 \notin deleting'
    BY <1>1, <1>2 DEF LifeInv, RouteKept
  <2>2. ASSUME NEW d \in Callers, Routed(d)' \/ stage'[d] = "route"
        PROVE  index'[d] \notin deleting' /\ (Routed(d)' => routes' = {index'[d]})
    <3>1. d # c
      BY <2>2, <1>4 DEF Routed
    <3>2. index[d] # 0 /\ index[d] # index[c]
      BY <2>2, <3>1, <1>3 DEF Routed, LifeInv, StagesHold
    <3> QED BY <2>2, <3>1, <3>2, <1>1, <1>3 DEF Routed, LifeInv, RouteKept
  <2> QED BY <2>1, <2>2 DEF RouteKept
<1> QED BY <1>5, <1>6, <1>7 DEF LifeInv

\* One holder less.  The owner lets go when the device is dropped, and only
\* then; a task may let go of a device that runs, which keeps its owner.
LEMMA LettingGoPreserves ==
    ASSUME LifeInv, NEW c \in Callers, NEW holder, LetGo(c, holder),
           stage[c] \in {"running", "dropped"},
           \/ stage' = stage /\ holder \in Tasks
           \/ /\ stage[c] = "running" /\ holder = Owner
              /\ stage' = [stage EXCEPT ![c] = "dropped"],
           deleting \subseteq deleting',
           \/ deleting' \subseteq deleting
           \/ /\ stage'[c] = "dropped" /\ index[c] # 0
              /\ deleting' \subseteq deleting \cup {index[c]}
    PROVE  LifeInv'
<1>1. holder \in Tasks \cup {Owner} /\ stage'[c] \in {"running", "dropped"}
  BY DEF LifeInv, LifeTypeOK
<1>2. /\ holders' = [holders EXCEPT ![c] = @ \ {holder}]
      /\ \/ UNCHANGED <<index, routes>>
         \/ /\ holders[c] = {holder}
            /\ index' = [index EXCEPT ![c] = 0] /\ routes' = routes \ {index[c]}
  BY DEF LetGo, Close
<1>3. Owner \notin Tasks
  BY DEF Owner, Tasks
<1>4. holders[c] = {holder} => stage'[c] = "dropped"
  BY <1>3 DEF LifeInv, LifeTypeOK, StagesHold
<1>5. \A d \in Callers \ {c} :
        /\ stage'[d] = stage[d] /\ index'[d] = index[d] /\ holders'[d] = holders[d]
        /\ index[d] # 0 /\ index[c] # 0 => index[d] # index[c]
  BY <1>2 DEF LifeInv, LifeTypeOK, NothingShared
<1>6. holders'[c] = holders[c] \ {holder} /\ index'[c] \in {index[c], 0}
  BY <1>2 DEF LifeInv, LifeTypeOK
<1>7. LifeTypeOK'
  <2>1. stage' \in [Callers -> Stages] /\ index' \in [Callers -> Nat]
    BY <1>2 DEF LifeInv, LifeTypeOK, Stages
  <2>2. holders' \in [Callers -> SUBSET (Tasks \cup {Owner})]
    BY <1>2 DEF LifeInv, LifeTypeOK
  <2>3. index[c] \in Nat /\ routes \subseteq Nat /\ deleting \subseteq Nat
    BY DEF LifeInv, LifeTypeOK
  <2>4. routes' \subseteq routes /\ deleting' \subseteq deleting \cup {index[c]}
    BY <1>2
  <2> QED BY <2>1, <2>2, <2>3, <2>4 DEF LifeTypeOK
<1>8. StagesHold'
  <2>1. stage'[c] = "running" =>
          /\ index'[c] # 0 /\ Owner \in holders'[c]
    BY <1>2, <1>3, <1>4, <1>6 DEF LifeInv, LifeTypeOK, StagesHold
  <2>2. stage'[c] = "dropped" =>
          Owner \notin holders'[c] /\ (index'[c] = 0 => holders'[c] = {})
    BY <1>2, <1>6 DEF LifeInv, LifeTypeOK, StagesHold
  <2> QED BY <1>1, <1>5, <2>1, <2>2 DEF LifeInv, StagesHold
<1>9. NothingShared'
  BY <1>5, <1>6 DEF LifeInv, LifeTypeOK, NothingShared
<1>10. RouteKept'
  <2>1. (\A i \in routes' : i # 0) /\ 0 \notin deleting'
    BY <1>2 DEF LifeInv, RouteKept
  <2>2. ASSUME NEW d \in Callers \ {c}, Routed(d) \/ stage[d] = "route"
        PROVE  index[d] \notin deleting' /\ (Routed(d) => routes' = {index[d]})
    <3>1. index[d] # 0 /\ index[d] \notin deleting /\ (Routed(d) => routes = {index[d]})
      BY <2>2 DEF LifeInv, StagesHold, RouteKept, Routed
    <3>2. index[d] \notin deleting'
      BY <3>1, <1>5
    <3>3. index[c] # index[d]
      BY <3>1, <1>5
    <3> QED BY <3>1, <3>2, <3>3, <1>2
  <2>3. ASSUME stage'[c] = "running"
        PROVE  index'[c] \notin deleting' /\ routes' = {index'[c]}
    <3>1. stage[c] = "running" /\ UNCHANGED <<index, routes>> /\ deleting' = deleting
      BY <2>3, <1>2, <1>4 DEF LifeInv, LifeTypeOK
    <3> QED BY <3>1 DEF LifeInv, RouteKept, Routed
  <2> QED BY <1>1, <1>5, <2>1, <2>2, <2>3 DEF RouteKept, Routed
<1> QED BY <1>7, <1>8, <1>9, <1>10 DEF LifeInv

LEMMA DeletePreserves ==
    ASSUME LifeInv, NEW i \in Indexes, Delete(i)
    PROVE  LifeInv'
<1>1. /\ i \in deleting /\ routes' = routes \ {i} /\ deleting' = deleting \ {i}
      /\ UNCHANGED <<stage, index, holders>>
  BY DEF Delete, DeleteRoute
<1> QED
  BY <1>1 DEF LifeInv, LifeTypeOK, StagesHold, NothingShared, RouteKept, Routed

LEMMA NextLife == LifeInv /\ [Next]_vars => LifeInv'
<1> SUFFICES ASSUME LifeInv, [Next]_vars PROVE LifeInv'
  OBVIOUS
<1>1. ASSUME NEW c \in Callers,
             Start(c) \/ Register(c) \/ RegisterFails(c) \/ OpenTunFails(c)
      PROVE  LifeInv'
  BY <1>1, WaitPreserves
<1>2. ASSUME NEW c \in Callers, OpenTun(c) PROVE LifeInv'
  BY <1>2, OpenTunPreserves
<1>3. ASSUME NEW c \in Callers, AddRoute(c) PROVE LifeInv'
  BY <1>3, AddRoutePreserves
<1>4. ASSUME NEW c \in Callers, AddRouteFails(c) \/ SpawnFails(c) PROVE LifeInv'
  BY <1>4, FailurePreserves
<1>5. ASSUME NEW c \in Callers, Bind(c) PROVE LifeInv'
  BY <1>5, BindPreserves
<1>6. ASSUME NEW c \in Callers, Spawn(c) PROVE LifeInv'
  BY <1>6, SpawnPreserves
<1>7. ASSUME NEW c \in Callers, NEW in_runtime \in BOOLEAN, DropDevice(c, in_runtime)
      PROVE  LifeInv'
  <2>1. /\ stage[c] = "running" /\ stage' = [stage EXCEPT ![c] = "dropped"]
        /\ LetGo(c, Owner)
        /\ deleting \subseteq deleting' /\ deleting' \subseteq deleting \cup {index[c]}
    BY <1>7 DEF DropDevice, Goes
  <2>2. stage'[c] = "dropped" /\ index[c] # 0
    BY <2>1 DEF LifeInv, LifeTypeOK, StagesHold
  <2> QED BY <2>1, <2>2, LettingGoPreserves
<1>8. ASSUME NEW c \in Callers, NEW task \in Tasks, TaskEnds(c, task) PROVE LifeInv'
  <2>1. /\ stage[c] \in {"running", "dropped"} /\ stage' = stage
        /\ LetGo(c, task)
        /\ deleting \subseteq deleting' /\ deleting' \subseteq deleting
    BY <1>8 DEF TaskEnds
  <2> QED BY <1>8, <2>1, LettingGoPreserves
<1>9. ASSUME NEW c \in Callers, NEW task \in Tasks, TaskDropped(c, task) PROVE LifeInv'
  <2>1. /\ stage[c] \in {"running", "dropped"} /\ stage' = stage
        /\ LetGo(c, task)
        /\ deleting \subseteq deleting' /\ deleting' \subseteq deleting
    BY <1>9 DEF TaskDropped, Aborted
  <2> QED BY <1>9, <2>1, LettingGoPreserves
<1>10. ASSUME NEW i \in Indexes, Delete(i) PROVE LifeInv'
  BY <1>10, DeletePreserves
<1>11. CASE UNCHANGED vars
  BY <1>11 DEF vars, LifeInv, LifeTypeOK, StagesHold, NothingShared, RouteKept, Routed
<1> QED
  BY <1>1, <1>2, <1>3, <1>4, <1>5, <1>6, <1>7, <1>8, <1>9, <1>10, <1>11 DEF Next

\* Whatever the faults and however late the deletions of former devices'
\* routes, a device that runs has interface, route and port
\* (runtime.rs:53-76, 274-281; route.rs:30-48, 69-81).
THEOREM RunningAlwaysConnected == Spec => []RunningConnected
<1>1. Init => LifeInv
  BY InitLife
<1>2. LifeInv /\ [Next]_vars => LifeInv'
  BY NextLife
<1>3. LifeInv => RunningConnected
  BY InvConnects
<1> QED BY <1>1, <1>2, <1>3, PTL DEF Spec

-----------------------------------------------------------------------------
(* What is taken has somebody who gives it up.                             *)

\* A dropped device has its interface no longer than a task holds it, and a
\* route is that of an interface that got past add_route.
Remains ==
    /\ \A c \in Callers : stage[c] = "dropped" /\ index[c] # 0 => holders[c] # {}
    /\ \A i \in routes : \E c \in Callers :
         index[c] = i /\ stage[c] \in {"bind", "probe", "running", "dropped"}

\* A step of one caller keeps the routes of the others.
LEMMA OthersRemain ==
    ASSUME LifeInv, Remains, NEW c \in Callers,
           \A d \in Callers \ {c} :
             stage'[d] = stage[d] /\ index'[d] = index[d] /\ holders'[d] = holders[d],
           stage'[c] = "dropped" /\ index'[c] # 0 => holders'[c] # {},
           \A i \in routes' : i = index'[c] \/ (i \in routes /\ i # index[c]),
           index'[c] \in routes' => stage'[c] \in {"bind", "probe", "running", "dropped"}
    PROVE  Remains'
<1>1. ASSUME NEW i \in routes'
      PROVE  \E d \in Callers :
               index'[d] = i /\ stage'[d] \in {"bind", "probe", "running", "dropped"}
  <2>1. CASE i = index'[c]
    BY <1>1, <2>1
  <2>2. CASE i \in routes /\ i # index[c]
    <3>1. PICK d \in Callers : index[d] = i /\ stage[d] \in {"bind", "probe", "running", "dropped"}
      BY <2>2 DEF Remains
    <3>2. d # c
      BY <2>2, <3>1
    <3> QED BY <3>1, <3>2
  <2> QED BY <1>1, <2>1, <2>2
<1> QED BY <1>1 DEF Remains

LEMMA LettingGoRemains ==
    ASSUME LifeInv, Remains, NEW c \in Callers, NEW holder, LetGo(c, holder),
           stage[c] \in {"running", "dropped"},
           stage' = stage \/ stage' = [stage EXCEPT ![c] = "dropped"]
    PROVE  Remains'
<1>1. /\ holders' = [holders EXCEPT ![c] = @ \ {holder}]
      /\ \/ holders[c] # {holder} /\ UNCHANGED <<index, routes>>
         \/ index' = [index EXCEPT ![c] = 0] /\ routes' = routes \ {index[c]}
  BY DEF LetGo, Close
<1>2. \A d \in Callers \ {c} :
        stage'[d] = stage[d] /\ index'[d] = index[d] /\ holders'[d] = holders[d]
  BY <1>1 DEF LifeInv, LifeTypeOK
<1>3. stage'[c] \in {"running", "dropped"} /\ holders'[c] = holders[c] \ {holder}
  BY <1>1 DEF LifeInv, LifeTypeOK
<1>4. holders[c] # {} \/ index[c] = 0
  BY DEF LifeInv, StagesHold, Remains
<1>5. index'[c] # 0 => index'[c] = index[c] /\ holders'[c] # {}
  BY <1>1, <1>3, <1>4 DEF LifeInv, LifeTypeOK
<1>6. \A i \in routes' : i = index'[c] \/ (i \in routes /\ i # index[c])
  BY <1>1
<1> QED BY <1>2, <1>3, <1>5, <1>6, OthersRemain

LEMMA NextRemains == LifeInv /\ Remains /\ [Next]_vars => Remains'
<1> SUFFICES ASSUME LifeInv, Remains, [Next]_vars PROVE Remains'
  OBVIOUS
<1>0. /\ stage \in [Callers -> Stages] /\ index \in [Callers -> Nat]
      /\ holders \in [Callers -> SUBSET (Tasks \cup {Owner})]
      /\ \A i \in routes : i # 0
  BY DEF LifeInv, LifeTypeOK, RouteKept
<1>1. ASSUME NEW c \in Callers,
             Start(c) \/ Register(c) \/ RegisterFails(c) \/ OpenTun(c) \/ OpenTunFails(c)
               \/ AddRoute(c) \/ Bind(c) \/ Spawn(c)
      PROVE  Remains'
  <2>1. index[c] = 0 \/ stage[c] \in {"route", "bind", "probe"}
    BY <1>1
       DEF Start, Register, RegisterFails, OpenTun, OpenTunFails, AddRoute, Bind, Spawn,
           LifeInv, StagesHold
  <2>2. /\ stage'[c] \in Stages \ {"dropped"}
        /\ \A d \in Callers \ {c} :
             stage'[d] = stage[d] /\ index'[d] = index[d] /\ holders'[d] = holders[d]
    BY <1>0, <1>1
       DEF Start, Register, RegisterFails, OpenTun, OpenTunFails, AddRoute, Bind, Spawn, Goes, Stages
  <2>3. CASE Start(c) \/ Register(c) \/ RegisterFails(c) \/ OpenTunFails(c)
    <3>1. UNCHANGED <<index, routes>> /\ index[c] = 0
      BY <2>3 DEF Start, Register, RegisterFails, OpenTunFails, LifeInv, StagesHold
    <3> QED BY <1>0, <2>2, <3>1, OthersRemain
  <2>4. CASE OpenTun(c)
    <3>1. routes' = routes /\ index[c] = 0
      BY <2>4 DEF OpenTun, LifeInv, StagesHold
    <3>2. index'[c] \notin routes
      <4>1. PICK i \in Indexes : FreshIndex(i) /\ index' = [index EXCEPT ![c] = i]
        BY <2>4 DEF OpenTun
      <4>2. \A d \in Callers : index[d] # i
        BY <4>1 DEF FreshIndex, Unused
      <4> QED BY <1>0, <4>1, <4>2 DEF Remains
    <3> QED BY <1>0, <2>2, <3>1, <3>2, OthersRemain
  <2>5. CASE AddRoute(c)
    <3>1. routes' = {index[c]} /\ index' = index /\ stage'[c] = "bind"
      BY <1>0, <2>5 DEF AddRoute, Goes
    <3> QED BY <2>2, <3>1, OthersRemain
  <2>6. CASE Bind(c) \/ Spawn(c)
    <3>1. UNCHANGED <<index, routes>> /\ stage'[c] \in {"probe", "running"}
      BY <1>0, <2>6 DEF Bind, Spawn, Goes
    <3> QED BY <2>2, <3>1, OthersRemain
  <2> QED BY <1>1, <2>3, <2>4, <2>5, <2>6
<1>2. ASSUME NEW c \in Callers, AddRouteFails(c) \/ SpawnFails(c) PROVE Remains'
  <2>1. /\ stage'[c] = "out" /\ index'[c] = 0
        /\ routes' = routes \ {index[c]}
        /\ \A d \in Callers \ {c} :
             stage'[d] = stage[d] /\ index'[d] = index[d] /\ holders'[d] = holders[d]
    BY <1>0, <1>2 DEF AddRouteFails, SpawnFails, Close, Goes
  <2> QED BY <1>0, <2>1, OthersRemain
<1>3. ASSUME NEW c \in Callers, NEW in_runtime \in BOOLEAN, DropDevice(c, in_runtime)
      PROVE  Remains'
  <2>1. /\ LetGo(c, Owner) /\ stage[c] \in {"running", "dropped"}
        /\ stage' = [stage EXCEPT ![c] = "dropped"]
    BY <1>3 DEF DropDevice, Goes
  <2> QED BY <2>1, LettingGoRemains
<1>4. ASSUME NEW c \in Callers, NEW task \in Tasks, TaskEnds(c, task) \/ TaskDropped(c, task)
      PROVE  Remains'
  <2>1. LetGo(c, task) /\ stage[c] \in {"running", "dropped"} /\ stage' = stage
    BY <1>4 DEF TaskEnds, TaskDropped, Aborted
  <2> QED BY <2>1, LettingGoRemains
<1>5. ASSUME NEW i \in Indexes, Delete(i) PROVE Remains'
  BY <1>5 DEF Delete, DeleteRoute, Remains
<1>6. CASE UNCHANGED vars
  BY <1>6 DEF vars, Remains
<1> QED BY <1>1, <1>2, <1>3, <1>4, <1>5, <1>6 DEF Next

\* However start fails and in whatever order the tasks of a device end, what
\* it took from the host has somebody who gives it up, for any callers, names
\* and ports (runtime.rs:53-76, 274-281; route.rs:69-81).
THEOREM NothingEverLeaks == Spec => []NothingLeaks
<1>1. Init => LifeInv /\ Remains
  BY InitLife DEF Init, Remains
<1>2. LifeInv /\ Remains /\ [Next]_vars => (LifeInv /\ Remains)'
  BY NextLife, NextRemains
<1>3. ASSUME LifeInv, Remains PROVE NothingLeaks
  <2>1. ASSUME NEW c \in Callers, index[c] # 0 \/ holders[c] # {} PROVE GivenUp(c)
    BY <1>3, <2>1 DEF LifeInv, LifeTypeOK, Stages, StagesHold, Remains, GivenUp, Aborted
  <2>2. ASSUME NEW i \in routes
        PROVE  \E c \in Callers : index[c] = i /\ stage[c] # "route" /\ GivenUp(c)
    <3>1. PICK c \in Callers : index[c] = i /\ stage[c] \in {"bind", "probe", "running", "dropped"}
      BY <1>3, <2>2 DEF Remains
    <3>2. index[c] # 0
      BY <1>3, <2>2, <3>1 DEF LifeInv, RouteKept
    <3> QED BY <2>1, <3>1, <3>2
  <2> QED BY <2>1, <2>2 DEF NothingLeaks
<1> QED BY <1>1, <1>2, <1>3, PTL DEF Spec
=============================================================================
