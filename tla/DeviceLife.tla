----------------------------- MODULE DeviceLife -----------------------------
(***************************************************************************)
(* What devices take from their host and give back (core/src/device/       *)
(* builder.rs, runtime.rs, tun.rs and route.rs): Device::start takes a TUN *)
(* interface, the route of the Lattis network and a UDP port in turn, may  *)
(* fail or be cancelled at any of them, and is tried again by its caller;  *)
(* dropping a Device aborts tasks that go on holding the interface and the *)
(* port until they are dropped themselves, and leaves the deletion of the  *)
(* route to one more task.                                                 *)
(*                                                                         *)
(* The kernel is external: it has one interface of a name, at most one     *)
(* route to the network, one socket of a port, and takes the routes of an  *)
(* interface away with it.                                                 *)
(***************************************************************************)
EXTENDS Integers, FiniteSets

CONSTANTS
    Callers,    \* each wants one device
    Name,       \* caller -> interface name
    Port,       \* caller -> listen port
    MaxPending, \* bound: route deletions that have not run
    MaxFaults   \* bound: calls that fail or are cancelled, tasks that end

ASSUME HostAssumption == DOMAIN Name = Callers /\ DOMAIN Port = Callers
ASSUME HostBoundsAssumption == MaxPending \in Nat \ {0} /\ MaxFaults \in Nat

VARIABLES
    stage,     \* of each caller: out, then the next step of start, running, dropped
    index,     \* caller -> index of its TUN interface while that exists, or 0
    holders,   \* caller -> who holds its WireGuardIo, and so interface and port
    routes,    \* kernel: indexes of the interfaces with a route to the network
    deleting,  \* indexes whose routes a task is to delete
    faults     \* how many there were

vars == <<stage, index, holders, routes, deleting, faults>>

Tasks == {"events", "outbound", "inbound", "timer"}

\* The device, or start on its way to it.
Owner == "owner"

Init ==
    /\ stage = [c \in Callers |-> "out"]
    /\ index = [c \in Callers |-> 0]
    /\ holders = [c \in Callers |-> {}]
    /\ routes = {}
    /\ deleting = {}
    /\ faults = 0

NameFree(c) == \A d \in Callers : index[d] # 0 => Name[d] # Name[c]
PortFree(c) == \A d \in Callers : holders[d] # {} => Port[d] # Port[c]

Indexes == 1 .. Cardinality(Callers) + MaxPending + 1

Unused(i) == i \notin deleting /\ \A d \in Callers : index[d] # i

\* A new interface has an index that nobody refers to: the kernel counts on.
FreshIndex(i) == Unused(i) /\ \A j \in Indexes : Unused(j) => i <= j

\* The interface of c is closed.
Close(c) ==
    /\ index' = [index EXCEPT ![c] = 0]
    /\ routes' = routes \ {index[c]}

Fault == faults < MaxFaults /\ faults' = faults + 1
Goes(c, at) == stage' = [stage EXCEPT ![c] = at]
-----------------------------------------------------------------------------
(* Device::start.                                                          *)

Start(c) ==
    /\ stage[c] = "out"
    /\ Cardinality(deleting) < MaxPending
    /\ Goes(c, "register")
    /\ UNCHANGED <<index, holders, routes, deleting, faults>>

\* The coordinator answers; each attempt registers a device of its own.
Register(c) ==
    /\ stage[c] = "register"
    /\ Goes(c, "tun")
    /\ UNCHANGED <<index, holders, routes, deleting, faults>>

\* It refuses, or start is cancelled.
RegisterFails(c) ==
    /\ stage[c] = "register"
    /\ Fault
    /\ Goes(c, "out")
    /\ UNCHANGED <<index, holders, routes, deleting>>

\* open_tun_device creates the interface and gives it its addresses.
OpenTun(c) ==
    /\ stage[c] = "tun"
    /\ NameFree(c)
    /\ \E i \in Indexes : FreshIndex(i) /\ index' = [index EXCEPT ![c] = i]
    /\ Goes(c, "route")
    /\ UNCHANGED <<holders, routes, deleting, faults>>

\* The name is busy; or there is no address, or the interface refuses one and
\* is closed again before anybody else runs.
OpenTunFails(c) ==
    /\ stage[c] = "tun"
    /\ IF NameFree(c) THEN Fault ELSE UNCHANGED faults
    /\ Goes(c, "out")
    /\ UNCHANGED <<index, holders, routes, deleting>>

\* add_lattis_network_route: the kernel has room for one.
AddRoute(c) ==
    /\ stage[c] = "route"
    /\ routes = {}
    /\ routes' = {index[c]}
    /\ Goes(c, "bind")
    /\ UNCHANGED <<index, holders, deleting, faults>>

\* There is a route already, or the call fails or is cancelled.  No guard
\* exists yet.
AddRouteFails(c) ==
    /\ stage[c] = "route"
    /\ IF routes = {} THEN Fault ELSE UNCHANGED faults
    /\ Close(c)
    /\ Goes(c, "out")
    /\ UNCHANGED <<holders, deleting>>

\* WireGuardIo::bind.
Bind(c) ==
    /\ stage[c] = "bind"
    /\ PortFree(c)
    /\ holders' = [holders EXCEPT ![c] = {Owner}]
    /\ Goes(c, "probe")
    /\ UNCHANGED <<index, routes, deleting, faults>>

\* The port is busy, or a probe cannot be sent, or start is cancelled: the
\* future of spawn_runtime gives up interface and port, and after it the guard
\* leaves the route, which has gone with the interface, to a task.
SpawnFails(c) ==
    /\ \/ stage[c] = "bind" /\ ~PortFree(c) /\ UNCHANGED faults
       \/ stage[c] = "probe" /\ Fault
    /\ holders' = [holders EXCEPT ![c] = {}]
    /\ Close(c)
    /\ deleting' = deleting \cup {index[c]}
    /\ Goes(c, "out")

\* The tasks are spawned, each with an Arc of WireGuardIo.
Spawn(c) ==
    /\ stage[c] = "probe"
    /\ holders' = [holders EXCEPT ![c] = @ \cup Tasks]
    /\ Goes(c, "running")
    /\ UNCHANGED <<index, routes, deleting, faults>>
-----------------------------------------------------------------------------
(* The end of a device.                                                    *)

\* One holder less; the last one closes the interface and the socket.
LetGo(c, holder) ==
    /\ holders' = [holders EXCEPT ![c] = @ \ {holder}]
    /\ IF holders[c] = {holder} THEN Close(c) ELSE UNCHANGED <<index, routes>>

\* A task returns an error.
TaskEnds(c, task) ==
    /\ stage[c] = "running"
    /\ task \in holders[c]
    /\ Fault
    /\ LetGo(c, task)
    /\ UNCHANGED <<stage, deleting>>

\* Drop for Device, then its fields: the tasks are told to abort, the guard
\* spawns the deletion, if there is a runtime to spawn it on, and the device's
\* own Arc is gone.
DropDevice(c, in_runtime) ==
    /\ stage[c] = "running"
    /\ Cardinality(deleting) < MaxPending
    /\ Goes(c, "dropped")
    /\ LetGo(c, Owner)
    /\ deleting' = IF in_runtime THEN deleting \cup {index[c]} ELSE deleting
    /\ UNCHANGED faults

\* Mutant: the timer is not aborted.
AbortThree(c) == IF stage[c] = "dropped" THEN holders[c] \ {"timer"} ELSE {}

Aborted(c) == IF stage[c] = "dropped" THEN holders[c] ELSE {}

\* The runtime drops an aborted task.
TaskDropped(c, task) ==
    /\ task \in Aborted(c)
    /\ LetGo(c, task)
    /\ UNCHANGED <<stage, deleting, faults>>

\* Mutant: the deletion does not name the interface.
DeleteByPrefix(i) == routes' = {}

\* delete_route; the kernel looks for the network and the interface.
DeleteRoute(i) == routes' = routes \ {i}

\* The task of a guard runs.
Delete(i) ==
    /\ i \in deleting
    /\ DeleteRoute(i)
    /\ deleting' = deleting \ {i}
    /\ UNCHANGED <<stage, index, holders, faults>>
-----------------------------------------------------------------------------
\* What start does next when nothing goes wrong by chance.
Proceed(c) ==
    \/ Start(c) \/ Register(c) \/ OpenTun(c) \/ AddRoute(c) \/ Bind(c) \/ Spawn(c)
    \/ ~NameFree(c) /\ OpenTunFails(c)
    \/ routes # {} /\ AddRouteFails(c)
    \/ stage[c] = "bind" /\ SpawnFails(c)

Next ==
    \/ \E c \in Callers :
         \/ Start(c) \/ Register(c) \/ RegisterFails(c) \/ OpenTun(c) \/ OpenTunFails(c)
         \/ AddRoute(c) \/ AddRouteFails(c) \/ Bind(c) \/ SpawnFails(c) \/ Spawn(c)
         \/ DropDevice(c, TRUE) \/ DropDevice(c, FALSE)
         \/ \E task \in Tasks : TaskEnds(c, task) \/ TaskDropped(c, task)
    \/ \E i \in Indexes : Delete(i)

\* The coordinator answers, callers try again, and the runtime runs its tasks
\* and drops those that are aborted.  No caller is obliged to drop its device.
Spec ==
    /\ Init
    /\ [][Next]_vars
    /\ \A c \in Callers : /\ WF_vars(Proceed(c))
                          /\ WF_vars(\E task \in Tasks : TaskDropped(c, task))
    /\ \A i \in Indexes : WF_vars(Delete(i))
-----------------------------------------------------------------------------
(* Properties.                                                             *)

\* A running device has an interface of its name and port of its own and the
\* host's route to the network leads to it: also when the deletion of a former
\* device's route comes late, after another device has taken its place
\* (route.rs:30-48, 69-81; runtime.rs:274-281).
RunningConnected ==
    \A c \in Callers : stage[c] = "running" =>
      /\ routes = {index[c]}
      /\ \A d \in Callers \ {c} :
           /\ index[d] # 0 => Name[d] # Name[c]
           /\ holders[d] # {} => Port[d] # Port[c]

\* Somebody is left who gives up what c has of the host: a start under way, a
\* device, or tasks that are aborted.
GivenUp(c) == stage[c] \in {"route", "bind", "probe", "running"} \/ Aborted(c) # {}

\* Nothing that is taken from the host stays behind: whatever fails, is
\* cancelled or ends in whatever order, an interface or a port that is in use
\* has somebody who will give it up, and the route to the network is that of
\* such an interface, although its deletion may never run
\* (runtime.rs:53-76, 274-281; route.rs:69-81).
NothingLeaks ==
    /\ \A c \in Callers : index[c] # 0 \/ holders[c] # {} => GivenUp(c)
    /\ \A i \in routes : \E c \in Callers : index[c] = i /\ stage[c] # "route" /\ GivenUp(c)

\* Someone else's device runs.
Occupied(c) == \E d \in Callers \ {c} : stage[d] = "running"

\* A device can be started after any other was dropped and after any failure:
\* whoever tries again succeeds in the end unless another device is running.
\* Before that, the interface, the route and the port may be busy although no
\* Device exists (runtime.rs:53-76, 274-281; route.rs:30-48).
RetrySucceeds ==
    \A c \in Callers :
      stage[c] = "out" ~> stage[c] \in {"running", "dropped"} \/ Occupied(c)
=============================================================================
