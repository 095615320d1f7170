------------------------------ MODULE PeerSync ------------------------------
(***************************************************************************)
(* The coordinator composed with the devices that listen to it: a device   *)
(* registers, fills its peer table from the response, opens its event      *)
(* stream and applies what it reads (core/src/device/runtime.rs,           *)
(* coordinator.rs, and the keyed content of peer.rs's PeerTable).          *)
(*                                                                         *)
(* Indexes, paths and tunnels of the table are PeerTable.tla's subject;    *)
(* here a table is the map from public key to the DeviceInfo it holds.     *)
(***************************************************************************)
EXTENDS Coordinator

VARIABLES
    client,  \* subscriber -> stage of the device's life
    table    \* subscriber -> public key -> DeviceInfo

syncVars == <<vars, client, table>>

\* A device whose peer events end for good was refused by the coordinator, or
\* failed on its own: it did not start, or its event task returned an error.
Stages == {"new", "registering", "running", "refused", "failed"}

EmptyTable == [k \in {} |-> {}]

Running(s) == client[s] = "running"
-----------------------------------------------------------------------------
(* The device's reaction to a registration response and to an event.       *)

\* PeerTable::replace: the table becomes exactly the listed peers.
Replace(infos) ==
    [k \in {info.public_key : info \in infos} |->
       CHOOSE info \in infos : info.public_key = k]

\* Mutant: a peer that the table has is not updated.
UpsertNew(t, info) ==
    [k \in DOMAIN t \cup {info.public_key} |-> IF k \in DOMAIN t THEN t[k] ELSE info]

\* PeerTable::upsert: one entry is added, or updated in place, by key.
Upsert(t, info) ==
    [k \in DOMAIN t \cup {info.public_key} |->
       IF k = info.public_key THEN info ELSE t[k]]

ApplyEvent(t, event) ==
    CASE event.kind = "peers" -> Replace(event.peers)
      [] event.kind = "peer" -> Upsert(t, CHOOSE info \in event.peers : TRUE)
      [] OTHER -> t

\* A 400 on the stream's request, and an "error" event, end the task that
\* keeps the table; nothing restarts it.
EndsTask(event) == event.kind \in {"rejected", "error"}
-----------------------------------------------------------------------------
SyncInit ==
    /\ Init
    /\ client = [s \in Subscribers |-> "new"]
    /\ table = [s \in Subscribers |-> EmptyTable]

\* Any client of the API registers d; when d is a device that is starting,
\* this is the registration of Device::start.
SyncRegister(c, d, k, list) ==
    /\ Register(c, d, k, list)
    /\ client' = [s \in Subscribers |->
                    IF s = d /\ client[s] = "new" THEN "registering" ELSE client[s]]
    /\ UNCHANGED table

\* The devices that wait for the response of handler c.
Starting(c) ==
    {s \in Subscribers : s = calls[c].device.device_id /\ client[s] = "registering"}

\* The response arrives; the starting device fills its table and spawns its
\* tasks, or one of its own steps fails and it does not start.
SyncPublish(c) ==
    /\ Publish(c)
    /\ \/ /\ client' = [s \in Subscribers |->
                            IF s \in Starting(c) THEN "running" ELSE client[s]]
          /\ table' = [s \in Subscribers |->
                           IF s \in Starting(c) THEN Replace(calls[c].peers) ELSE table[s]]
       \/ /\ client' = [s \in Subscribers |->
                            IF s \in Starting(c) THEN "failed" ELSE client[s]]
          /\ UNCHANGED table

\* Mutant: the event source connects before the device has registered.
SubscribeEarly(s) ==
    /\ client[s] \notin {"refused", "failed"}
    /\ Subscribe(s)
    /\ UNCHANGED <<client, table>>

\* The event source connects, and connects again whenever it lost the
\* connection, for as long as the task that polls it runs.
SyncSubscribe(s) ==
    /\ Running(s)
    /\ Subscribe(s)
    /\ UNCHANGED <<client, table>>

\* The peer event task applies the next event, or is refused, ends and closes
\* the connection.
SyncDeliver(s) ==
    /\ wire[s] # <<>>
    /\ LET event == Head(wire[s])
       IN  /\ table' = [table EXCEPT ![s] = ApplyEvent(@, event)]
           /\ client' = [client EXCEPT ![s] = IF EndsTask(event) THEN "refused" ELSE @]
           /\ streams' = [streams EXCEPT ![s].state =
                            IF EndsTask(event) THEN "closed" ELSE @]
           /\ wire' = [wire EXCEPT ![s] = IF EndsTask(event) THEN <<>> ELSE Tail(@)]
    /\ UNCHANGED <<peers, calls, events, restarts, drops>>

\* The event task returns an error of its own and closes the connection: the
\* table did not take the event, or it did and a probe could not be sent.
TaskFails(s) ==
    /\ wire[s] # <<>> /\ ~EndsTask(Head(wire[s]))
    /\ \/ table' = [table EXCEPT ![s] = ApplyEvent(@, Head(wire[s]))]
       \/ UNCHANGED table
    /\ client' = [client EXCEPT ![s] = "failed"]
    /\ streams' = [streams EXCEPT ![s].state = "closed"]
    /\ wire' = [wire EXCEPT ![s] = <<>>]
    /\ UNCHANGED <<peers, calls, events, restarts, drops>>

\* A device whose registration was cut off by the restart does not start.
SyncRestart ==
    /\ Restart
    /\ client' = [s \in Subscribers |->
                    IF client[s] = "registering" THEN "failed" ELSE client[s]]
    /\ UNCHANGED table

SyncHandlers ==
    \E c \in Calls :
      \/ SyncPublish(c)
      \/ \E d \in Devices, k \in Keys, list \in EndpointLists :
           SyncRegister(c, d, k, list)

SyncStreams ==
    \E s \in Subscribers :
      \/ SyncSubscribe(s) \/ SyncDeliver(s) \/ TaskFails(s)
      \/ /\ Snapshot(s) \/ Reject(s) \/ Receive(s) \/ Lag(s) \/ Resync(s) \/ Drop(s)
         /\ UNCHANGED <<client, table>>

SyncNext == SyncHandlers \/ SyncStreams \/ SyncRestart

\* The handlers, the streams and the devices' tasks are scheduled fairly by
\* their runtimes; nothing obliges anyone to register, and nothing obliges
\* connections to be lost or the process to restart.
Fairness ==
    /\ \A c \in Calls : WF_syncVars(SyncPublish(c))
    /\ \A s \in Subscribers :
         /\ WF_syncVars(SyncSubscribe(s))
         /\ WF_syncVars(SyncDeliver(s))
         /\ WF_syncVars(/\ Snapshot(s) \/ Reject(s) \/ Receive(s) \/ Lag(s) \/ Resync(s)
                        /\ UNCHANGED <<client, table>>)

SyncSpec == SyncInit /\ [][SyncNext]_syncVars /\ Fairness
-----------------------------------------------------------------------------
(* Properties.                                                             *)

KnowsCurrent(t, p) ==
    peers[p].public_key \in DOMAIN t /\ t[peers[p].public_key] = peers[p]

\* Event says what the table is to hold under key k: a snapshot does so for
\* every key, an update for the key of its device.
Concerns(event, k) ==
    \/ event.kind = "peers"
    \/ event.kind = "peer" /\ \E info \in event.peers : info.public_key = k

Concerning(s, k) == {i \in DOMAIN wire[s] : Concerns(wire[s][i], k)}

\* The table of s knows p once everything on the connection has been read:
\* the last event that concerns p's key tells it so, or, when there is none,
\* it knows already.
WillKnow(s, p) ==
    LET said == Concerning(s, peers[p].public_key)
    IN  \/ said = {} /\ KnowsCurrent(table[s], p)
        \/ \E i \in said : /\ \A j \in said : j <= i
                          /\ peers[p] \in wire[s][i].peers

\* No update is lost between the registry and a streaming device, whatever
\* the order of subscribe, snapshot, registration, publication, lag and
\* resynchronisation: the device will know a peer's current registration
\* once it has read what is on the wire, or the update is still to be
\* published, or is ahead of the stream in the channel, or the stream has
\* fallen behind and a snapshot will make up for it (api.rs:69-113).
NoUpdateLost ==
    \A s \in Subscribers :
      streams[s].state = "streaming" =>
        \A p \in Registered \ {s} :
          \/ WillKnow(s, p)
          \/ PendingOf(p) # {}
          \/ UpdatesOf(p, streams[s].next) # {}
          \/ streams[s].next < Oldest

\* A table never holds two devices under one virtual address, nor one device
\* under two keys, so find_by_destination and find_by_device_id have one
\* answer (peer.rs:251-285); and it never holds the device itself, whether by
\* response, snapshot or update.  Devices keep their key here: see the README
\* for what a change of key leaves behind.
UnambiguousTable ==
    \A s \in Subscribers : \A k \in DOMAIN table[s] :
      /\ table[s][k].device_id # s
      /\ \A j \in DOMAIN table[s] :
           \/ table[s][j].address = table[s][k].address
           \/ table[s][j].device_id = table[s][k].device_id
           => j = k

\* Nothing that concerns the table of s is on its way.
Quiet(s) ==
    /\ Pending = {}
    /\ streams[s] = [state |-> "streaming", next |-> Len(events) + 1]
    /\ wire[s] = <<>>

\* Whenever nothing is on its way to a streaming device, its table is what a
\* snapshot of the registry would make it now: every other device's current
\* registration and nothing else, however many updates it applied twice, out of
\* date or after a resynchronisation (api.rs:69-113, peer.rs:306-352).
QuietTableIsExact ==
    \A s \in Subscribers : Quiet(s) => table[s] = Replace(CollectPeersFor(peers, s))

\* The coordinator refuses the stream of a device that started, by a 400 or by
\* an "error" event, only after a restart made it forget the device: no lost
\* connection, slow reader or resynchronisation does it (api.rs:69-113).  The
\* device's own errors end its stream as well, and are its failure.
OnlyRestartRefuses ==
    \A s \in Subscribers : client[s] = "refused" => restarts > 0

\* Once registrations, losses and restarts are over, every device still
\* listening ends up with the current registration of every other device
\* and keeps it: older updates the channel replays after a resynchronisation
\* are always followed by newer ones.
Converges ==
    \A s \in Subscribers :
      <>[](Running(s) => \A p \in Registered \ {s} : KnowsCurrent(table[s], p))
=============================================================================
