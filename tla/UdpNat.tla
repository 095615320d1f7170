------------------------------- MODULE UdpNat -------------------------------
(***************************************************************************)
(* The sockets and workers of the test network's UDP NAT (netlab/src/      *)
(* nat.rs) around its translation table: a private worker for each relayed *)
(* port, which opens a public socket when the table gives it a port that   *)
(* has none, and a public worker for each public socket.                   *)
(*                                                                         *)
(* The workers are tasks of the router's runtime, which may have several   *)
(* threads: between two uses of a lock anything may happen.  A socket is   *)
(* open for as long as someone holds it, so Bound is no variable.          *)
(***************************************************************************)
EXTENDS NatTable, Sequences

CONSTANTS
    Peer,       \* private_peer, whose packets are relayed
    Relays,     \* the remotes the private ports stand for, by worker
    Taken,      \* public ports that some other socket of the router has
    MaxPackets, \* bound: packets of the private peer
    MaxFailed   \* bound: size of failed

ASSUME PeerAssumption == Peer \in Sources
ASSUME RelaysAssumption == Relays \in Seq(Remotes)
ASSUME TakenAssumption == Taken \subseteq Ports
ASSUME PacketsAssumption == MaxPackets \in Nat /\ MaxFailed \in Nat

VARIABLES
    started,         \* private workers start has spawned
    shutdown,        \* the watch channel: open, sent, or closed by a failed start
    private,         \* what each private worker is doing
    waiting,         \* private workers with a packet in their socket
    packets,         \* packets the private peer has sent
    public_sockets,  \* the public ports with an entry in the shared map
    public,          \* the public workers ever spawned, by port
    inbox,           \* <<remote, port>>: datagrams in public sockets
    out,             \* history: <<remote, port>> a packet was sent to and from
    delivered,       \* history: <<remote, port>> that came through to the peer
    failed           \* history: <<remote, port>> translated and then not sent on to the peer

workers == <<started, shutdown, private, waiting, packets, public_sockets, public, inbox, out,
             delivered, failed>>

Workers == DOMAIN Relays
Idle == [at |-> "recv", port |-> 0]

Alive(w) == private[w].at \notin {"absent", "stopped"}

\* Public ports with a socket of this NAT: a public worker has it, or the
\* map, while a private worker keeps that alive, or a private worker.
Bound ==
    {p \in DOMAIN public : public[p] = "recv"}
    \cup {p \in public_sockets : \E w \in Workers : Alive(w)}
    \cup {private[w].port : w \in {v \in Workers : private[v].at \in {"insert", "spawn", "send"}}}

NatInit ==
    /\ Init
    /\ started = 0
    /\ shutdown = "open"
    /\ private = [w \in Workers |-> [Idle EXCEPT !.at = "absent"]]
    /\ waiting = {}
    /\ packets = 0
    /\ public_sockets = {}
    /\ public = [p \in {} |-> "recv"]
    /\ inbox = {}
    /\ out = {}
    /\ delivered = {}
    /\ failed = {}

Become(w, at) == private' = [private EXCEPT ![w].at = at]
-----------------------------------------------------------------------------
(* UdpNat::start and drop.                                                 *)

Starting == shutdown = "open" /\ started < Len(Relays)

\* The next relay gets its private socket and its worker.
StartWorker ==
    /\ Starting
    /\ started' = started + 1
    /\ Become(started + 1, "recv")
    /\ UNCHANGED <<vars, shutdown, waiting, packets, public_sockets, public, inbox, out,
                   delivered, failed>>

\* The port of the relay is zero or busy: start returns the error, and the
\* sender of the watch channel is gone without a word.
StartFails ==
    /\ Starting
    /\ shutdown' = "closed"
    /\ UNCHANGED <<vars, started, private, waiting, packets, public_sockets, public, inbox, out,
                   delivered, failed>>

\* The UdpNat is dropped.
Drop ==
    /\ shutdown = "open"
    /\ started = Len(Relays)
    /\ shutdown' = "sent"
    /\ UNCHANGED <<vars, started, private, waiting, packets, public_sockets, public, inbox, out,
                   delivered, failed>>

\* Mutant: only the value of the channel counts, not that it is closed.
ToldToStop == shutdown = "sent"

\* changed() returns: an error, or the value true.
Stop == shutdown # "open"
-----------------------------------------------------------------------------
(* The private workers: forward_outbound_udp_packet.                       *)

PeerSends(w) ==
    /\ Alive(w)
    /\ w \notin waiting
    /\ packets < MaxPackets
    /\ packets' = packets + 1
    /\ waiting' = waiting \cup {w}
    /\ UNCHANGED <<vars, started, shutdown, private, public_sockets, public, inbox, out,
                   delivered, failed>>

\* A packet is received and translated under the table's lock, or dropped
\* because no port is free.
Translate(w) ==
    /\ private[w].at = "recv"
    /\ w \in waiting
    /\ waiting' = waiting \ {w}
    /\ \/ /\ TranslateMapped(Peer, Relays[w]) \/ TranslateNew(Peer, Relays[w])
          /\ private' = [private EXCEPT ![w] =
               [at |-> "lookup", port |-> mappings'[MappingKey(Peer, Relays[w])].public]]
       \/ TranslateExhausted(Peer, Relays[w]) /\ UNCHANGED private
    /\ UNCHANGED <<started, shutdown, packets, public_sockets, public, inbox, out,
                   delivered, failed>>

\* public_udp_socket_for looks for a socket under the map's lock ...
Lookup(w) ==
    /\ private[w].at = "lookup"
    /\ Become(w, IF private[w].port \in public_sockets THEN "send" ELSE "bind")
    /\ UNCHANGED <<vars, started, shutdown, waiting, packets, public_sockets, public, inbox, out,
                   delivered, failed>>

\* ... and binds one without it.  When the port is busy the packet is dropped.
Bind(w) ==
    /\ private[w].at = "bind"
    /\ private' = [private EXCEPT ![w] =
         IF private[w].port \in Bound \cup Taken THEN Idle ELSE [@ EXCEPT !.at = "insert"]]
    /\ UNCHANGED <<vars, started, shutdown, waiting, packets, public_sockets, public, inbox, out,
                   delivered, failed>>

\* Mutant: the socket is not entered.
Forget(port) == UNCHANGED public_sockets

Register(port) == public_sockets' = public_sockets \cup {port}

Insert(w) ==
    /\ private[w].at = "insert"
    /\ Register(private[w].port)
    /\ Become(w, "spawn")
    /\ UNCHANGED <<vars, started, shutdown, waiting, packets, public, inbox, out,
                   delivered, failed>>

\* Mutant: nobody is to read from the socket.
SpawnNobody(port) == UNCHANGED public

SpawnPublicWorker(port) == public' = Put(public, port, "recv")

Spawn(w) ==
    /\ private[w].at = "spawn"
    /\ SpawnPublicWorker(private[w].port)
    /\ Become(w, "send")
    /\ UNCHANGED <<vars, started, shutdown, waiting, packets, public_sockets, inbox, out,
                   delivered, failed>>

\* The socket sends the packet, or refuses it.
Send(w) ==
    /\ private[w].at = "send"
    /\ out' = out \cup {<<Relays[w], private[w].port>>} \/ UNCHANGED out
    /\ private' = [private EXCEPT ![w] = Idle]
    /\ UNCHANGED <<vars, started, shutdown, waiting, packets, public_sockets, public, inbox,
                   delivered, failed>>

\* The last private worker takes the map with it.
StopPrivate(w) ==
    /\ private[w].at = "recv"
    /\ Stop
    /\ Become(w, "stopped")
    /\ waiting' = waiting \ {w}
    /\ public_sockets' = IF \E v \in Workers \ {w} : Alive(v) THEN public_sockets ELSE {}
    /\ UNCHANGED <<vars, started, shutdown, packets, public, inbox, out, delivered, failed>>
-----------------------------------------------------------------------------
(* The outside and the public workers.                                     *)

\* A datagram from outside reaches a public socket.
RemoteSends(remote, port) ==
    /\ port \in Bound
    /\ inbox' = inbox \cup {<<remote, port>>}
    /\ UNCHANGED <<vars, started, shutdown, private, waiting, packets, public_sockets, public, out,
                   delivered, failed>>

\* forward_inbound_udp_packet: what the table lets in is sent on to the peer,
\* unless the private socket refuses it.
Forward(remote, port) ==
    /\ port \in DOMAIN public
    /\ public[port] = "recv"
    /\ <<remote, port>> \in inbox
    /\ inbox' = inbox \ {<<remote, port>>}
    /\ \/ /\ TranslateInbound(remote, PublicAddr, port) # {}
          /\ \/ delivered' = delivered \cup {<<remote, port>>} /\ UNCHANGED failed
             \/ /\ Cardinality(failed) < MaxFailed
                /\ failed' = failed \cup {<<remote, port>>}
                /\ UNCHANGED delivered
       \/ TranslateInbound(remote, PublicAddr, port) = {} /\ UNCHANGED <<delivered, failed>>
    /\ UNCHANGED <<vars, started, shutdown, private, waiting, packets, public_sockets, public, out>>

\* What its socket still holds is lost once nobody else has it.
StopPublic(port) ==
    /\ port \in DOMAIN public
    /\ public[port] = "recv"
    /\ Stop
    /\ public' = [public EXCEPT ![port] = "stopped"]
    /\ UNCHANGED <<vars, started, shutdown, private, waiting, packets, public_sockets, inbox, out,
                   delivered, failed>>
-----------------------------------------------------------------------------
Handle(w) == Translate(w) \/ Lookup(w) \/ Bind(w) \/ Insert(w) \/ Spawn(w) \/ Send(w)

NatNext ==
    \/ StartWorker \/ StartFails \/ Drop
    \/ \E w \in Workers : PeerSends(w) \/ Handle(w) \/ StopPrivate(w)
    \/ \E port \in Ports :
         \/ StopPublic(port)
         \/ \E remote \in Remotes : RemoteSends(remote, port) \/ Forward(remote, port)

\* A task that can run is run; a socket's datagrams come in turn; and select!
\* chooses among what is ready at random, so that the channel is looked at
\* even if packets keep coming.  Nobody is obliged to send, or to drop the NAT.
NatSpec ==
    /\ NatInit
    /\ [][NatNext]_<<vars, workers>>
    /\ \A w \in Workers : /\ WF_<<vars, workers>>(Handle(w))
                          /\ SF_<<vars, workers>>(StopPrivate(w))
    /\ \A port \in Ports :
         /\ WF_<<vars, workers>>(StopPublic(port))
         /\ \A remote \in Remotes : WF_<<vars, workers>>(Forward(remote, port))
-----------------------------------------------------------------------------
(* Properties.                                                             *)

\* A packet is lost for want of a public socket only if the port is another
\* program's, or if a worker that uses the same port was opening the socket
\* in between; otherwise the second packet of a port always finds the socket
\* of the first, whoever sent it (nat.rs:363-394).
LossesExplained ==
    [][\A w \in Workers :
         private[w].at = "bind" /\ private'[w].at = "recv" =>
           \/ private[w].port \in Taken \cup public_sockets
           \/ \E v \in Workers : private[v] = [at |-> "insert", port |-> private[w].port]
      ]_<<vars, workers>>

\* The socket of a port has a reader, or one that is about to be spawned.
HasReader(port) ==
    \/ port \in DOMAIN public /\ public[port] = "recv"
    \/ \E w \in Workers : private[w] = [at |-> "spawn", port |-> port]

\* Once a packet has left, the table lets its answer through to the peer for
\* good, and as long as the NAT runs the socket it left by has a reader or is
\* about to get one: a worker that finds the socket of another may send before
\* that has spawned the reader (nat.rs:363-394).
AnswersServed ==
    \A remote \in Remotes, port \in Ports :
      <<remote, port>> \in out =>
        /\ TranslateInbound(remote, PublicAddr, port) = {Peer}
        /\ shutdown = "open" => HasReader(port)

\* An answer to a packet that left reaches the private peer, whatever NAT type
\* and however many workers share the port, unless the NAT is dropped first
\* or the private socket refuses it; the reader of the public socket may be
\* spawned after the answer has come (nat.rs:291-318, 338-361, 385-391).
AnswersArrive ==
    \A remote \in Remotes, port \in Ports :
      <<remote, port>> \in inbox \cap out ~>
        shutdown # "open" \/ <<remote, port>> \in delivered \cup failed

\* When the NAT is dropped, or its start fails half way, all workers end and
\* all public sockets are closed, also that of a port whose worker is spawned
\* only then (nat.rs:238-242, 281-285, 310-314).
EverythingStops ==
    shutdown # "open" ~> Bound = {} /\ \A w \in Workers : ~Alive(w)
=============================================================================
