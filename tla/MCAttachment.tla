---------------------------- MODULE MCAttachment ----------------------------
(* Small instances of Attachment.                                          *)
EXTENDS Attachment, TLC

CONSTANTS h1, h2, r1, r2, l1, l2, c1, c2, c3, c4

Call(op, node, lan) == [op |-> op, node |-> node, lan |-> lan, public |-> lan]

\* enable_udp_nat between two LANs.
Relay(node, lan, public) ==
    [op |-> "enable_udp_nat", node |-> node, lan |-> lan, public |-> public]

\* Two overlapping joins of one host, another host, and the gateway.
MCJoins ==
    c1 :> Call("join_host", h1, l1) @@ c2 :> Call("join_host", h1, l1) @@
    c3 :> Call("join_host", h2, l1) @@ c4 :> Call("set_gateway", r1, l1)

\* Two routers and two attempts of one of them to become the gateway.
MCGateways ==
    c1 :> Call("join_host", h1, l1) @@ c2 :> Call("set_gateway", r1, l1) @@
    c3 :> Call("set_gateway", r2, l1) @@ c4 :> Call("set_gateway", r1, l1)

\* A router between two LANs that masquerades both.
MCMasquerade ==
    c1 :> Call("enable_masquerade", r1, l1) @@ c2 :> Call("enable_masquerade", r1, l2) @@
    c3 :> Call("attach", r1, l1) @@ c4 :> Call("set_gateway", r1, l2)

\* A router that relays between two LANs while it is attached to them.
MCNat ==
    c1 :> Relay(r1, l1, l2) @@ c2 :> Call("attach", r1, l2) @@
    c3 :> Call("set_gateway", r1, l1) @@ c4 :> Call("join_host", h1, l1)

MCWorkloads == {MCJoins, MCGateways, MCMasquerade, MCNat}
=============================================================================
