------------------------------ MODULE MCUdpNat ------------------------------
(* A small instance of UdpNat: two relays that share a port unless the NAT
   is symmetric. *)
EXTENDS UdpNat

MCPeer == [ip |-> "a", port |-> 1]

MCSources == {MCPeer}

MCRemotes == {[ip |-> "x", port |-> 1], [ip |-> "y", port |-> 1]}

MCRelays == <<[ip |-> "x", port |-> 1], [ip |-> "y", port |-> 1]>>
=============================================================================
