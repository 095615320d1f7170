----------------------------- MODULE MCNatTable -----------------------------
(* Small instances of NatTable.                                            *)
EXTENDS NatTable

Address(host, port) == [ip |-> host, port |-> port]

\* Two sources that prefer the same dynamic port, one with a port outside the
\* dynamic range, one with port 0.
MCSources == {Address("a", 3), Address("b", 3), Address("a", 1), Address("b", 0)}

\* Two ports of one remote host and one of another.
MCRemotes == {Address("x", 1), Address("x", 2), Address("y", 1)}
=============================================================================
