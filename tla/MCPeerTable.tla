---------------------------- MODULE MCPeerTable ----------------------------
(* Small instances of PeerTable.                                           *)
EXTENDS PeerTable, TLC

\* A list without endpoints and two lists that differ.
MCLists == {<<>>, <<1>>, <<2, 1>>}

MCOneList == {<<1>>}

Symmetry == Permutations(Keys)
=============================================================================
