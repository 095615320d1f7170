----------------------------- MODULE MCPeerSync -----------------------------
(* Small instances of PeerSync.                                            *)
EXTENDS PeerSync, TLC

CONSTANTS e1, e2

\* Two distinct lists, so that an update of a device can be told from the one
\* before it.
MCTwoLists == {<<e1>>, <<e2>>}

Symmetry == Permutations(Devices \ Subscribers) \cup Permutations(Keys)
              \cup Permutations(Addresses) \cup Permutations(Calls)
              \cup Permutations(Endpoints)
=============================================================================
