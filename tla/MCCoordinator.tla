--------------------------- MODULE MCCoordinator ---------------------------
(* Small instances of Coordinator.  Devices other than the subscribers are *)
(* interchangeable, and so are keys, addresses and handlers; no run that   *)
(* uses the symmetry checks liveness.                                      *)
EXTENDS Coordinator, TLC

CONSTANTS e1

\* An empty list, and one with a duplicate.
MCEndpointLists == {<<>>, <<e1, e1>>}

Symmetry == Permutations(Devices \ Subscribers) \cup Permutations(Keys)
              \cup Permutations(Addresses) \cup Permutations(Calls)
=============================================================================
