\* Two peers that come and go, snapshots in any order that may
\* stop at an info without endpoint, endpoints withdrawn and offered again, and
\* probes and confirmations at any time.
SPECIFICATION Spec
CONSTANTS
    Keys = {k1, k2}
    Addresses = {a1}
    Endpoints = {1, 2}
    Lists <- MCLists
    MaxPeers = 2
    MaxTunnels = 3
    MaxClock = 1
SYMMETRY Symmetry
INVARIANTS
    PathStages
    SelectionDetermined
PROPERTIES
    CollisionsNeedOrder
    PeersKeepSessionsAndPaths
CHECK_DEADLOCK FALSE
