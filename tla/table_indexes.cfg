\* Snapshots in any order, as the coordinator sends them.
SPECIFICATION Spec
CONSTANTS
    Keys = {k1, k2}
    Addresses = {a1}
    Endpoints = {1}
    Lists <- MCOneList
    MaxPeers = 2
    MaxTunnels = 3
    MaxClock = 0
INVARIANT
    IndexesUnique
CHECK_DEADLOCK FALSE
