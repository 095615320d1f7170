\* One listening device of two, one key per device, updates told apart by their
\* endpoint, a channel of one update, one lost connection, one restart.
SPECIFICATION SyncSpec
CONSTANTS
    e1 = e1
    e2 = e2
    Devices = {d1, d2}
    Keys = {k1, k2}
    Addresses = {a1, a2}
    Endpoints = {e1, e2}
    EndpointLists <- MCTwoLists
    Calls = {c1, c2}
    Subscribers = {d1}
    NoCall = NoCall
    Free = Free
    Capacity = 1
    WireCap = 2
    Overlapping = FALSE
    KeyRotation = FALSE
    MaxRegistrations = 3
    MaxRestarts = 1
    MaxDrops = 1
INVARIANT
    OnlyRestartRefuses
PROPERTY
    Converges
CHECK_DEADLOCK FALSE
