\* One listening device among three, one key per device, updates told apart
\* by their endpoint, a channel of one update, one lost connection.
SPECIFICATION SyncSpec
CONSTANTS
    e1 = e1
    e2 = e2
    Devices = {d1, d2, d3}
    Keys = {k1, k2, k3}
    Addresses = {a1, a2, a3}
    Endpoints = {e1, e2}
    EndpointLists <- MCTwoLists
    Calls = {c1, c2}
    Subscribers = {d1}
    NoCall = NoCall
    Free = Free
    Capacity = 1
    WireCap = 2
    Overlapping = FALSE
    KeyRotation = FALSE
    MaxRegistrations = 4
    MaxRestarts = 0
    MaxDrops = 1
SYMMETRY Symmetry
INVARIANTS
    Announced
    NoUpdateLost
    UnambiguousTable
    QuietTableIsExact
CHECK_DEADLOCK FALSE
