\* Three devices, key rotation, overlapping requests of one device, exhaustion
\* of two addresses; one subscriber, a channel shorter than the updates (so
\* the stream lags), a lost connection and a restart.
SPECIFICATION Spec
CONSTANTS
    d1 = d1
    e1 = e1
    Devices = {d1, d2, d3}
    Keys = {k1, k2, k3}
    Addresses = {a1, a2}
    Endpoints = {e1}
    EndpointLists <- MCEndpointLists
    Calls = {c1, c2}
    Subscribers = {d1}
    NoCall = NoCall
    Free = Free
    Capacity = 1
    WireCap = 1
    Overlapping = TRUE
    KeyRotation = TRUE
    MaxRegistrations = 3
    MaxRestarts = 1
    MaxDrops = 1
SYMMETRY Symmetry
INVARIANTS
    UniqueAddresses
    UniqueKeys
PROPERTY
    LeasesSpec
CHECK_DEADLOCK FALSE
