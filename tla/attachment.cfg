\* Joins of one host and another beside a set_gateway, two routers that compete
\* to be the gateway, a router that masquerades two LANs and one that relays
\* between them; every await may fail.
SPECIFICATION Spec
CONSTANTS
    h1 = h1
    h2 = h2
    r1 = r1
    r2 = r2
    l1 = l1
    l2 = l2
    c1 = c1
    c2 = c2
    c3 = c3
    c4 = c4
    Hosts = {h1, h2}
    Routers = {r1, r2}
    Lans = {l1, l2}
    Calls = {c1, c2, c3, c4}
    Workloads <- MCWorkloads
    PoolSize = 3
    None = None
    SerialMasquerade = TRUE
INVARIANTS
    GatewayReachesHosts
    AddressesWork
    RecordsAgree
    MasqueradeKept
PROPERTY
    AddressesLeased
CHECK_DEADLOCK FALSE
