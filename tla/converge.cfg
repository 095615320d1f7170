\* Every topology of three routers and three LANs with a change and two calls,
\* and rings of four routers with a LAN behind one of them.
SPECIFICATION Spec
CONSTANTS
    r1 = r1
    r2 = r2
    r3 = r3
    r4 = r4
    r5 = r5
    r6 = r6
    r7 = r7
    l1 = l1
    l2 = l2
    l3 = l3
    l4 = l4
    l5 = l5
    l6 = l6
    l7 = l7
    l8 = l8
    RouterIds <- MCRouters
    LanIds <- MCLans
    None = None
    Workloads <- MCWorkloads
SYMMETRY MCSymmetry
INVARIANTS
    RoutesExactly
    ShortestPaths
CHECK_DEADLOCK FALSE
