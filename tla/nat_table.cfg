\* Four sources against five ports, three of them dynamic, all NAT types.
SPECIFICATION Spec
CONSTANTS
    NatTypes = {"FullCone", "RestrictedCone", "PortRestrictedCone", "Symmetric"}
    Sources <- MCSources
    Remotes <- MCRemotes
    PublicAddr = "public"
    NoDestination = NoDestination
    FirstDynamicPort = 2
    MaxPort = 4
    Free = Free
INVARIANTS
    RepliesReturn
    InboundWasInvited
    PortPerNatType
    ScanIsLoop
PROPERTY
    PortsPermanent
