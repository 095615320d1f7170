\* Two relays, all NAT types; the port the peer prefers is free and the
\* dynamic port, which a symmetric NAT needs too, is taken.
\* One answer may fail on its way to the peer.
SPECIFICATION NatSpec
CONSTANTS
    NatTypes = {"FullCone", "RestrictedCone", "PortRestrictedCone", "Symmetric"}
    Peer <- MCPeer
    Sources <- MCSources
    Remotes <- MCRemotes
    PublicAddr = "public"
    NoDestination = NoDestination
    FirstDynamicPort = 2
    MaxPort = 2
    Free = Free
    Relays <- MCRelays
    Taken = {2}
    MaxPackets = 3
    MaxFailed = 1
PROPERTIES
    LossesExplained
    AnswersArrive
    EverythingStops
CHECK_DEADLOCK FALSE
