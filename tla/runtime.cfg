SPECIFICATION Spec
CONSTANTS
    k1 = k1
    k2 = k2
    Keys = {k1, k2}
    Endpoints = {1, 2, 3, 9}
    Home <- MCHome
    UserEndpoints <- MCUserEndpoints
    Nobody = Nobody
    MaxTunnels = 2
    MaxInFlight = 1
    Scenarios <- MCScenarios
    InfosIn <- MCInfosIn
INVARIANTS
    PathsEarned
    HeardHavePaths
    MissesExplained
    QueueDrained
PROPERTY
    EndpointsFound
CHECK_DEADLOCK FALSE
