SPECIFICATION FairSystemSpec
CONSTANTS
    a = a
    b = b
    NoApp = NoApp
    Cut = Cut
    MaxLevel = 2
    Apps <- MCApps
    AppsWithIcon <- MCApps
    HostLists <- MCLists
    Deltas <- MCDeltas
    InitialSessions <- OneSession
    Scenarios <- ReturnScenarios
PROPERTIES
    ListConverges
CHECK_DEADLOCK FALSE
