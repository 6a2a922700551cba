SPECIFICATION SystemSpec
CONSTANTS
    a = a
    b = b
    NoApp = NoApp
    Cut = Cut
    MaxLevel = 2
    Apps <- MCApps
    AppsWithIcon <- MCApps
    HostLists <- MCLists
    Deltas <- MCDeltas
    InitialSessions <- TwoSessions
    Scenarios <- SafetyScenarios
INVARIANTS
    WaitIsAnswered
    ShownIsCached
PROPERTIES
    ImplementsDevice
