SPECIFICATION FairSystemSpec
CONSTANTS
    a = a
    b = b
    NoApp = NoApp
    Cut = Cut
    MaxLevel = 2
    Apps <- MCApps
    AppsWithIcon <- MCApps
    HostLists <- MCLists
    Deltas <- MCDeltas
    InitialSessions <- OneSession
    Scenarios <- LiveScenarios
INVARIANTS
    InitInStep
PROPERTIES
    WorkerReachesLoop
    ListIsCleared
    IconArrivesCalm
    ListConvergesCalm
CHECK_DEADLOCK FALSE
