SPECIFICATION ScreenSpec
CONSTANTS
    a = a
    b = b
    NoApp = NoApp
    Blank = Blank
    MaxLevel = 4
    Apps <- MCApps
    HostLists <- MCLists
    HostLevels <- MCHostLevels
    Deltas <- MCDeltas
    Batteries <- MCBatteries
INVARIANTS
    DeviceTypeOK
    IconIsOfSelected
    CursorOnSelected
    ShownIsListed
    ListHasSelection
    FrameShowsSession
    PanelIsCurrent
