SPECIFICATION PanelSpec
CONSTANTS
    TickMod = 6
    TicksPerSec = 1
    Secs <- MCSecs
    Pcts <- MCPcts
    DefaultDim = 1
    DefaultOff = 1
    Gestures <- MCGestures
PROPERTIES
    WakeTouchIsDropped
