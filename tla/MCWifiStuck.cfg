SPECIFICATION FairWifiSpec
CONSTANTS
    MaxPieces = 5
    Chunk = 4
    MaxFrames = 4
    MaxSessions = 2
    MaxEvents = 1
PROPERTIES
    FrameIsHandled
