SPECIFICATION FairWifiSpec
CONSTANTS
    MaxPieces = 5
    Chunk = 4
    MaxFrames = 6
    MaxSessions = 2
    MaxEvents = 1
INVARIANTS
    WifiTypeOK
    ReadyBeforeReplies
    HandledInOrder
PROPERTIES
    ListensAgain
