SPECIFICATION FairEncoderSpec
CONSTANTS
    ClockMod = 7
    Guard = 3
    Bounce = 1
    Latency = 1
    Spacing = 4
    MaxDetents = 3
    MaxNoise = 2
INVARIANTS
    EncoderTypeOK
    OneStepPerDetent
PROPERTIES
    GuardSpacing
    StepsReachLoop
