SPECIFICATION ProvisionSpec
CONSTANTS
    SsidLen = 1
    PassLen = 4
    Ascii = {"a", "b"}
    High = {"lead", "tail"}
    Latin1 <- MCLatin1
    Magic = "magic"
    Nul = "nul"
    Erased = "erased"
    NoCredentials = NoCredentials
    Truncated = Truncated
    Unused = Unused
    Failed = Failed
    Credentials <- MCCredentials
    Percents = {40, 100}
    DefaultPct = 100
    Usb = "usb"
    Wifi = "wifi"
    Modes = {"usb", "wifi", "auto"}
    NoAddress = "no address"
    Address = "address"
    Scenarios <- MCScenarios
INVARIANTS
    ProvisionTypeOK
    SettingsAreSaved
    SettingsOnKnob
PROPERTIES
    ImplementsStore
    AnswerIsStored
    SettingsArrive
CHECK_DEADLOCK FALSE
