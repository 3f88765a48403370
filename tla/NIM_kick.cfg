CONSTANTS
    e0 = e0
    e1 = e1
    zedagent = zedagent
    override = override
    lastresort = lastresort
    nokey = nokey
    Ports <- MC_Ports
    Keys <- MC_Keys
    Zedagent <- zedagent
    NoKey <- nokey
    Configs <- MC_Configs
    KeyRank <- MC_KeyRank
    DPCTestDuration = 1
    TestBetterEnabled = TRUE
    MaxEnvSteps = 3

SPECIFICATION Spec
CHECK_DEADLOCK FALSE
PROPERTY AddressKicksVerification
