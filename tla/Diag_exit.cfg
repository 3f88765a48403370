CONSTANTS
    p1 = p1
    p2 = p2
    l1 = l1
    controller = controller
    google = google
    PortNames <- MC_PortNames
    Statuses <- MC_Statuses
    DPCLists <- MC_DPCLists
    LedValues <- MC_LedValues
    Controller <- controller
    Google <- google
    MaxRetries = 1
    SimulateDnsFailure = FALSE
    SimulatePingFailure = FALSE
    MaxEnvSteps = 5
SPECIFICATION Spec
INVARIANT ExitsWithReport
CHECK_DEADLOCK FALSE
