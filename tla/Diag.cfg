CONSTANTS
    p1 = p1
    p2 = p2
    l1 = l1
    controller = controller
    google = google
    PortNames <- MC_PortNames
    Statuses <- MC_Statuses
    DPCLists <- MC_DPCLists
    LedValues <- MC_LedValues
    Controller <- controller
    Google <- google
    MaxRetries = 2
    SimulateDnsFailure = FALSE
    SimulatePingFailure = FALSE
    MaxEnvSteps = 7
SPECIFICATION Spec
INVARIANT ControllerRequestsVerified
INVARIANT VerdictMatchesResults
PROPERTY ReportFinishes
CHECK_DEADLOCK FALSE
