CONSTANTS
    MaxAddrs = 2
    AgentValues <- MC_AgentValues
    MaxEnvSteps = 5
SPECIFICATION Spec
CHECK_DEADLOCK FALSE
INVARIANT TypeOK
PROPERTY LedShowsState
PROPERTY LedBlinkRefined
