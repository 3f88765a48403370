CONSTANTS
    AgentValues <- MC_AgentValues
    MaxEnvSteps = 4
SPECIFICATION Spec
INVARIANT BlinksFile
CHECK_DEADLOCK FALSE
