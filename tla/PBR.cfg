CONSTANTS
    i1 = i1
    i2 = i2
    n1 = n1
    n2 = n2
    Index <- MC_Index
    Names <- MC_Names
    FreeConfigs <- MC_FreeConfigs
    MaxEnvSteps = 4
    MaxRestarts = 1
    Renames = TRUE
SPECIFICATION Spec
CHECK_DEADLOCK FALSE
INVARIANT CachesMatchKernel
INVARIANT TablesComplete
