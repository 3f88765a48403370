CONSTANTS
    Configs <- MC_Configs
    MaxEnvSteps = 3
    NoConfig = NoConfig
SPECIFICATION Spec
INVARIANT SshFilterMatchesConfig
CHECK_DEADLOCK FALSE
