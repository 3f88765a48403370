CONSTANTS
    a1 = a1
    a2 = a2
    p1 = p1
    p2 = p2
    Apps <- MC_Apps
    PortOrder <- MC_PortOrder
    Statuses <- MC_Statuses
    MaxEnvSteps = 7
SPECIFICATION Spec
INVARIANT NoTunnelWithoutConsole
CHECK_DEADLOCK FALSE
