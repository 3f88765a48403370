CONSTANTS
    ServerConfigured = TRUE
    OnboardCertPresent = TRUE
    MaxReboots = 2
SPECIFICATION Spec
CHECK_DEADLOCK FALSE
INVARIANT RunsRegistered
