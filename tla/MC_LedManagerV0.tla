--------------------------- MODULE MC_LedManagerV0 ---------------------------
EXTENDS LedManagerV0

\* Two agent counters: one equal to a counter the LED already showed.
MC_AgentValues == {3, 4}

=============================================================================
