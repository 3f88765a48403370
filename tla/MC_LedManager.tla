-------------------------- MODULE MC_LedManager ----------------------------
(* nim's 11 (no DeviceNetworkConfig file) and a zedcloud progress value. *)
EXTENDS LedManager

MC_AgentValues == {4, 11}
=============================================================================
