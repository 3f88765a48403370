------------------------------- MODULE MC_NIM -------------------------------
(* Model of NIM for TLC: two ports, three DPC sources. *)
EXTENDS NIM

CONSTANTS e0, e1, zedagent, override, lastresort, nokey

MC_Ports == {e0, e1}
MC_Keys == {zedagent, override, lastresort}

\* zedagent pushes one of two configs (a cloud update moves management
\* to the other port); the override file names e1 without a free port;
\* LastResortDevicePortConfig has every port, all free, TimePriority 0.
MC_Configs ==
    { [key |-> zedagent, prio |-> 2, mgmt |-> {e0}, free |-> {e0}],
      [key |-> zedagent, prio |-> 3, mgmt |-> {e1}, free |-> {e1}],
      [key |-> override, prio |-> 1, mgmt |-> {e1}, free |-> {}],
      LastResortDevicePortConfig(lastresort, MC_Ports) }

MC_KeyRank == [k \in MC_Keys |-> CASE k = zedagent -> 0
                                   [] k = override -> 1
                                   [] k = lastresort -> 2]
=============================================================================
