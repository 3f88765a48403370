------------------------------- MODULE MC_Diag -------------------------------
EXTENDS Diag

CONSTANTS p1, p2, l1, controller, google

MC_PortNames == {p1, p2}

\* A Testing status; a management port and a port for application use,
\* both with addresses; two management ports, only the second addressed.
MC_Statuses ==
    { [testing |-> TRUE,
       ports |-> <<[name |-> p1, mgmt |-> TRUE, ip |-> TRUE]>>],
      [testing |-> FALSE,
       ports |-> <<[name |-> p1, mgmt |-> TRUE, ip |-> TRUE],
                   [name |-> p2, mgmt |-> FALSE, ip |-> TRUE]>>],
      [testing |-> FALSE,
       ports |-> <<[name |-> p1, mgmt |-> TRUE, ip |-> FALSE],
                   [name |-> p2, mgmt |-> TRUE, ip |-> TRUE]>>] }

MC_DPCLists == {l1}
MC_LedValues == {1, 4}
=============================================================================
