----------------------------- MODULE MC_WsTunnel -----------------------------
EXTENDS WsTunnel

CONSTANTS a1, a2, p1, p2

MC_Apps == {a1, a2}
MC_PortOrder == <<p1, p2>>

\* Both ports management ports: first without addresses, then with an
\* address on p2 only, then on both.
MC_Statuses ==
    { [mgmt |-> {p1, p2}, addr |-> {}],
      [mgmt |-> {p1, p2}, addr |-> {p2}],
      [mgmt |-> {p1, p2}, addr |-> {p1, p2}] }

=============================================================================
