------------------------------- MODULE MC_PBR -------------------------------
(* Two interfaces and two names: enough for a rename into a free name and *)
(* for a free uplink next to a non-free one.                              *)
EXTENDS PBR

CONSTANTS i1, i2, n1, n2

MC_Index == {i1, i2}
MC_Names == {n1, n2}

\* The configuration marks n1 free, or nothing.
MC_FreeConfigs == {{n1}, {}}
=============================================================================
