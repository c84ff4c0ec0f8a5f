----------------------------- MODULE MCSlaSweep -----------------------------
(* SlaSweep with two priorities, the shorter window half the longer.       *)
EXTENDS SlaSweep

MCPriorities == {"critical", "low"}

MCFirstResponse == [p \in MCPriorities |-> IF p = "critical" THEN 1 ELSE 2]

=============================================================================
