--------------------------- MODULE MCModelsBarrier ---------------------------
EXTENDS ModelsBarrier

CONSTANTS p0, p1, c0, c1, c2, c3, mcp

\* Two processes of two application cores; the MCP tile is simulated in
\* process 0.
MCProcs == {p0, p1}
MCCoresOf == [p \in MCProcs |-> IF p = p0 THEN <<c0, c1>> ELSE <<c2, c3>>]
\* Enable, reset, then disable, as an application measuring one region.
MCOps == <<"enable", "reset", "disable">>
=============================================================================
