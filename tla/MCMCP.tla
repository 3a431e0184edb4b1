---------------------------------- MODULE MCMCP ----------------------------------
(***************************************************************************)
(* MCP for TLC: two processes with one representative core each and a    *)
(* third core, each core sending one request, so that two comm-map broadcasts can race.                      *)
(***************************************************************************)
EXTENDS MCP

MCRep == [p \in Procs |-> IF p = "p0" THEN "c0" ELSE "c1"]
MCProcOrder == <<"p0", "p1">>
=============================================================================
