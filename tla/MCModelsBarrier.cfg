CONSTANTS
  p0 = p0
  p1 = p1
  c0 = c0
  c1 = c1
  c2 = c2
  c3 = c3
  mcp = mcp
  Procs <- MCProcs
  CoresOf <- MCCoresOf
  MCPTile = mcp
  MCPProc = p0
  Ops <- MCOps
SPECIFICATION Spec
INVARIANT TypeOK
INVARIANT ModelsConsistentWhileRunning
