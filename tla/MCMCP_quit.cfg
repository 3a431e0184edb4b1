\* Requests of the user API: syscalls, utilization updates, comm-map updates.
CONSTANTS
  Cores = {"c0", "c1", "c2"}
  Procs = {"p0", "p1"}
  Rep <- MCRep
  ProcOrder <- MCProcOrder
  MaxRequests = 1
  ClientOps = {"SYS_CALL", "UTILIZATION_UPDATE", "BROADCAST_COMM_MAP_UPDATE"}
SPECIFICATION Spec
INVARIANT AllRequestsServed
