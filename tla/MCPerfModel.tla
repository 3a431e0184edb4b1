---------------------------- MODULE MCPerfModel ----------------------------
(***************************************************************************)
(* PerfModel instantiated for TLC.  The program has a modelled RECV with a *)
(* read and a write operand (two facts, so a stall can split them), an     *)
(* unmodelled instruction without operands, a modelled SYNC with a write   *)
(* and an unmodelled instruction with a read.  Latencies differ from each *)
(* other and from the static costs, so a fact costed for the wrong operand *)
(* changes m_cycle_count.                                                  *)
(***************************************************************************)
EXTENDS PerfModel

MCProg ==
  << [type |-> "RECV",    cost |-> 2, ops |-> <<"READ", "WRITE">>],
     [type |-> "GENERIC", cost |-> 7, ops |-> << >>],
     [type |-> "SYNC",    cost |-> 3, ops |-> <<"WRITE">>],
     [type |-> "GENERIC", cost |-> 5, ops |-> <<"READ">>] >>

MCModeledTypes == {"RECV", "SYNC", "SPAWN"}

MCLatency(i, j) == 10 * i + 20 * j

=============================================================================
