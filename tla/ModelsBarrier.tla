---------------------------- MODULE ModelsBarrier ----------------------------
(***************************************************************************)
(* The collective model switch of perf_counter_support.cc:                 *)
(* CarbonEnableModels, CarbonDisableModels and CarbonResetModels wrap the  *)
(* switch in two waits on models_barrier, a barrier of the sync server     *)
(* sized to the application cores.  Between the waits the core of index 0  *)
(* in each process switches the models of every tile of its process        *)
(* (Simulator::enable/disable/resetPerformanceModelsInCurrentProcess),     *)
(* calling CorePerfModel::enable() or disable() on each.                   *)
(*                                                                         *)
(* The barrier is the sync server's (spec 4.4: deferred replies): the last *)
(* arrival releases every waiter, and a released core continues when its   *)
(* thread runs.  The application cores all run the same sequence Ops of    *)
(* collective operations.                                                  *)
(***************************************************************************)
EXTENDS Naturals, Sequences, FiniteSets

CONSTANTS
  Procs,     \* host processes
  CoresOf,   \* CoresOf[p]: the application cores of p, by core index
  MCPTile,   \* the MCP's tile, simulated in process MCPProc
  MCPProc,
  Ops        \* the collective operations every application core performs

AppCores == UNION {{CoresOf[p][i] : i \in DOMAIN CoresOf[p]} : p \in Procs}
Tiles == AppCores \cup {MCPTile}
ProcOf(c) == CHOOSE p \in Procs : \E i \in DOMAIN CoresOf[p] : CoresOf[p][i] = c
\* The tiles whose models a process switches.
TilesOf(p) == {CoresOf[p][i] : i \in DOMAIN CoresOf[p]}
                \cup (IF p = MCPProc THEN {MCPTile} ELSE {})
N == Cardinality(AppCores)   \* Config::getApplicationCores()

ASSUME /\ MCPProc \in Procs /\ MCPTile \notin AppCores
       /\ Ops \in Seq({"enable", "disable", "reset"})

VARIABLES
  pc,       \* pc[c]: "run", "wait1", "switch", "wait2"
  go,       \* go[c]: the barrier has released c's pending wait
  op_idx,   \* op_idx[c]: collective operations c has completed
  count,    \* arrivals at models_barrier since it last opened
  enabled,  \* enabled[t]: CorePerfModel::m_enabled of tile t
  applied   \* applied[t]: collective operations applied to t's model

vars == <<pc, go, op_idx, count, enabled, applied>>

-----------------------------------------------------------------------------
(***************************************************************************)
(* CarbonBarrierWait(&models_barrier): arrive, and block until released.   *)
(* The arrival that makes the count N opens the barrier for every waiter.  *)
(***************************************************************************)
Waiting(d) == pc[d] \in {"wait1", "wait2"} /\ ~go[d]

\* Mutant of the sync server's barrier: the count is not reset on opening.
BarrierWaitNoReset(c) ==
  IF count + 1 = N
    THEN /\ count' = count + 1
         /\ go' = [d \in AppCores |-> IF d = c \/ Waiting(d) THEN TRUE ELSE go[d]]
    ELSE /\ count' = count + 1
         /\ go' = [go EXCEPT ![c] = FALSE]

BarrierWait(c) ==
  IF count + 1 = N
    THEN /\ count' = 0
         /\ go' = [d \in AppCores |-> IF d = c \/ Waiting(d) THEN TRUE ELSE go[d]]
    ELSE /\ count' = count + 1
         /\ go' = [go EXCEPT ![c] = FALSE]

\* Mutant of Carbon*Models: the first barrier wait left out.
CallNoFirstWait(c) ==
  /\ pc[c] = "run"
  /\ op_idx[c] < Len(Ops)
  /\ pc' = [pc EXCEPT ![c] = "wait1"]
  /\ go' = [go EXCEPT ![c] = TRUE]
  /\ UNCHANGED <<op_idx, count, enabled, applied>>

\* CarbonEnableModels/DisableModels/ResetModels: the first wait.
Call(c) ==
  /\ pc[c] = "run"
  /\ op_idx[c] < Len(Ops)
  /\ pc' = [pc EXCEPT ![c] = "wait1"]
  /\ BarrierWait(c)
  /\ UNCHANGED <<op_idx, enabled, applied>>

\* Released from the first wait: the core of index 0 goes on to switch the
\* models, every other core waits again at once.
PassFirst(c) ==
  /\ pc[c] = "wait1"
  /\ go[c]
  /\ IF c = CoresOf[ProcOf(c)][1]
       THEN /\ pc' = [pc EXCEPT ![c] = "switch"]
            /\ go' = [go EXCEPT ![c] = FALSE]
            /\ UNCHANGED count
       ELSE /\ pc' = [pc EXCEPT ![c] = "wait2"]
            /\ BarrierWait(c)
  /\ UNCHANGED <<op_idx, enabled, applied>>

(***************************************************************************)
(* The switch of every model of the process, by the calling core c.       *)
(* CorePerfModel::enable() returns early when the calling thread's core    *)
(* is the MCP core; disable() and reset have no such test.                 *)
(***************************************************************************)
EnableModel(t, c) == IF c = MCPTile THEN enabled[t] ELSE TRUE

SwitchModels(c) ==
  LET op == Ops[op_idx[c] + 1]
      ts == TilesOf(ProcOf(c))
  IN /\ pc[c] = "switch"
     /\ enabled' = [t \in Tiles |->
                      IF t \notin ts THEN enabled[t]
                      ELSE CASE op = "enable"  -> EnableModel(t, c)
                             [] op = "disable" -> FALSE
                             [] op = "reset"   -> enabled[t]]
     /\ applied' = [t \in Tiles |-> IF t \in ts THEN applied[t] + 1 ELSE applied[t]]
     /\ pc' = [pc EXCEPT ![c] = "wait2"]
     /\ BarrierWait(c)
     /\ UNCHANGED op_idx

\* Released from the second wait: back to the application.
PassSecond(c) ==
  /\ pc[c] = "wait2"
  /\ go[c]
  /\ pc' = [pc EXCEPT ![c] = "run"]
  /\ go' = [go EXCEPT ![c] = FALSE]
  /\ op_idx' = [op_idx EXCEPT ![c] = @ + 1]
  /\ UNCHANGED <<count, enabled, applied>>

\* Every core has performed every collective operation.
Terminated ==
  /\ \A c \in AppCores : pc[c] = "run" /\ op_idx[c] = Len(Ops)
  /\ UNCHANGED vars

-----------------------------------------------------------------------------
\* Models start disabled (CorePerfModel constructor); CarbonInitModels has
\* created the barrier with the count of application cores.
Init ==
  /\ pc = [c \in AppCores |-> "run"]
  /\ go = [c \in AppCores |-> FALSE]
  /\ op_idx = [c \in AppCores |-> 0]
  /\ count = 0
  /\ enabled = [t \in Tiles |-> FALSE]
  /\ applied = [t \in Tiles |-> 0]

Next ==
  \/ \E c \in AppCores : \/ Call(c) \/ PassFirst(c) \/ SwitchModels(c)
                         \/ PassSecond(c)
  \/ Terminated

Spec == Init /\ [][Next]_vars

-----------------------------------------------------------------------------
(***************************************************************************)
(* Properties                                                              *)
(***************************************************************************)
TypeOK ==
  /\ pc \in [AppCores -> {"run", "wait1", "switch", "wait2"}]
  /\ go \in [AppCores -> BOOLEAN]
  /\ op_idx \in [AppCores -> 0 .. Len(Ops)]
  /\ count \in 0 .. N - 1
  /\ enabled \in [Tiles -> BOOLEAN]
  /\ applied \in [Tiles -> 0 .. Len(Ops)]

\* Spec 4.5: the double barrier makes the switch atomic from the
\* application's viewpoint.  A core running application code finds every
\* model, in every process, switched by exactly the collective operations
\* it has completed: no core runs while a switch it has not waited for
\* happens, and none resumes before every process has switched.
ModelsConsistentWhileRunning ==
  \A c \in AppCores : pc[c] = "run" => \A t \in Tiles : applied[t] = op_idx[c]

\* Spec 4.1: the MCP's own tile is never enabled (the test in
\* CorePerfModel::enable(), core_perf_model.cc l.88).
MCPModelNeverEnabled == ~enabled[MCPTile]
=============================================================================
