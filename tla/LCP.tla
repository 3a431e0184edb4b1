--------------------------------- MODULE LCP ---------------------------------
(***************************************************************************)
(* The Local Control Process of every host process                         *)
(* (src/common/system/lcp.cc) with the traffic it serves and the orderly   *)
(* shutdown of the cluster.                                                *)
(*                                                                         *)
(* The transport delivers exactly once and in per-sender FIFO order        *)
(* (spec 4.3): chan[s][p] is the sequence of packets process s has sent to *)
(* the LCP of process p and that LCP has not yet received.  recv() returns *)
(* the head of any non-empty channel into p.                               *)
(*                                                                         *)
(* The senders are outside src/ and follow the spec: the application       *)
(* thread of process t announces its communicator id to every process      *)
(* (COMMID_UPDATE), waits at an application barrier, and on exit reports  *)
(* to the master thread manager in process 0 (THREAD_EXIT).  The main      *)
(* thread of process 0, once every thread has exited, sends                *)
(* SIMULATOR_FINISHED to every other process and waits for one            *)
(* SIMULATOR_FINISHED_ACK from each; the main thread of any other process  *)
(* waits for SIMULATOR_FINISHED and acknowledges it.  Each main thread    *)
(* then calls LCP::finish().                                               *)
(***************************************************************************)
EXTENDS Integers, Sequences, TLC

CONSTANTS
  NProcs,         \* Config::getProcessCount()
  CommIdUpdates,  \* the application threads announce communicator ids
  CycleOffset,    \* byte offset of cycle_count in the THREAD_EXIT payload
  ExitCycles(_),  \* ExitCycles(t): the cycle count thread t exits at
  Unknown         \* the values a read outside the packet can return

ASSUME /\ NProcs \in Nat \ {0} /\ CommIdUpdates \in BOOLEAN
       \* {SInt32 thread_id; UInt64 cycle_count}: packed or 8-aligned
       /\ CycleOffset \in {4, 8}

Procs == 0 .. NProcs - 1
Master == 0       \* the process whose thread manager is the master

\* One application thread per process; thread t runs in process t and its
\* communicator id is t.
Threads == Procs

VARIABLES
  chan,          \* chan[s][p]: packets from process s in flight to LCP p
  finished,      \* finished[p]: LCP::m_finished of process p
  comm_map,      \* comm_map[p]: communicator ids process p's map knows
  sim_finished,  \* sim_finished[p]: Simulator::handleFinish has run in p
  exits,         \* master: THREAD_EXITs masterOnThreadExit has accounted
  acks,          \* master: SIMULATOR_FINISHED_ACKs deallocateProcess counted
  app,           \* app[t]: "start", "inited", "ready", "exited"
  main,          \* main[p]: "wait", "collect", "finish", "lcp_wait", "returned"
  exit_time      \* master: exit_time[t], the time masterOnThreadExit got, or -1

vars == <<chan, finished, comm_map, sim_finished, exits, acks, app, main,
          exit_time>>

Msg(type, arg) == [type |-> type, arg |-> arg]

(***************************************************************************)
(* A payload as bytes: len bytes, with the value of each field stored at   *)
(* its byte offset.  Reading w bytes at offset o returns the field stored  *)
(* there when one starts at o and lies inside the packet; a read past the  *)
(* end (an out-of-bounds read of the heap buffer) can return anything.     *)
(***************************************************************************)
ExitPayload(t, c) ==
  [len |-> CycleOffset + 8, at |-> (0 :> t) @@ (CycleOffset :> c)]

ReadField(pl, o, w) ==
  IF o + w <= pl.len /\ o \in DOMAIN pl.at THEN {pl.at[o]} ELSE Unknown

\* *((SInt32*)data) and *((UInt64*)data+4): the cast binds before the
\* addition, so the second read is at element 4 of a UInt64 array, byte 32.
ExitThreadId(pl) == ReadField(pl, 0, 4)
ExitTime(pl) == ReadField(pl, 4 * 8, 8)

\* globalSend(dest, msg) from process s.
SendTo(s, dests, m) ==
  chan' = [chan EXCEPT ![s] = [p \in Procs |->
                                 IF p \in dests THEN Append(@[p], m) ELSE @[p]]]

-----------------------------------------------------------------------------
(***************************************************************************)
(* LCP::processPacket(): receive one packet and dispatch on its tag.  The  *)
(* handlers outside lcp.cc are reduced to the state they change here:      *)
(* handleFinish sets the simulator's finished flag, deallocateProcess and *)
(* masterOnThreadExit count at the master.  updateCommId writes the map    *)
(* and sends nothing back.  The spawn and join tags have no sender in this *)
(* model.                                                                  *)
(***************************************************************************)
\* case LCP_MESSAGE_QUIT.  Mutant: the case without m_finished = true.
QuitIgnored(p) == UNCHANGED <<finished, comm_map, sim_finished, exits, acks, exit_time>>

OnQuit(p) ==
  /\ finished' = [finished EXCEPT ![p] = TRUE]
  /\ UNCHANGED <<comm_map, sim_finished, exits, acks, exit_time>>

\* updateCommId: Config::updateCommToCoreMap, and no ACK.
UpdateCommId(p, id) ==
  /\ comm_map' = [comm_map EXCEPT ![p] = @ \cup {id}]
  /\ UNCHANGED <<finished, sim_finished, exits, acks, exit_time>>

\* Simulator::handleFinish.
HandleFinish(p) ==
  /\ sim_finished' = [sim_finished EXCEPT ![p] = TRUE]
  /\ UNCHANGED <<finished, comm_map, exits, acks, exit_time>>

\* Simulator::deallocateProcess, run at the master for each acknowledging
\* process.
DeallocateProcess ==
  /\ acks' = acks + 1
  /\ UNCHANGED <<finished, comm_map, sim_finished, exits, exit_time>>

\* ThreadManager::masterOnThreadExit.

MasterOnThreadExit(tid, time) ==
  /\ exits' = exits + 1
  /\ exit_time' = [exit_time EXCEPT ![tid] = time]
  /\ UNCHANGED <<finished, comm_map, sim_finished, acks>>

\* Mutant: the break of the SIMULATOR_FINISHED case missing, so it falls
\* through into the SIMULATOR_FINISHED_ACK case.
DispatchFallThrough(p, m) ==
  CASE m.type = "QUIT"                   -> OnQuit(p)
    [] m.type = "COMMID_UPDATE"          -> UpdateCommId(p, m.arg)
    [] m.type = "SIMULATOR_FINISHED"     ->
         /\ sim_finished' = [sim_finished EXCEPT ![p] = TRUE]
         /\ acks' = acks + 1
         /\ UNCHANGED <<finished, comm_map, exits, exit_time>>
    [] m.type = "SIMULATOR_FINISHED_ACK" -> DeallocateProcess
    [] m.type = "THREAD_EXIT"            ->
         \E tid \in ExitThreadId(m.arg), time \in ExitTime(m.arg) :
           MasterOnThreadExit(tid, time)

\* The switch of processPacket.
Dispatch(p, m) ==
  CASE m.type = "QUIT"                   -> OnQuit(p)
    [] m.type = "COMMID_UPDATE"          -> UpdateCommId(p, m.arg)
    [] m.type = "SIMULATOR_FINISHED"     -> HandleFinish(p)
    [] m.type = "SIMULATOR_FINISHED_ACK" -> DeallocateProcess
    [] m.type = "THREAD_EXIT"            ->
         \E tid \in ExitThreadId(m.arg), time \in ExitTime(m.arg) :
           MasterOnThreadExit(tid, time)

ProcessPacket(p, s) ==
  /\ ~finished[p]
  /\ chan[s][p] # <<>>
  /\ chan' = [chan EXCEPT ![s][p] = Tail(@)]
  /\ Dispatch(p, Head(chan[s][p]))
  /\ UNCHANGED <<app, main>>

\* LCP::run(): while (!m_finished) processPacket(), blocked in recv().
LCPStep(p) == \E s \in Procs : ProcessPacket(p, s)

(***************************************************************************)
(* LCP::finish(): send QUIT to this process's own LCP, then yield until    *)
(* m_finished holds.                                                       *)
(***************************************************************************)
Finish(p) ==
  /\ main[p] = "finish"
  /\ SendTo(p, {p}, Msg("QUIT", p))
  /\ main' = [main EXCEPT ![p] = "lcp_wait"]
  /\ UNCHANGED <<finished, comm_map, sim_finished, exits, acks, app, exit_time>>

FinishYield(p) ==
  /\ main[p] = "lcp_wait"
  /\ ~finished[p]
  /\ UNCHANGED vars

FinishReturn(p) ==
  /\ main[p] = "lcp_wait"
  /\ finished[p]
  /\ main' = [main EXCEPT ![p] = "returned"]
  /\ UNCHANGED <<chan, finished, comm_map, sim_finished, exits, acks, app, exit_time>>

-----------------------------------------------------------------------------
(***************************************************************************)
(* The senders (spec 4.3, 4.5, 5): application threads and main threads.  *)
(***************************************************************************)
\* The thread announces its communicator id to every process's LCP.
Initialize(t) ==
  /\ app[t] = "start"
  /\ IF CommIdUpdates THEN SendTo(t, Procs, Msg("COMMID_UPDATE", t))
                      ELSE UNCHANGED chan
  /\ app' = [app EXCEPT ![t] = "inited"]
  /\ UNCHANGED <<finished, comm_map, sim_finished, exits, acks, main, exit_time>>

\* An application barrier (through the MCP's sync server): it opens when
\* every thread has initialised.
AppBarrier(t) ==
  /\ app[t] = "inited"
  /\ \A u \in Threads : app[u] # "start"
  /\ app' = [app EXCEPT ![t] = "ready"]
  /\ UNCHANGED <<chan, finished, comm_map, sim_finished, exits, acks, main, exit_time>>

ThreadExit(t) ==
  /\ app[t] = "ready"
  /\ SendTo(t, {Master}, Msg("THREAD_EXIT", ExitPayload(t, ExitCycles(t))))
  /\ app' = [app EXCEPT ![t] = "exited"]
  /\ UNCHANGED <<finished, comm_map, sim_finished, exits, acks, main, exit_time>>

\* Process 0, every thread accounted: SIMULATOR_FINISHED to the others.
BroadcastFinish ==
  /\ main[Master] = "wait"
  /\ exits = NProcs
  /\ SendTo(Master, Procs \ {Master}, Msg("SIMULATOR_FINISHED", Master))
  /\ main' = [main EXCEPT ![Master] = "collect"]
  /\ UNCHANGED <<finished, comm_map, sim_finished, exits, acks, app, exit_time>>

CollectAcks ==
  /\ main[Master] = "collect"
  /\ acks = NProcs - 1
  /\ main' = [main EXCEPT ![Master] = "finish"]
  /\ UNCHANGED <<chan, finished, comm_map, sim_finished, exits, acks, app, exit_time>>

\* Any other process, once handleFinish has run: acknowledge to process 0.
AckFinish(p) ==
  /\ p # Master
  /\ main[p] = "wait"
  /\ sim_finished[p]
  /\ SendTo(p, {Master}, Msg("SIMULATOR_FINISHED_ACK", p))
  /\ main' = [main EXCEPT ![p] = "finish"]
  /\ UNCHANGED <<finished, comm_map, sim_finished, exits, acks, app, exit_time>>

\* Every main thread has returned from LCP::finish().
Terminated == (\A p \in Procs : main[p] = "returned") /\ UNCHANGED vars

-----------------------------------------------------------------------------
\* The LCP constructor: m_finished(false); the maps and the simulator are
\* fresh.
Init ==
  /\ chan = [s \in Procs |-> [p \in Procs |-> <<>>]]
  /\ finished = [p \in Procs |-> FALSE]
  /\ comm_map = [p \in Procs |-> {}]
  /\ sim_finished = [p \in Procs |-> FALSE]
  /\ exits = 0
  /\ acks = 0
  /\ app = [t \in Threads |-> "start"]
  /\ main = [p \in Procs |-> "wait"]
  /\ exit_time = [t \in Threads |-> -1]

Next ==
  \/ \E p \in Procs : \/ LCPStep(p)
                      \/ Finish(p) \/ FinishYield(p) \/ FinishReturn(p)
                      \/ AckFinish(p)
  \/ \E t \in Threads : Initialize(t) \/ AppBarrier(t) \/ ThreadExit(t)
  \/ BroadcastFinish \/ CollectAcks
  \/ Terminated

\* Each LCP runs on its own host thread blocked in recv(); main and
\* application threads are host threads that keep running (spec 5).
Fairness ==
  /\ \A p \in Procs : /\ WF_vars(LCPStep(p))
                      /\ WF_vars(Finish(p)) /\ WF_vars(FinishReturn(p))
                      /\ WF_vars(AckFinish(p))
  /\ \A t \in Threads : /\ WF_vars(Initialize(t)) /\ WF_vars(AppBarrier(t))
                        /\ WF_vars(ThreadExit(t))
  /\ WF_vars(BroadcastFinish) /\ WF_vars(CollectAcks)

Spec == Init /\ [][Next]_vars /\ Fairness

-----------------------------------------------------------------------------
(***************************************************************************)
(* Properties                                                              *)
(***************************************************************************)
Packet == [type : {"QUIT", "COMMID_UPDATE", "SIMULATOR_FINISHED",
                   "SIMULATOR_FINISHED_ACK"}, arg : Procs]
          \cup [type : {"THREAD_EXIT"},
                arg : {ExitPayload(t, ExitCycles(t)) : t \in Threads}]

TypeOK ==
  /\ chan \in [Procs -> [Procs -> Seq(Packet)]]
  /\ finished \in [Procs -> BOOLEAN]
  /\ comm_map \in [Procs -> SUBSET Threads]
  /\ sim_finished \in [Procs -> BOOLEAN]
  /\ exits \in 0 .. NProcs
  /\ acks \in 0 .. NProcs - 1
  /\ app \in [Threads -> {"start", "inited", "ready", "exited"}]
  /\ main \in [Procs -> {"wait", "collect", "finish", "lcp_wait", "returned"}]
  /\ exit_time \in [Threads -> Unknown \cup {-1} \cup {ExitCycles(t) : t \in Threads}]

\* Spec 8 (round trip, scenario 6): the shutdown handshake and
\* LCP::finish() terminate: every main thread returns from LCP::finish().
ShutdownCompletes == <>(\A p \in Procs : main[p] = "returned")

\* Spec 8 scenario 6: when a process's main thread has returned from
\* LCP::finish(), no packet is left in flight to its LCP: every buffer has
\* been received and released.
NoPacketLeftBehind ==
  \A p \in Procs : main[p] = "returned" => \A s \in Procs : chan[s][p] = <<>>

\* Spec 4.3: THREAD_EXIT carries {thread_id, cycle_count} for the master's
\* exit accounting.  The exit time masterOnThreadExit is given for a thread
\* is the cycle count that thread sent in its THREAD_EXIT (processPacket's
\* decode of the payload, lcp.cc l.74).
ExitTimeDelivered ==
  \A t \in Threads : exit_time[t] # -1 => exit_time[t] = ExitCycles(t)
=============================================================================
