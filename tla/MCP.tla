--------------------------------- MODULE MCP ---------------------------------
(***************************************************************************)
(* The Master Control Process (src/common/system/mcp.cc) with the parties *)
(* it talks to over the network: application cores that send it requests *)
(* (perf_counter_support.cc and the user API), the sim thread of each      *)
(* process's representative core that applies a comm-map update and acks  *)
(* it, and the main thread that shuts it down with MCP::finish().          *)
(*                                                                         *)
(* The network delivers each sender's packets in order; netRecv(match)    *)
(* returns the oldest packet whose type is in match.  A core's inbox and  *)
(* the MCP's inbox are sequences in arrival order.                         *)
(***************************************************************************)
EXTENDS Naturals, Sequences, SequencesExt, FiniteSets

CONSTANTS
  Cores,        \* application cores
  Procs,        \* host processes
  Rep,          \* Rep[p]: getCoreListForProcess(p)[0]
  ProcOrder,    \* the processes in proc_id order, as a sequence
  MaxRequests,  \* bound on the requests one core sends
  ClientOps     \* the requests application cores may send

\* MCP message types that reach MCP::run (message_types.h).
Handled == {"SYS_CALL", "QUIT", "MUTEX_INIT", "MUTEX_LOCK", "MUTEX_UNLOCK",
            "COND_INIT", "COND_WAIT", "COND_SIGNAL", "COND_BROADCAST",
            "BARRIER_INIT", "BARRIER_WAIT", "UTILIZATION_UPDATE",
            "BROADCAST_COMM_MAP_UPDATE"}
\* perf_counter_support.cc sends these to the MCP and waits for a response.
CacheCounterOps == {"RESET_CACHE_COUNTERS", "DISABLE_CACHE_COUNTERS"}
\* Requests whose sender blocks for a MCP_RESPONSE_TYPE reply.
Blocking == {"SYS_CALL"} \cup CacheCounterOps

ASSUME /\ Rep \in [Procs -> Cores]
       /\ ProcOrder \in Seq(Procs) /\ Range(ProcOrder) = Procs
       /\ Len(ProcOrder) = Cardinality(Procs)
       /\ ClientOps \subseteq {"SYS_CALL", "UTILIZATION_UPDATE",
                               "BROADCAST_COMM_MAP_UPDATE"} \cup CacheCounterOps

MCPCore == "mcp"      \* g_config->getMCPCoreNum()

VARIABLES
  mcp_inbox,    \* mcp_inbox[s]: packets from sender s to the MCP core, in order
  core_inbox,   \* core_inbox[c]: packets delivered to core c
  mcp_pc,       \* "loop", "bcast_send", "bcast_recv", "failed"
  finished,     \* MCP::m_finished
  bcast,        \* the broadcast in progress: [proc_id, update]
  client,       \* client[c]: "idle", "waiting", "done"
  sent,         \* requests core c has sent
  comm_map,     \* comm_map[p]: comm-map updates applied in process p, in order
  served,       \* history: comm-map updates the MCP has broadcast, in order
  shutdown      \* main thread: "running", "finishing", "returned"

vars == <<mcp_inbox, core_inbox, mcp_pc, finished, bcast, client, sent,
          comm_map, served, shutdown>>

Pkt(from, type, msg) == [sender |-> from, type |-> type, msg |-> msg]

\* netRecv(match): the index of the oldest packet whose type is in match.
FirstMatch(q, match) == CHOOSE i \in DOMAIN q :
                          q[i].type \in match /\ \A j \in 1..i - 1 : q[j].type \notin match
HasMatch(q, match) == \E i \in DOMAIN q : q[i].type \in match

Send(to, pkt) == core_inbox' = [core_inbox EXCEPT ![to] = Append(@, pkt)]

\* The MCP's network: FIFO per sender, no order across senders, so
\* netRecv(match) may return the oldest matching packet of any sender.
Senders == Cores \cup {MCPCore}
MCPSend(s, pkt) == mcp_inbox' = [mcp_inbox EXCEPT ![s] = Append(@, pkt)]
NetRecv(s, match) ==
  /\ HasMatch(mcp_inbox[s], match)
  /\ mcp_inbox' = [mcp_inbox EXCEPT ![s] = RemoveAt(@, FirstMatch(@, match))]
ReqTypes == {"MCP_REQUEST_TYPE", "MCP_SYSTEM_TYPE"}

-----------------------------------------------------------------------------
(***************************************************************************)
(* MCP::run(): receive one MCP_REQUEST_TYPE or MCP_SYSTEM_TYPE packet and  *)
(* dispatch on its message type.  The syscall server answers the sender   *)
(* at once (spec 4.4); the analytical network model server only records.  *)
(* A comm-map update starts broadcastPacketToProcesses.  An unknown type  *)
(* fires LOG_ASSERT_ERROR.  The sync server requests (mutex, cond,        *)
(* barrier) are modelled with the sync server, not here.                   *)
(***************************************************************************)
Run(s) ==
  LET pkt == mcp_inbox[s][FirstMatch(mcp_inbox[s], ReqTypes)]
  IN /\ mcp_pc = "loop"
     /\ ~finished
     /\ NetRecv(s, ReqTypes)
     /\ CASE pkt.msg.op = "SYS_CALL" ->
               /\ Send(pkt.sender, Pkt(MCPCore, "MCP_RESPONSE_TYPE", "SYS_CALL"))
               /\ UNCHANGED <<mcp_pc, finished, bcast>>
          [] pkt.msg.op = "QUIT" ->
               /\ finished' = TRUE
               /\ UNCHANGED <<core_inbox, mcp_pc, bcast>>
          [] pkt.msg.op = "UTILIZATION_UPDATE" ->
               UNCHANGED <<core_inbox, mcp_pc, finished, bcast>>
          [] pkt.msg.op = "BROADCAST_COMM_MAP_UPDATE" ->
               /\ mcp_pc' = "bcast_send"
               /\ bcast' = [proc_id |-> 1, update |-> pkt.msg.update]
               /\ UNCHANGED <<core_inbox, finished>>
          [] OTHER ->
               /\ mcp_pc' = "failed"
               /\ UNCHANGED <<core_inbox, finished, bcast>>
     /\ UNCHANGED <<client, sent, comm_map, served, shutdown>>

(***************************************************************************)
(* broadcastPacketToProcesses: for proc_id = 0 .. getProcessCount()-1,     *)
(* send the packet, as SIM_THREAD_UPDATE_COMM_MAP from the MCP, to the     *)
(* first core of the process, then block in netRecv until a               *)
(* MCP_RESPONSE_TYPE packet arrives, from whomever.                        *)
(***************************************************************************)
\* The exit test of the loop, proc_id < getProcessCount(), after proc_id.
\* Mutants: the loop stops one process short; it runs one past the end.
LastProcOneShort(i) == i = Len(ProcOrder) - 1
LastProcOverrun(i) == i = Len(ProcOrder) + 1
LastProc(i) == i = Len(ProcOrder)

\* Mutant of the fan-out: no wait for the ack.
BroadcastSendNoAck ==
  LET p == ProcOrder[bcast.proc_id]
  IN /\ mcp_pc = "bcast_send"
     /\ Send(Rep[p], Pkt(MCPCore, "SIM_THREAD_UPDATE_COMM_MAP", [update |-> bcast.update]))
     /\ IF LastProc(bcast.proc_id)
          THEN /\ mcp_pc' = "loop"
               /\ served' = Append(served, bcast.update)
               /\ UNCHANGED bcast
          ELSE /\ bcast' = [bcast EXCEPT !.proc_id = @ + 1]
               /\ UNCHANGED <<mcp_pc, served>>
     /\ UNCHANGED <<mcp_inbox, finished, client, sent, comm_map, shutdown>>

BroadcastSend ==
  LET p == ProcOrder[bcast.proc_id]
  IN /\ mcp_pc = "bcast_send"
     /\ Send(Rep[p], Pkt(MCPCore, "SIM_THREAD_UPDATE_COMM_MAP", [update |-> bcast.update]))
     /\ mcp_pc' = "bcast_recv"
     /\ UNCHANGED <<mcp_inbox, finished, bcast, client, sent, comm_map, served, shutdown>>

BroadcastRecv ==
  /\ mcp_pc = "bcast_recv"
  /\ \E s \in Senders : NetRecv(s, {"MCP_RESPONSE_TYPE"})
  /\ IF LastProc(bcast.proc_id)
       THEN /\ mcp_pc' = "loop"
            /\ served' = Append(served, bcast.update)
            /\ UNCHANGED bcast
       ELSE /\ mcp_pc' = "bcast_send"
            /\ bcast' = [bcast EXCEPT !.proc_id = @ + 1]
            /\ UNCHANGED served
  /\ UNCHANGED <<core_inbox, finished, client, sent, comm_map, shutdown>>

-----------------------------------------------------------------------------
(***************************************************************************)
(* The sim thread of a process's first core: it applies a                 *)
(* SIM_THREAD_UPDATE_COMM_MAP to the process's comm map and answers the   *)
(* MCP with a MCP_RESPONSE_TYPE packet (the MCP waits for it, mcp.cc      *)
(* l.138-143).                                                             *)
(***************************************************************************)
SimThreadUpdateCommMap(p) ==
  LET q == core_inbox[Rep[p]]
      i == FirstMatch(q, {"SIM_THREAD_UPDATE_COMM_MAP"})
  IN /\ HasMatch(q, {"SIM_THREAD_UPDATE_COMM_MAP"})
     /\ core_inbox' = [core_inbox EXCEPT ![Rep[p]] = RemoveAt(q, i)]
     /\ comm_map' = [comm_map EXCEPT ![p] = Append(@, q[i].msg.update)]
     /\ MCPSend(Rep[p], Pkt(Rep[p], "MCP_RESPONSE_TYPE", [op |-> "ACK", update |-> <<>>]))
     /\ UNCHANGED <<mcp_pc, finished, bcast, client, sent, served, shutdown>>

(***************************************************************************)
(* Application cores.  A blocking request (a syscall,                      *)
(* CarbonResetCacheCounters, CarbonDisableCacheCounters) waits in          *)
(* netRecv(MCP core, MCP_RESPONSE_TYPE); a comm-map update (CAPI_Initialize)*)
(* and a utilization update do not.  The cache-counter requests go as      *)
(* MCP_SYSTEM_TYPE (perf_counter_support.cc l.70, l.85), the others as      *)
(* MCP_REQUEST_TYPE.  An update is <<core, its request number>>.           *)
(***************************************************************************)
Request(c, op) ==
  /\ client[c] = "idle"
  /\ sent[c] < MaxRequests
  /\ MCPSend(c,
       Pkt(c, IF op \in CacheCounterOps THEN "MCP_SYSTEM_TYPE" ELSE "MCP_REQUEST_TYPE",
           [op |-> op, update |-> IF op = "BROADCAST_COMM_MAP_UPDATE" THEN <<c, sent[c]>> ELSE <<>>]))
  /\ sent' = [sent EXCEPT ![c] = @ + 1]
  /\ client' = [client EXCEPT ![c] = IF op \in Blocking THEN "waiting" ELSE "idle"]
  /\ UNCHANGED <<core_inbox, mcp_pc, finished, bcast, comm_map, served, shutdown>>

Reply(c) ==
  LET q == core_inbox[c]
      i == FirstMatch(q, {"MCP_RESPONSE_TYPE"})
  IN /\ client[c] = "waiting"
     /\ HasMatch(q, {"MCP_RESPONSE_TYPE"})
     /\ core_inbox' = [core_inbox EXCEPT ![c] = RemoveAt(q, i)]
     /\ client' = [client EXCEPT ![c] = "idle"]
     /\ UNCHANGED <<mcp_inbox, mcp_pc, finished, bcast, sent, comm_map, served, shutdown>>

ThreadExit(c) ==
  /\ client[c] = "idle"
  /\ client' = [client EXCEPT ![c] = "done"]
  /\ UNCHANGED <<mcp_inbox, core_inbox, mcp_pc, finished, bcast, sent, comm_map,
                 served, shutdown>>

(***************************************************************************)
(* MCP::finish(), called once the application threads have exited: send   *)
(* MCP_MESSAGE_QUIT to the MCP core as MCP_SYSTEM_TYPE, then yield until  *)
(* finished() holds.                                                       *)
(***************************************************************************)
\* Mutant: the QUIT sent with the response type class, which MCP::run's
\* netRecv does not match.
FinishWrongType ==
  /\ shutdown = "running"
  /\ \A c \in Cores : client[c] = "done"
  /\ MCPSend(MCPCore, Pkt(MCPCore, "MCP_RESPONSE_TYPE", [op |-> "QUIT", update |-> <<>>]))
  /\ shutdown' = "finishing"
  /\ UNCHANGED <<core_inbox, mcp_pc, finished, bcast, client, sent, comm_map, served>>

Finish ==
  /\ shutdown = "running"
  /\ \A c \in Cores : client[c] = "done"
  /\ MCPSend(MCPCore, Pkt(MCPCore, "MCP_SYSTEM_TYPE", [op |-> "QUIT", update |-> <<>>]))
  /\ shutdown' = "finishing"
  /\ UNCHANGED <<core_inbox, mcp_pc, finished, bcast, client, sent, comm_map, served>>

\* while (!finished()) sched_yield();
FinishYield ==
  /\ shutdown = "finishing"
  /\ ~finished
  /\ UNCHANGED vars

FinishReturn ==
  /\ shutdown = "finishing"
  /\ finished
  /\ shutdown' = "returned"
  /\ UNCHANGED <<mcp_inbox, core_inbox, mcp_pc, finished, bcast, client, sent,
                 comm_map, served>>

\* The simulation has ended.
Terminated == shutdown = "returned" /\ UNCHANGED vars

-----------------------------------------------------------------------------
Init ==
  /\ mcp_inbox = [s \in Senders |-> <<>>]
  /\ core_inbox = [c \in Cores |-> <<>>]
  /\ mcp_pc = "loop"
  /\ finished = FALSE
  /\ bcast = [proc_id |-> 1, update |-> <<>>]
  /\ client = [c \in Cores |-> "idle"]
  /\ sent = [c \in Cores |-> 0]
  /\ comm_map = [p \in Procs |-> <<>>]
  /\ served = <<>>
  /\ shutdown = "running"

Next ==
  \/ \E s \in Senders : Run(s)
  \/ BroadcastSend \/ BroadcastRecv
  \/ \E p \in Procs : SimThreadUpdateCommMap(p)
  \/ \E c \in Cores : \/ \E op \in ClientOps : Request(c, op)
                      \/ Reply(c)
                      \/ ThreadExit(c)
  \/ Finish \/ FinishYield \/ FinishReturn \/ Terminated

\* The MCP thread is blocked in netRecv and runs whenever a packet it
\* matches has arrived; the network delivers every sender's packets; the
\* sim threads, the application threads and the main thread keep running
\* (spec 5).  The yield loop changes nothing and needs no fairness.
Fairness ==
  /\ \A s \in Senders : WF_vars(Run(s))
  /\ WF_vars(BroadcastSend) /\ WF_vars(BroadcastRecv)
  /\ \A p \in Procs : WF_vars(SimThreadUpdateCommMap(p))
  /\ \A c \in Cores : WF_vars(Reply(c)) /\ WF_vars(ThreadExit(c))
  /\ WF_vars(Finish) /\ WF_vars(FinishReturn)

Spec == Init /\ [][Next]_vars /\ Fairness

-----------------------------------------------------------------------------
(***************************************************************************)
(* Properties                                                              *)
(***************************************************************************)
Update == {<<>>} \cup (Cores \X (0..MaxRequests))

TypeOK ==
  /\ mcp_pc \in {"loop", "bcast_send", "bcast_recv", "failed"}
  /\ finished \in BOOLEAN
  /\ bcast \in [proc_id : 1..Len(ProcOrder), update : Update]
  /\ client \in [Cores -> {"idle", "waiting", "done"}]
  /\ sent \in [Cores -> 0..MaxRequests]
  /\ comm_map \in [Procs -> Seq(Update)]
  /\ shutdown \in {"running", "finishing", "returned"}

\* Spec 5: a comm-map update seen in any process implies that every earlier
\* update has reached every process: broadcastPacketToProcesses waits for an
\* ack after each send, and the MCP serves one broadcast at a time.
EarlierBroadcastsPropagated ==
  \A p, q \in Procs : comm_map[p] # <<>> => IsPrefix(Front(comm_map[p]), comm_map[q])

\* Spec 8: a broadcast returns to the MCP loop only after one ack per
\* process: then every process has applied every update served so far.
BroadcastCompleteOnReturn ==
  mcp_pc = "loop" => \A p \in Procs : comm_map[p] = served

\* Every request the MCP receives is one MCP::run dispatches: the
\* LOG_ASSERT_ERROR of its default case (mcp.cc l.94) never fires.
NoUnhandledMessage == mcp_pc # "failed"

\* Spec 5 and 8 (scenario 6): shutdown serves every request already sent:
\* when MCP::run stops, no request or system packet from any sender is
\* left unreceived.  MCP::finish sends its QUIT from the MCP core, a sender
\* of its own, after the application threads have exited.
AllRequestsServed ==
  finished => \A s \in Senders : ~HasMatch(mcp_inbox[s], ReqTypes)

\* Spec 8 (round trip): after the application threads exit, MCP::finish()
\* returns: its QUIT reaches MCP::run through the per-sender network, past
\* the broadcasts that block the MCP on acks, and sets m_finished.
MCPFinishReturns == <>(shutdown = "returned")
=============================================================================
