------------------------------ MODULE PerfModel ------------------------------
(***************************************************************************)
(* The per-tile performance model of src/common/performance_model:        *)
(* CorePerfModel (core_perf_model.cc) with the MagicPepPerformanceModel   *)
(* cost routine (magic_pep_performance_model.cc), driven by the           *)
(* functional side that queues basic blocks and pushes dynamic facts.     *)
(*                                                                         *)
(* An instruction is identified by its index in the program Prog.  A      *)
(* basic block is the sequence of the indices it holds.  A dynamic fact    *)
(* carries the index of the instruction and the operand it was produced    *)
(* for; the code ignores both (it keeps an address it never reads), the   *)
(* model keeps them only so that properties can tell facts apart.          *)
(***************************************************************************)
EXTENDS Naturals, Sequences, SequencesExt

CONSTANTS
  Prog,             \* the instructions the functional side executes, in order
  ModeledTypes,     \* MagicPepPerformanceModel::isModeled: RECV, SYNC, SPAWN
  Latency(_, _),    \* latency of the fact for operand j of instruction i
  QueueCap,         \* the 5000 of the dynamic-info queue assertions
  PerformanceModelingOn, \* Config::getEnablePerformanceModeling()
  BundleFacts,      \* the facts of one instruction are pushed together
  DrainedBeforeSwitch, \* iterate() has drained to the sentinel before a switch
  MaxSwitches       \* bound on enable/disable calls

Ins == DOMAIN Prog
N == Len(Prog)

ASSUME /\ N \in Nat \ {0}
       /\ \A i \in Ins : Prog[i].ops \in Seq({"READ", "WRITE"})
       /\ QueueCap \in Nat \ {0}
       /\ BundleFacts \in BOOLEAN /\ DrainedBeforeSwitch \in BOOLEAN

\* The dynamic facts the functional side produces for instruction i, one per
\* memory operand, in operand order (spec: DynamicInstructionInfo).
FactsOf(i) == [j \in DOMAIN Prog[i].ops |->
                 [ins |-> i, op |-> j, type |-> Prog[i].ops[j],
                  latency |-> Latency(i, j)]]

Fact == UNION {Range(FactsOf(i)) : i \in Ins}

VARIABLES
  enabled,            \* m_enabled
  basic_block_queue,  \* m_basic_block_queue: a sequence of blocks
  current_ins_index,  \* m_current_ins_index (0-based, as in the code)
  dynamic_info_queue, \* m_dynamic_info_queue
  cycle_count,        \* m_cycle_count
  instruction_count,  \* MagicPepPerformanceModel::m_instruction_count
  failed,             \* a LOG_ASSERT_ERROR has fired; the process is dead
  next_ins,           \* functional side: next instruction to execute
  pending,            \* functional side: facts produced, not yet pushed
  switches,           \* enable/disable calls made so far
  accepted,           \* history: instructions taken into the queue, in order
  costed              \* history: instructions handleInstruction completed

model == <<enabled, basic_block_queue, current_ins_index, dynamic_info_queue,
           cycle_count, instruction_count, failed>>
env == <<next_ins, pending, switches>>
vars == <<model, env, accepted, costed>>

Gate == enabled /\ PerformanceModelingOn

-----------------------------------------------------------------------------
(***************************************************************************)
(* The cost routine.  handleInstruction walks the operands; for a memory   *)
(* operand it peeks the fact queue (getDynamicInstructionInfo), which      *)
(* throws DynamicInstructionInfoNotAvailable when it is empty, asserts the *)
(* fact's type, adds its latency and pops it.  A pop already done stays    *)
(* done when a later operand throws: the local cost is lost, the pops are  *)
(* not.  popDynamicInstructionInfo returns without popping when disabled.  *)
(* The result is [status, fq, cost] with status "done", "stall" or "fail". *)
(***************************************************************************)
RECURSIVE CostOperands(_, _, _, _, _)
CostOperands(ops, j, fq, cost, en) ==
  IF j > Len(ops) THEN [status |-> "done", fq |-> fq, cost |-> cost]
  ELSE IF fq = <<>> THEN [status |-> "stall", fq |-> fq, cost |-> cost]
  ELSE IF Len(fq) >= QueueCap \/ Head(fq).type # ops[j]
       THEN [status |-> "fail", fq |-> fq, cost |-> cost]
  ELSE CostOperands(ops, j + 1, IF en THEN Tail(fq) ELSE fq,
                    cost + Head(fq).latency, en)

IsModeled(t) == t \in ModeledTypes

HandleInstruction(i, fq, en) ==
  LET r == CostOperands(Prog[i].ops, 1, fq, 0, en)
  IN  [r EXCEPT !.cost = @ + IF IsModeled(Prog[i].type) THEN Prog[i].cost ELSE 1]

(***************************************************************************)
(* iterate(): while more than one block is queued, cost the head block     *)
(* from m_current_ins_index on; pop it and reset the cursor when it is     *)
(* done; return on a stall.  It runs under the queue lock on the producing *)
(* thread, so one call is one step.  s is the model state as a record.     *)
(***************************************************************************)
\* while (m_basic_block_queue.size() > 1): the last block is the sentinel.
\* Mutant: the loop keeps two blocks.
MoreThanTwo(q) == Len(q) > 2
MoreThanSentinel(q) == Len(q) > 1

\* The block is done: pop it and reset the cursor.  Mutant: no reset.
PopBlockNoReset(s) == [s EXCEPT !.q = Tail(@)]
PopBlock(s) == [s EXCEPT !.q = Tail(@), !.idx = 0]

\* catch (DynamicInstructionInfoNotAvailableException): return.  Mutant: the
\* exception is caught per instruction, like AbortInstructionException.
OnNotAvailableSkips(s, r) == [s EXCEPT !.fq = r.fq, !.idx = @ + 1]
OnNotAvailable(s, r) == [s EXCEPT !.fq = r.fq, !.stop = TRUE]

RECURSIVE Drain(_, _)
Drain(s, en) ==
  IF s.stop \/ ~MoreThanSentinel(s.q) THEN s
  ELSE IF s.idx >= Len(Head(s.q)) THEN Drain(PopBlock(s), en)
  ELSE LET i == Head(s.q)[s.idx + 1]
           r == HandleInstruction(i, s.fq, en)
       IN CASE r.status = "stall" -> Drain(OnNotAvailable(s, r), en)
            [] r.status = "fail"  -> [s EXCEPT !.fq = r.fq, !.failed = TRUE]
            [] OTHER -> Drain([s EXCEPT !.fq = r.fq, !.idx = @ + 1,
                                 !.cycles = @ + r.cost, !.count = @ + 1,
                                 !.costed = Append(@, i)], en)

Iterate ==
  LET s0 == [q |-> basic_block_queue, idx |-> current_ins_index,
             fq |-> dynamic_info_queue, cycles |-> cycle_count,
             count |-> instruction_count, failed |-> FALSE, costed |-> costed,
             stop |-> FALSE]
  IN /\ ~failed
     /\ Len(basic_block_queue) > 1
     /\ \E s \in {Drain(s0, Gate)} :
        /\ basic_block_queue' = s.q
        /\ current_ins_index' = s.idx
        /\ dynamic_info_queue' = s.fq
        /\ cycle_count' = s.cycles
        /\ instruction_count' = s.count
        /\ failed' = s.failed
        /\ costed' = s.costed
     /\ UNCHANGED <<enabled, env, accepted>>

-----------------------------------------------------------------------------
(***************************************************************************)
(* The functional side.  It executes Prog in order; a block of k          *)
(* instructions is queued when it starts, and the facts of its memory     *)
(* operands are produced as the instructions execute and pushed later,    *)
(* in instruction order.  A fact of instruction i is never pushed before  *)
(* i was queued.                                                           *)
(***************************************************************************)
BlockAt(k) == [j \in 1..k |-> next_ins + j - 1]

Execute(b) ==
  /\ next_ins' = next_ins + Len(b)
  /\ pending' = pending \o FlattenSeq([j \in DOMAIN b |-> FactsOf(b[j])])

\* queueBasicBlock(b): dropped (the caller keeps b) when disabled.
QueueBasicBlock(k) ==
  /\ ~failed
  /\ next_ins + k - 1 <= N
  /\ IF Gate
       THEN /\ basic_block_queue' = Append(basic_block_queue, BlockAt(k))
            /\ accepted' = accepted \o BlockAt(k)
       ELSE UNCHANGED <<basic_block_queue, accepted>>
  /\ Execute(BlockAt(k))
  /\ UNCHANGED <<enabled, current_ins_index, dynamic_info_queue, cycle_count,
                 instruction_count, failed, switches, costed>>

\* queueDynamicInstruction(i): wraps i in a fresh dynamic block of one
\* instruction; deletes i when disabled.
QueueDynamicInstruction ==
  /\ ~failed
  /\ next_ins <= N
  /\ IF Gate
       THEN /\ basic_block_queue' = Append(basic_block_queue, <<next_ins>>)
            /\ accepted' = Append(accepted, next_ins)
       ELSE UNCHANGED <<basic_block_queue, accepted>>
  /\ Execute(<<next_ins>>)
  /\ UNCHANGED <<enabled, current_ins_index, dynamic_info_queue, cycle_count,
                 instruction_count, failed, switches, costed>>

\* pushDynamicInstructionInfo(f): dropped when disabled.  With BundleFacts
\* the facts of one instruction arrive in one step, as the FIXME of
\* getDynamicInstructionInfo assumes; otherwise one fact per step.
\* BatchLen: the facts pushed in one step.
BatchLen == IF BundleFacts
              THEN Len(SelectSeq(pending, LAMBDA f : f.ins = Head(pending).ins))
              ELSE 1

\* The queue after the push: unchanged when disabled.  Mutant: without the
\* m_enabled test.
AdmitUngated(fq, batch) == fq \o batch
Admit(fq, batch) == IF Gate THEN fq \o batch ELSE fq

PushDynamicInstructionInfo ==
  /\ ~failed
  /\ pending # <<>>
  /\ dynamic_info_queue' = Admit(dynamic_info_queue, SubSeq(pending, 1, BatchLen))
  /\ pending' = SubSeq(pending, BatchLen + 1, Len(pending))
  /\ UNCHANGED <<enabled, basic_block_queue, current_ins_index, cycle_count,
                 instruction_count, failed, next_ins, switches, accepted, costed>>

(***************************************************************************)
(* enable()/disable().  They are called by the rank-0 thread of the        *)
(* process between the two barriers of CarbonEnableModels and              *)
(* CarbonDisableModels, while this tile's thread waits in the barrier:    *)
(* its facts are all pushed.  With DrainedBeforeSwitch its last iterate() *)
(* has also left only the sentinel block.  enable()'s early return for the *)
(* MCP core (l.88) concerns the calling thread, see ModelsBarrier.         *)
(***************************************************************************)
SwitchAllowed ==
  /\ ~failed
  /\ pending = <<>>
  /\ switches < MaxSwitches
  /\ DrainedBeforeSwitch => Len(basic_block_queue) <= 1

Enable ==
  /\ SwitchAllowed
  /\ enabled' = TRUE
  /\ switches' = switches + 1
  /\ UNCHANGED <<basic_block_queue, current_ins_index, dynamic_info_queue,
                 cycle_count, instruction_count, failed, next_ins, pending,
                 accepted, costed>>

Disable ==
  /\ SwitchAllowed
  /\ enabled' = FALSE
  /\ switches' = switches + 1
  /\ UNCHANGED <<basic_block_queue, current_ins_index, dynamic_info_queue,
                 cycle_count, instruction_count, failed, next_ins, pending,
                 accepted, costed>>

-----------------------------------------------------------------------------
Init ==
  /\ enabled = FALSE
  /\ basic_block_queue = <<>>
  /\ current_ins_index = 0
  /\ dynamic_info_queue = <<>>
  /\ cycle_count = 0
  /\ instruction_count = 0
  /\ failed = FALSE
  /\ next_ins = 1
  /\ pending = <<>>
  /\ switches = 0
  /\ accepted = <<>>
  /\ costed = <<>>

Next ==
  \/ \E k \in 1..2 : QueueBasicBlock(k)
  \/ QueueDynamicInstruction
  \/ PushDynamicInstructionInfo
  \/ Iterate
  \/ Enable
  \/ Disable

\* The functional thread keeps running its program and calls iterate()
\* inline; nothing forces the environment to switch the model.
Fairness ==
  /\ WF_vars(Iterate)
  /\ WF_vars(PushDynamicInstructionInfo)
  /\ WF_vars(QueueDynamicInstruction \/ \E k \in 1..2 : QueueBasicBlock(k))

Spec == Init /\ [][Next]_vars /\ Fairness

-----------------------------------------------------------------------------
(***************************************************************************)
(* Properties                                                              *)
(***************************************************************************)
TypeOK ==
  /\ enabled \in BOOLEAN
  /\ basic_block_queue \in Seq(Seq(Ins))
  /\ dynamic_info_queue \in Seq(Fact)
  /\ cycle_count \in Nat /\ instruction_count \in Nat
  /\ failed \in BOOLEAN
  /\ next_ins \in 1..N + 1
  /\ pending \in Seq(Fact)
  \* spec 3: the cursor stays within the head block
  /\ basic_block_queue # <<>> =>
       current_ins_index \in 0..Len(Head(basic_block_queue)) - 1

\* What instruction i should cost: its static cost if its type is modelled,
\* else 1, plus the latencies of its own memory facts.
TrueCost(i) ==
  (IF IsModeled(Prog[i].type) THEN Prog[i].cost ELSE 1)
  + FoldSeq(LAMBDA f, a : f.latency + a, 0, FactsOf(i))

(***************************************************************************)
(* Refinement: the model implements CostQueue.  The instructions accepted *)
(* and not yet costed are the abstract todo, those handleInstruction       *)
(* completed are done, and m_cycle_count and m_instruction_count are the   *)
(* counts.  A step of iterate() that completes instructions is one        *)
(* CostSome; a stall, a block pop, a push, a switch or a dropped block is  *)
(* a stutter.                                                              *)
(***************************************************************************)
CQ == INSTANCE CostQueue
        WITH Cost <- TrueCost,
             todo <- SubSeq(accepted, Len(costed) + 1, Len(accepted)),
             done <- costed,
             cycles <- cycle_count,
             count <- instruction_count

\* Spec 5 and 8: iterate() costs the instructions in exactly the order they
\* were queued, none skipped and none twice, whatever the block boundaries,
\* stalls and cursor resets in between; each adds its static or unit cost
\* plus the latencies of its own facts to m_cycle_count and one to
\* m_instruction_count; and nothing else changes the two counters.
CostQueueRefined == CQ!Spec

\* Queue balance (spec 4.2): no LOG_ASSERT_ERROR of getDynamicInstructionInfo
\* or popDynamicInstructionInfo fires: the fact at the head always has the
\* type of the operand that reads it, and the queue stays under its cap.
NoAssertionFailure == ~failed

\* Every instruction that sits in a block other than the last one is
\* eventually costed: a stall in iterate() is always resumed.
NotLast == UNION {Range(basic_block_queue[b]) : b \in 1..Len(basic_block_queue) - 1}
StallResumes ==
  \A i \in Ins : (i \in NotLast) ~> (i \in Range(costed))

\* Spec 3: while the model is disabled both queues are empty.
QueuesEmptyWhileDisabled ==
  ~enabled => (basic_block_queue = <<>> /\ dynamic_info_queue = <<>>)
=============================================================================
