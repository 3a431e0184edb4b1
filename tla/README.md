# TLA+ models of Graphite's common runtime (src/common)

This directory holds TLA+ specifications of the parts of `src/common` whose
behaviour depends on interleavings, message order and arithmetic edge cases.
It also holds the TLC configurations that check them. `PROJECT.json` lists:

- the components;
- the runs;
- the mutants;
- the definition-to-source map;
- the findings;
- the hazards.

## The system and its parts

| Part | Source | State | Operations | Talks to |
|---|---|---|---|---|
| CorePerfModel queues | `performance_model/core_perf_model.cc` | `m_enabled`, basic-block queue, `m_current_ins_index`, dynamic-info queue | enable, disable, queueBasicBlock, queueDynamicInstruction, push/pop/getDynamicInstructionInfo, iterate | the functional (producing) thread; the models barrier |
| CorePerfModel frequency | same file | `m_cycle_count`, `m_checkpointed_cycle_count`, `m_frequency`, `m_average_frequency`, `m_total_time` | setCycleCount, updateInternalVariablesOnFrequencyChange, recomputeAverageFrequency | thread start/exit, DVFS |
| MagicPepPerformanceModel | `performance_models/magic_pep_performance_model.cc` | `m_instruction_count`, `m_cycle_count` | handleInstruction, isModeled | called by iterate |
| MCP | `system/mcp.cc` | `m_finished`, its network inbox | run (dispatch), broadcastPacketToProcesses, finish | application cores, syscall/sync/network servers, sim threads, main thread |
| LCP | `system/lcp.cc` | `m_finished` | run, processPacket, finish, updateCommId | transport, thread manager, simulator, other LCPs |
| Models barrier and counter API | `user/perf_counter_support.cc` | `models_barrier` | CarbonInitModels, Enable/Disable/ResetModels, Reset/DisableCacheCounters | sync server (barrier), MCP |
| C API and Config | `user/capi.h`, `config/config.hpp` | none (declarations and interface only) | none | none |

### What makes each part hard

- **Queues and iterate.** Two streams must be consumed in lock-step: the
  blocks of instructions and the per-operand facts. The functional thread
  produces both, and iterate costs them.
  - A fact that is not yet there throws `DynamicInstructionInfoNotAvailable`.
    iterate then returns and resumes later at `m_current_ins_index`.
  - The facts already popped for earlier operands are not restored.
  - `pop` is a no-op while disabled, but `get` is not gated.
- **Frequency.** The code recomputes a time-weighted average in float at
  every frequency change and every thread exit. It is exposed to `0/0` and to
  an unsigned subtraction that must not wrap.
- **MCP.** It is a single server loop. A comm-map broadcast blocks it
  until one ack per process has arrived, and it takes any response packet as
  that ack. An unknown message type is fatal. Shutdown is a QUIT message from
  the main thread, which polls `finished()`.
- **LCP.** One per process, a loop over the transport that dispatches on a
  tag word. Shutdown is a handshake: the master counts THREAD_EXITs,
  broadcasts SIMULATOR_FINISHED and collects acks; then each process sends a
  QUIT to its own LCP. The transport orders packets only per sender.
- **Models barrier.** Enable/Disable/ResetModels are collective: every
  application core waits twice on one barrier, and in between core 0 of each
  process switches the models of every tile of its process.

## Modules

### `PerfModel.tla` models CorePerfModel queues and MagicPep handleInstruction

`MCPerfModel.tla` is its MC module.

Variables map to the code as follows:

- `enabled`, `basic_block_queue` (a sequence of blocks of instruction ids),
  `current_ins_index` (0-based as in the code), `dynamic_info_queue`,
  `cycle_count` and `instruction_count` are the members of the same names.
- `failed` records a fired `LOG_ASSERT_ERROR`.
- The functional side is `next_ins` and `pending`. `pending` holds the facts
  produced but not yet pushed.
- `switches` counts enable/disable calls, up to the bound `MaxSwitches`.
- `accepted` and `costed` are history variables. They are the instructions
  taken into the queue and the instructions handleInstruction completed.

Actions:

- `QueueBasicBlock(k)` and `QueueDynamicInstruction` are the queue operations.
  Both drop the block when gated off.
- `PushDynamicInstructionInfo` pushes facts. `Admit` is its `m_enabled` test.
- `Iterate` is the whole of `iterate()`. It is one step because it runs under
  the queue lock on the producing thread. The recursive `Drain` is its while
  loop. `MoreThanSentinel` is the loop test, `PopBlock` the pop and cursor
  reset, and `OnNotAvailable` the return on
  `DynamicInstructionInfoNotAvailableException`.
  - `HandleInstruction` with `CostOperands` is `handleInstruction`: the
    operand walk, the peek, the type assertion and the pop.
  - `IsModeled` decides the static cost.
- `Enable` and `Disable` change only `m_enabled`. The early return of
  `enable()` for the MCP core (l.88-89) is modelled in `ModelsBarrier`,
  where the calling core is known.

Environment assumptions are explicit constants:

- `BundleFacts`: the facts of one instruction arrive in one push, as the
  FIXME at `core_perf_model.cc:224` assumes.
- `DrainedBeforeSwitch`: the caller has drained iterate to the sentinel
  block before enable/disable.
- `SwitchAllowed`: a switch happens only with all the tile's facts pushed
  and, with `DrainedBeforeSwitch`, iterate drained to the sentinel. These
  are assumptions about the callers. `perf_counter_support.cc` contains
  neither; it only places the switch between two barrier waits.

The code's `AbortInstructionException` handler has no thrower in `src/`, so
it is not modelled.

### `CoreFrequency.tla` models CorePerfModel frequency accounting

`MCCoreFrequency.tla` is its MC module.

- Floats are exact rationals in lowest terms. The constant `NaN` stands for
  IEEE NaN and absorbs every later operation. `RatDiv` yields NaN for `0/0`.
- `Recompute` is `recomputeAverageFrequency` line for line. Each of its
  locals is one definition: `CyclesElapsed`, `TotalCyclesExecuted` and
  `TotalTimeTaken`. `UpdateInternal…`
  and `RecomputeAverageFrequency` are its two callers.
- `AddCycles` is `m_cycle_count += cost` in handleInstruction.
- `SetCycleCount` is the thread-start reset.
- The history variables `elapsed` and `epochs` record the cycles and frequency
  of each closed epoch independently of the code's arithmetic. They are the
  reference the properties compare against.

### `MCP.tla` models the MCP loop, the comm-map broadcast and shutdown

`MCMCP.tla` is its MC module.

- The network delivers each sender's packets in FIFO order: the inbox is
  `mcp_inbox[s]`, one queue per sender `s` (the cores and the MCP core).
  `NetRecv(s, match)` takes the oldest matching packet of sender `s`
  (`FirstMatch`); the choice of `s` is every order of arrival across senders.
- `Run(s)` is one iteration of `MCP::run()` with its dispatch:
  - the syscall server answers at once;
  - a utilization update is recorded only;
  - `BROADCAST_COMM_MAP_UPDATE` enters the broadcast loop;
  - QUIT sets `m_finished`;
  - any other type is the default `LOG_ASSERT_ERROR` (`mcp_pc = "failed"`).
- `BroadcastSend` and `BroadcastRecv` are the two halves of one iteration of
  the `proc_id` loop of `broadcastPacketToProcesses`. `LastProc` is the
  loop's exit test.
- `Finish` and `FinishReturn` are `MCP::finish`.
- The environment is spec-modelled because its code is outside `src/`:
  - clients issue requests (`Request`, `Reply`, `ThreadExit`);
  - a sim thread applies the comm-map update and acks
    (`SimThreadUpdateCommMap`).
- The cache-counter requests follow `perf_counter_support.cc:65-93`. They are
  sent as `MCP_SYSTEM_TYPE` and wait for `MCP_RESPONSE_TYPE`.
- `Finish` sends the QUIT from the MCP core's own sender, as `MCP::finish`
  does (`mcp.cc:105`). `FinishYield` is its `sched_yield` loop, and
  `FinishReturn` its return.

### `CostQueue.tla` is what a CorePerfModel promises

An abstract specification with no blocks, cursors, facts or stalls:
instructions are accepted at the back of `todo` and costed in runs from the
front, each adding its own cost. `PerfModel.tla` implements it:

```
CQ == INSTANCE CostQueue WITH Cost <- TrueCost,
       todo <- SubSeq(accepted, Len(costed) + 1, Len(accepted)),
       done <- costed, cycles <- cycle_count, count <- instruction_count
```

`CostQueueRefined == CQ!Spec` is checked as a PROPERTY of perf_core. It says
over whole behaviours that costing is in order and exactly once, with each
instruction's own cost, and that nothing but costing moves the counters.

### `LCP.tla` models the LCP of every process and the shutdown handshake

`MCLCP.tla` is its MC module.

- `chan[s][p]` is the FIFO channel from process `s` to process `p`.
- `LCPStep(p)` is one iteration of `LCP::run`: `ProcessPacket(p, s)` pops the
  head of any non-empty channel into `p` and calls `Dispatch`, the switch of
  `processPacket`. Each case is an operator of its own: `OnQuit`,
  `UpdateCommId`, `HandleFinish`, `DeallocateProcess`, `MasterOnThreadExit`.
- THREAD_EXIT carries a byte payload: `ExitPayload(t, c)` stores the thread
  id at byte 0 and the cycle count at byte `CycleOffset` (4 packed, 8
  aligned), per the spec's `{thread_id, cycle_count}`. `ExitThreadId` and
  `ExitTime` are the two reads of `lcp.cc:74`. `(UInt64*)data+4` is byte 32,
  and `ReadField` returns any value of `Unknown` for a read outside the
  packet. `MasterOnThreadExit(tid, time)` records the time in `exit_time`.
- `Finish`, `FinishYield` and `FinishReturn` are `LCP::finish`: send QUIT to
  itself, yield until `m_finished`, return.
- The environment is spec-modelled: each thread announces its comm id
  (`Initialize`), passes an application barrier (`AppBarrier`) and exits
  (`ThreadExit`); the master's simulator waits for all exits, broadcasts
  SIMULATOR_FINISHED and collects acks (`BroadcastFinish`, `CollectAcks`),
  and the others ack (`AckFinish`).
- The spawn tags and THREAD_JOIN_REQUEST are forwarded to the thread manager
  (outside `src/`) and have no sender in the model.

### `ModelsBarrier.tla` models CarbonEnable/Disable/ResetModels

`MCModelsBarrier.tla` is its MC module.

- `pc[c]` is where application core `c` is: `run`, `wait1`, `switch`
  (core 0 of its process, between the waits) or `wait2`.
- `BarrierWait(c)` is the sync server's barrier (spec-modelled): the arrival
  that brings `count` to N releases every waiter and resets the count.
- `Call`, `PassFirst`, `SwitchModels` and `PassSecond` are the lines of
  `CarbonEnableModels` and its two siblings. `SwitchModels` switches every
  tile of the process. For `enable` it uses `EnableModel(t, c)`, which is
  `CorePerfModel::enable`: the early return tests the calling core `c`.
- `applied[t]` counts the collective operations applied to tile `t`.
- `Init` is the state after `CarbonInitModels`: models disabled, barrier
  sized to the application cores.

## Runs

| Run | cfg | Expect | What it shows |
|---|---|---|---|
| perf_core | MCPerfModel.cfg | pass | See below. |
| perf_disabled_queues | MCPerfModel_queues.cfg | violation | After `disable()` the sentinel block is still queued. The spec says the queues are empty while disabled. |
| freq_accounting | MCCoreFrequency.cfg | pass | See below. |
| freq_nan | MCCoreFrequency_nan.cfg | violation | A frequency change or thread exit before any cycle gives `0/0 = NaN`. The average frequency then stays NaN. |
| mcp_broadcast | MCMCP.cfg | pass | See below. |
| mcp_cache_counters | MCMCP_cache.cfg | violation | `CarbonResetCacheCounters` sends a type `MCP::run` has no case for, so the MCP asserts. |
| mcp_quit_overtakes | MCMCP_quit.cfg | violation | `AllRequestsServed`: the QUIT from the MCP core is received before a utilization or comm-map update an exited thread sent earlier; that request is never served. |
| lcp_shutdown | MCLCP.cfg | pass | See below. |
| lcp_exit_time | MCLCP_exittime.cfg | violation | `ExitTimeDelivered`: the THREAD_EXIT case reads the exit time at `(UInt64*)data+4`, byte 32 of a 16-byte payload, so the master is given a time the thread never sent. |
| lcp_quit_overtakes | MCLCP_leftover.cfg | violation | `NoPacketLeftBehind`: a process handles SIMULATOR_FINISHED and its own QUIT before another process's COMMID_UPDATE arrives, and the LCP stops with it unreceived. |
| barrier_switch | MCModelsBarrier.cfg | pass | See below. |
| barrier_mcp_enabled | MCModelsBarrier_mcp.cfg | violation | `MCPModelNeverEnabled`: the rank-0 core's enable switches the MCP tile too; `enable()` tests the caller's core, not the tile. |

The passing runs check the following.

- **perf_core.** With bundled facts and a drain before every switch:
  - `CostQueueRefined`: the model implements CostQueue; every accepted
    instruction is costed once, in order, with its static or unit cost plus
    the latencies of its own facts.
  - `NoAssertionFailure`: no assertion fires. Under these assumptions it
    catches push gating that disagrees with queue gating. It cannot reach
    a partial pop, a read while disabled or the 5000-entry cap; those are
    items 4 and 5 under "Not modelled yet".
  - `StallResumes`: every instruction that is not in the last block is
    eventually costed.
- **freq_accounting.** Under any interleaving of cycles, thread starts,
  frequency changes and thread exits:
  - `TimeAccounting`: `m_total_time` is the sum of cycles/frequency over the
    epochs, and `avg * total_time` is their cycle count.
- **mcp_broadcast.** With syscalls and utilization updates interleaved:
  - `EarlierBroadcastsPropagated`: an update seen in one process implies that
    every earlier one has reached every process.
  - `BroadcastCompleteOnReturn`: when the MCP is back in its loop, every
    process has every served update.
  - `MCPFinishReturns`: `MCP::finish` returns once the threads have exited.
  - The shutdown handshake ends without deadlock. Deadlock is checked, and
    `Terminated` is the only final state.
- **lcp_shutdown.** Three processes, each with one thread that announces its
  comm id and exits:
  - `ShutdownCompletes`: every main thread returns from `LCP::finish`.
  - No deadlock: `Terminated` is the only final state.
- **barrier_switch.** Two processes of two application cores, the MCP tile in
  the first, and the sequence enable, reset, disable:
  - `ModelsConsistentWhileRunning`: a core running application code finds
    every tile's model switched by exactly the collective operations it has
    completed.
  - No deadlock: every core completes every operation.

Every property of a passing run has a mutant in `PROJECT.json`: a plausible
bug in the mapped code that TLC finds.

## Bounds and why they suffice

- **PerfModel** uses a 4-instruction program:
  - a RECV with READ and WRITE operands;
  - a GENERIC with no operands;
  - a SYNC with a WRITE operand;
  - a GENERIC with a READ operand.

  Blocks have 1 or 2 instructions, with up to 3 switches. This covers:
  - a multi-operand instruction stalling before its facts are pushed (with
    bundled facts a stall between two operands of one instruction cannot
    happen; see "Not modelled yet", items 4 and 5);
  - an instruction with no facts;
  - modelled and unmodelled types;
  - a dynamic block;
  - enable → disable → enable.

  `QueueCap` is the code's 5000. Distinct latencies per (instruction,
  operand) make any misattribution visible.
- **CoreFrequency** uses frequencies {1, 2, 3}, cycles up to 4 in steps of up
  to 2, and 3 epochs. That is enough for epochs at different frequencies,
  empty epochs, and a thread start that resets the count below an earlier
  value.
- **LCP** uses 3 processes: the master, and two others whose packets can
  overtake each other and the QUIT. One thread per process is enough for
  exits in flight while the master counts. Thread `t` exits at cycle
  `5 + t`; an out-of-bounds read returns 0 or 5.
- **ModelsBarrier** uses 2 processes of 2 cores, so the barrier has waiters of
  both processes and of both roles (core 0 and the others), plus the MCP tile,
  and 3 operations so the barrier is reused twice after opening.
- **MCP** uses 2 processes and 3 cores. The two processes have different
  representative cores, and the third core is not a representative. Each core
  sends one request, so two comm-map broadcasts can race, and syscall replies
  interleave with acks.

## Fairness

- **PerfModel** assumes weak fairness of `Iterate`, `PushDynamicInstructionInfo`
  and the queue actions. The functional thread calls them inline as it runs,
  so they are not independent schedulers' choices. Nothing forces `Enable` or
  `Disable`.
- **CoreFrequency** has no liveness properties and assumes no fairness.
- **LCP** assumes weak fairness of every LCP step and every thread step. Each
  LCP is a thread blocked in `recv` that runs whenever a packet is there, and
  the application threads, the simulator and `finish` are threads that the OS
  schedules. `FinishYield` is the yield loop; it is not fair, since it changes
  nothing.
- **ModelsBarrier** has no fairness; progress is checked as absence of
  deadlock.
- **MCP** assumes weak fairness of `Run(s)` for every sender, of the
  broadcast steps, of the sim threads, of `Reply` and `ThreadExit`, and of
  `Finish` and `FinishReturn`. The MCP thread blocks in `netRecv` and runs
  whenever a matching packet has arrived. The network delivers every
  sender's packets. The other threads are host threads that keep running.
  `FinishYield` changes nothing and gets no fairness.

## Not modelled yet, and the plan for later work

1. **PerfModel per tile under ModelsBarrier**: INSTANCE PerfModel per tile so
   that `SwitchAllowed` becomes a consequence rather than an assumption.
2. **MCP sync-server cases**: mutex, cond and barrier. Their handlers are in
   the sync server, outside `src/`.
3. **Comm ids after a barrier** (`lcp.cc:120`): updateCommId sends no ack,
   so a thread past an application barrier can find another thread's comm
   id missing from its process's map. The spec leaves the timing guarantee
   open (section 9), so no run states it. `LCP` models the missing ack;
   lcp_quit_overtakes shows an update still in flight when its LCP stops.
4. **Facts pushed one at a time** (`core_perf_model.cc:224`): a stall between
   two facts of one instruction makes the retry read the next operand's
   fact, and the type assertion fires. The FIXME assumes whole bundles, and
   the spec lists this as an open question. perf_core checks the model with
   `BundleFacts = TRUE`; no run keeps the unbundled configuration.
5. **Iterate while disabled**: `popDynamicInstructionInfo` is a no-op while
   disabled, but `iterate` and `get` are not gated. With more than one block
   queued at disable, a later iterate reads one fact for two operands.
   perf_core assumes the drain before every switch (`DrainedBeforeSwitch`),
   and perf_disabled_queues shows the queues are not empty after disable.
6. **Participation in the models barrier** (`perf_counter_support.cc:17`):
   the barrier is sized to every application core, so a core without a
   running thread leaves every caller waiting. Which cores run threads is up
   to the application and the thread manager; `ModelsBarrier` assumes all do.
7. **The models barrier's id** (`perf_counter_support.cc:16`): only process 0
   calls `CarbonBarrierInit`; the other processes wait on their
   zero-initialised `models_barrier`. Whether that names the same barrier
   depends on how the sync server numbers barriers, which is outside `src/`
   and not in the spec. `ModelsBarrier` assumes one shared barrier.

Not modelled at all:

- `CorePerfModel::create` (string-to-class dispatch on the config);
- the summary output functions (text only). The completion time printed by
  `frequencySummary` is `cycle_count / frequency`, which the spec (line 76)
  documents as correct only at steady state;
- `MCP::broadcastPacket` and `forwardPacket` (no caller in `src/`);
- the LCP's spawn and join cases (forwarded to the thread manager);
- `capi.h` (declarations only) and `config.hpp`, a generic key/value store
  whose values reach the modules as their CONSTANTS.
