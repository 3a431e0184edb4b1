---------------------------- MODULE CoreFrequency ----------------------------
(***************************************************************************)
(* The frequency and time bookkeeping of CorePerfModel                     *)
(* (core_perf_model.cc): the cycle counter, the checkpoint taken at each   *)
(* frequency epoch, and the time-weighted average frequency.               *)
(*                                                                         *)
(* The code computes in float.  The model computes exactly, in rationals   *)
(* <<numerator, denominator>> kept in lowest terms, so that the properties *)
(* speak about the formula and not about rounding; 0.0/0.0, the one float  *)
(* outcome the formula can reach that is not a number, is the value NaN,   *)
(* and NaN absorbs every later operation as it does in IEEE 754.           *)
(***************************************************************************)
EXTENDS Integers, Sequences, SequencesExt

CONSTANTS
  Frequencies,  \* the core frequencies the configuration and DVFS may set
  MaxCycle,     \* bound on m_cycle_count
  MaxStep,      \* bound on the cost handleInstruction adds in one step
  MaxEpochs,    \* bound on the calls of recomputeAverageFrequency
  NaN           \* model value: the float NaN

ASSUME /\ Frequencies \subseteq Nat \ {0} /\ Frequencies # {}
       /\ MaxCycle \in Nat /\ MaxStep \in Nat \ {0}

-----------------------------------------------------------------------------
(* Exact rational arithmetic.                                               *)
RECURSIVE GCD(_, _)
GCD(a, b) == IF b = 0 THEN a ELSE GCD(b, a % b)

AbsVal(x) == IF x < 0 THEN -x ELSE x

\* n/d in lowest terms with a positive denominator.
Rat(n, d) ==
  LET g == GCD(AbsVal(n), AbsVal(d))
      s == IF d < 0 THEN -1 ELSE 1
  IN  IF n = 0 THEN <<0, 1>> ELSE <<(s * n) \div g, (s * d) \div g>>
Zero == <<0, 1>>
IsZero(x) == x = Zero

RatAdd(x, y) ==
  IF x = NaN \/ y = NaN THEN NaN ELSE Rat(x[1] * y[2] + y[1] * x[2], x[2] * y[2])
RatMul(x, y) ==
  IF x = NaN \/ y = NaN THEN NaN ELSE Rat(x[1] * y[1], x[2] * y[2])
\* 0/0 is NaN.  x/0 with x > 0 (infinity) is unreachable here: the divisor
\* is zero only when the dividend is.
RatDiv(x, y) ==
  IF x = NaN \/ y = NaN \/ IsZero(y) THEN NaN
  ELSE Rat(x[1] * y[2], x[2] * y[1])

Int2Rat(n) == <<n, 1>>

-----------------------------------------------------------------------------
VARIABLES
  cycle_count,               \* m_cycle_count
  checkpointed_cycle_count,  \* m_checkpointed_cycle_count
  frequency,                 \* m_frequency
  average_frequency,         \* m_average_frequency
  total_time,                \* m_total_time
  elapsed,                   \* history: cycles executed in the current epoch
  epochs                     \* history: <<cycles, frequency>> of each epoch closed

vars == <<cycle_count, checkpointed_cycle_count, frequency, average_frequency,
          total_time, elapsed, epochs>>

(* recomputeAverageFrequency(), one definition per local it computes.     *)
\* cycles_elapsed: the unsigned difference since the checkpoint.  Mutant:
\* the difference taken the wrong way round.
CyclesElapsedSwapped == <<checkpointed_cycle_count - cycle_count, 1>>
CyclesElapsed == Int2Rat(cycle_count - checkpointed_cycle_count)

TotalTimeTaken == RatAdd(total_time, RatDiv(CyclesElapsed, Int2Rat(frequency)))

\* total_cycles_executed.  Mutant: computed from the total time already
\* updated, as if m_total_time were assigned first.
TotalCyclesFromNewTime == RatAdd(RatMul(average_frequency, TotalTimeTaken), CyclesElapsed)
TotalCyclesExecuted == RatAdd(RatMul(average_frequency, total_time), CyclesElapsed)

\* Close the epoch that began at the checkpoint.
Recompute ==
  /\ Len(epochs) < MaxEpochs
  /\ average_frequency' = RatDiv(TotalCyclesExecuted, TotalTimeTaken)
  /\ total_time' = TotalTimeTaken
  /\ checkpointed_cycle_count' = cycle_count
  /\ epochs' = Append(epochs, <<elapsed, frequency>>)
  /\ elapsed' = 0

\* Constructor: frequency from Config::getCoreFrequency, everything else 0.
Init ==
  /\ cycle_count = 0
  /\ checkpointed_cycle_count = 0
  /\ frequency \in Frequencies
  /\ average_frequency = Zero
  /\ total_time = Zero
  /\ elapsed = 0
  /\ epochs = <<>>

\* handleInstruction: m_cycle_count += cost.
AddCycles(d) ==
  /\ cycle_count + d <= MaxCycle
  /\ cycle_count' = cycle_count + d
  /\ elapsed' = elapsed + d
  /\ UNCHANGED <<checkpointed_cycle_count, frequency, average_frequency,
                 total_time, epochs>>

\* setCycleCount(c), on thread start.
SetCycleCount(c) ==
  /\ checkpointed_cycle_count' = c
  /\ cycle_count' = c
  /\ elapsed' = 0
  /\ UNCHANGED <<frequency, average_frequency, total_time, epochs>>

\* updateInternalVariablesOnFrequencyChange(f).
UpdateInternalVariablesOnFrequencyChange(f) ==
  /\ Recompute
  /\ frequency' = f
  /\ UNCHANGED cycle_count

\* recomputeAverageFrequency(), on thread exit.
RecomputeAverageFrequency ==
  /\ Recompute
  /\ UNCHANGED <<cycle_count, frequency>>

Next ==
  \/ \E d \in 1..MaxStep : AddCycles(d)
  \/ \E c \in 0..MaxCycle : SetCycleCount(c)
  \/ \E f \in Frequencies : UpdateInternalVariablesOnFrequencyChange(f)
  \/ RecomputeAverageFrequency

Spec == Init /\ [][Next]_vars

-----------------------------------------------------------------------------
(***************************************************************************)
(* Properties                                                              *)
(***************************************************************************)
TypeOK ==
  /\ cycle_count \in 0..MaxCycle
  /\ checkpointed_cycle_count \in 0..MaxCycle
  /\ frequency \in Frequencies
  /\ average_frequency = NaN \/ average_frequency \in Nat \X (Nat \ {0})
  /\ total_time \in Nat \X (Nat \ {0})
  /\ elapsed \in 0..MaxCycle
  /\ epochs \in Seq((0..MaxCycle) \X Frequencies)

\* The reference: the cycles and the time of all closed epochs.
EpochCycles == FoldSeq(LAMBDA e, a : e[1] + a, 0, epochs)
EpochTime == FoldSeq(LAMBDA e, a : RatAdd(Rat(e[1], e[2]), a), Zero, epochs)

\* Spec 8: after recomputeAverageFrequency, m_total_time is the sum over the
\* epochs of cycles / frequency, and m_average_frequency * m_total_time is
\* the number of cycles in them, whatever the interleaving of frequency
\* changes, thread starts (setCycleCount) and thread exits.
TimeAccounting ==
  /\ total_time = EpochTime
  /\ average_frequency # NaN =>
       RatMul(average_frequency, total_time) = Int2Rat(EpochCycles)

\* Spec 8: once cycles have been accounted, m_average_frequency is the total
\* cycles divided by the total time.
AverageFrequencyCorrect ==
  EpochCycles > 0 => average_frequency = RatDiv(Int2Rat(EpochCycles), EpochTime)
=============================================================================
