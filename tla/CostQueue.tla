----------------------------- MODULE CostQueue -----------------------------
(***************************************************************************)
(* What a CorePerfModel promises its tile (spec 4.1, 5, 8), without        *)
(* blocks, cursors, facts or stalls: instructions are accepted in program  *)
(* order, and costed in the order they were accepted, none skipped and     *)
(* none twice.  Costing a run of them adds each one's cost to the cycle    *)
(* count and one per instruction to the instruction count.  Nothing else   *)
(* changes the counts.                                                     *)
(***************************************************************************)
EXTENDS Naturals, Sequences, SequencesExt

CONSTANT Cost(_)   \* what an instruction costs, its facts included

VARIABLES
  todo,     \* accepted, not yet costed, in acceptance order
  done,     \* costed, in order
  cycles,   \* cycle count
  count     \* instruction count

avars == <<todo, done, cycles, count>>

SumCost(s) == FoldSeq(LAMBDA i, a : Cost(i) + a, 0, s)

Init == todo = <<>> /\ done = <<>> /\ cycles = 0 /\ count = 0

\* More instructions are accepted at the back.
Accept ==
  /\ IsPrefix(todo, todo')
  /\ todo' # todo
  /\ UNCHANGED <<done, cycles, count>>

\* A run of instructions at the front is costed.
CostSome ==
  \E k \in 1 .. Len(todo) :
    /\ done' = done \o SubSeq(todo, 1, k)
    /\ todo' = SubSeq(todo, k + 1, Len(todo))
    /\ cycles' = cycles + SumCost(SubSeq(todo, 1, k))
    /\ count' = count + k

Next == Accept \/ CostSome

Spec == Init /\ [][Next]_avars
=============================================================================
