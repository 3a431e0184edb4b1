--------------------------- MODULE MCCoreFrequency ---------------------------
(***************************************************************************)
(* CoreFrequency for TLC: frequencies 1, 2 and 3 (so that epoch times     *)
(* are not all integers), up to 4 cycles, 3 epochs.                        *)
(***************************************************************************)
EXTENDS CoreFrequency

MCFrequencies == {1, 2, 3}
=============================================================================
