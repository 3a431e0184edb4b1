-------------------------------- MODULE MCLCP --------------------------------
(***************************************************************************)
(* LCP for TLC.  Thread t exits at cycle 5 + t, so the exit times of the   *)
(* threads differ; a read outside a packet returns 0 or 5 (one of them a   *)
(* real exit time, one not).                                               *)
(***************************************************************************)
EXTENDS LCP

MCExitCycles(t) == 5 + t
MCUnknown == {0, 5}
=============================================================================
