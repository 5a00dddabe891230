-------------------------- MODULE MCCircuitBreaker --------------------------
(***************************************************************************)
(* CircuitBreaker for TLC.  A window of three samples that closes with two,*)
(* a closed phase of five outcomes so that samples leave the window both by*)
(* age and by count, an open period that doubles twice before its cap and  *)
(* two probes per half-open phase.                                         *)
(***************************************************************************)
EXTENDS CircuitBreaker
=============================================================================
