--------------------------- MODULE MC_ExecStatus ---------------------------
(***************************************************************************)
(* Model-checking instance of ExecStatus on the payloads of               *)
(* MC_PayloadExecutor.  The cycle counter is bounded by MaxCycle, enough   *)
(* for two complete runs of the longest payload and a restart in between. *)
(***************************************************************************)
EXTENDS ExecStatus, MC_PayloadExecutor

MaxCycle == 30

CycleBound == cycle_counter <= MaxCycle
=============================================================================
