----------------------------- MODULE ExecStatus -----------------------------
(***************************************************************************)
(* The execution-status registers of PayloadExecutor: the free-running    *)
(* 64-bit cycle_counter and the exec_start / exec_stop snapshots read by  *)
(* the host, composed with the executor.  The start strobe is the write   *)
(* of the start CSR: in READY it starts a run (Start); in any other state *)
(* the FSM ignores it, but it still zeroes the two snapshots.  Whether    *)
(* the host may write start during a run is the constant HostRestarts.    *)
(*                                                                         *)
(* The cycle counter is a natural number (2^64 cycles are never reached); *)
(* runs bound it with a state constraint.  Two auxiliary counters record  *)
(* what the host would expect the span to be: exec_cycles, the cycles     *)
(* `executing` was asserted since the run began, and payload_cycles, the   *)
(* cycles the run's instructions occupy by their timeslices.              *)
(***************************************************************************)
EXTENDS PayloadExecutor

CONSTANT HostRestarts

ASSUME ExecStatusAssumption == HostRestarts \in BOOLEAN

VARIABLES cycle_counter, exec_start, exec_stop, exec_cycles, payload_cycles

statusVars == <<cycle_counter, exec_start, exec_stop, exec_cycles,
                payload_cycles>>
allVars == <<vars, statusVars>>

(* The FSM states that assert executing: RUN, IDLE and BUBBLE. *)
Executing == fsm \in {"RUN", "IDLE", "BUBBLE"}

StatusInit ==
  /\ Init
  /\ cycle_counter = 0 /\ exec_start = 0 /\ exec_stop = 0
  /\ exec_cycles = 0 /\ payload_cycles = 0

(* Mutant: exec_stop snapshots the cycle counter without the + 1. *)
StatusStepNoInc(start) ==
  /\ cycle_counter' = cycle_counter + 1
  /\ exec_start' = IF Executing /\ exec_start = 0 THEN cycle_counter
                   ELSE IF start THEN 0 ELSE exec_start
  /\ exec_stop' = IF Executing THEN cycle_counter
                  ELSE IF start THEN 0 ELSE exec_stop

(* The status sync block: its three If's in order, the last assignment to *)
(* a register winning, and all of them reading the register values of     *)
(* this cycle.                                                            *)
StatusStep(start) ==
  /\ cycle_counter' = cycle_counter + 1
  /\ exec_start' = IF Executing /\ exec_start = 0 THEN cycle_counter
                   ELSE IF start THEN 0 ELSE exec_start
  /\ exec_stop' = IF Executing THEN cycle_counter + 1
                  ELSE IF start THEN 0 ELSE exec_stop

(* The cycles an instruction issued in RUN occupies: max(timeslice, 1). *)
IssueCycles ==
  IF fsm = "RUN" /\ ~Terminate /\ instruction.op # "LOOP"
    THEN IF instruction.ts <= 1 THEN 1 ELSE instruction.ts
    ELSE 0

(* A clock edge with a start strobe in READY: the run begins. *)
StartRun(mcr, upd) ==
  /\ Start(mcr, upd)
  /\ StatusStep(TRUE)
  /\ exec_cycles' = 0 /\ payload_cycles' = 0

(* Any other clock edge; the host may write start while the FSM runs. *)
Clock(mcr, upd, strobe) ==
  /\ ExecEdge(mcr, upd)
  /\ StatusStep(strobe /\ fsm # "READY")
  /\ exec_cycles' = exec_cycles + (IF Executing THEN 1 ELSE 0)
  /\ payload_cycles' = payload_cycles + IssueCycles

Strobes == IF HostRestarts THEN BOOLEAN ELSE {FALSE}

StatusNext ==
  \E mcr \in McRefresh, upd \in BOOLEAN, strobe \in Strobes :
    StartRun(mcr, upd) \/ Clock(mcr, upd, strobe)

StatusSpec == StatusInit /\ [][StatusNext]_allVars
-----------------------------------------------------------------------------
(* Execution span (the status sync block, spec section 6 property 7): once *)
(* a run has ended, exec_stop - exec_start is the number of cycles         *)
(* `executing` was asserted in it.                                         *)
ExecSpan == fsm = "READY" => exec_stop - exec_start = exec_cycles

(* Execution span as payload time (spec scenario S1: one ACT of timeslice  *)
(* 4 gives exec_stop - exec_start = 4): once a run has ended, the span is  *)
(* the cycles its instructions occupy by their timeslices.                 *)
SpanIsPayloadTime == fsm = "READY" => exec_stop - exec_start = payload_cycles
=============================================================================
