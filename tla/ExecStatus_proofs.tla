------------------------- MODULE ExecStatus_proofs -------------------------
(***************************************************************************)
(* Machine-checked proof that the execution-status registers measure the  *)
(* executing cycles of a run, when the host writes start only while the   *)
(* executor is READY.                                                     *)
(***************************************************************************)
EXTENDS ExecStatus, PayloadExecutor_proofs

(* The span invariant: WAIT-DFI starts from zeroed snapshots; the first    *)
(* executing cycle has not latched yet (exec_cycles = 0), every later one  *)
(* has exec_start latched (non-zero) and exec_stop at the cycle counter;   *)
(* the span is the executing cycles so far.  The cycle counter is past 0  *)
(* once a run has begun, so exec_start = 0 means "not latched".           *)
SpanInv ==
  /\ TypeOK
  /\ cycle_counter \in Nat /\ exec_start \in Nat /\ exec_stop \in Nat
  /\ exec_cycles \in Nat
  /\ fsm # "READY" => cycle_counter >= 1
  /\ fsm = "WAIT-DFI" => exec_start = 0 /\ exec_stop = 0 /\ exec_cycles = 0
  /\ Executing /\ exec_cycles = 0 => exec_start = 0 /\ exec_stop = 0
  /\ Executing /\ exec_cycles # 0 =>
       exec_start >= 1 /\ exec_stop = cycle_counter
  /\ fsm # "WAIT-DFI" => exec_stop - exec_start = exec_cycles

(* A status clock edge is a clock edge of the executor. *)
LEMMA StatusNextIsNext == StatusNext => Next
BY Zenon DEF StatusNext, StartRun, Clock, Next

(* The FSM moves an edge without start can make: READY stays, WAIT-DFI    *)
(* waits or enters BUBBLE, the executing states stay executing or end.   *)
LEMMA EdgeMoves ==
  ASSUME NEW mcr, NEW upd, ExecEdge(mcr, upd)
  PROVE  /\ fsm = "READY" => fsm' = "READY"
         /\ fsm = "WAIT-DFI" => fsm' \in {"WAIT-DFI", "BUBBLE"}
         /\ Executing => fsm' \in {"RUN", "IDLE", "BUBBLE", "READY"}
BY Zenon DEF ExecEdge, Ready, WaitDfi, RunTerminate, RunLoopJump, RunLoopExit,
       RunCommand, Idle, Bubble, CountDown, Executing

(* Execution span (ExecSpan, checked by MC_ExecStatus): for every memory  *)
(* depth, program and bus, when the host writes start only in READY,      *)
(* exec_stop - exec_start is the number of cycles executing was asserted  *)
(* in the last run.                                                        *)
THEOREM ExecSpanHolds ==
  ASSUME HostRestarts = FALSE
  PROVE  StatusSpec => []ExecSpan
<1>1. StatusInit => SpanInv
  BY TypeInit DEF StatusInit, Init, SpanInv, Executing
<1>2. SpanInv /\ [StatusNext]_allVars => SpanInv'
  <2>. SUFFICES ASSUME SpanInv, [StatusNext]_allVars PROVE SpanInv'
    OBVIOUS
  <2>1. CASE UNCHANGED allVars
    BY <2>1 DEF allVars, statusVars, vars, execVars, fetcherVars, switchVars,
              scratchpadVars, SpanInv, Executing, TypeOK, FetcherTypeOK,
              SwitchTypeOK, ScratchpadTypeOK
  <2>2. CASE StatusNext
    <3>0. TypeOK'
      BY <2>2, StatusNextIsNext, TypeStep DEF SpanInv
    <3>. PICK mcr \in McRefresh, upd \in BOOLEAN, strobe \in Strobes :
           StartRun(mcr, upd) \/ Clock(mcr, upd, strobe)
      BY <2>2 DEF StatusNext
    <3>1. strobe = FALSE
      BY ExecStatusAssumption DEF Strobes
    <3>2. CASE StartRun(mcr, upd)
      <4>1. fsm = "READY" /\ fsm' = "WAIT-DFI"
        BY <3>2 DEF StartRun, Start
      <4>. QED
        BY <3>0, <3>2, <4>1 DEF StartRun, StatusStep, SpanInv, Executing
    <3>3. CASE Clock(mcr, upd, strobe)
      <4>1. /\ StatusStep(FALSE)
            /\ exec_cycles' = exec_cycles + (IF Executing THEN 1 ELSE 0)
        BY Zenon, <3>1, <3>3 DEF Clock
      <4>2. CASE fsm = "READY"
        <5>1. fsm' = "READY"
          BY <3>3, <4>2, EdgeMoves DEF Clock
        <5>. QED
          BY <3>0, <4>1, <4>2, <5>1 DEF StatusStep, SpanInv, Executing
      <4>3. CASE fsm = "WAIT-DFI"
        <5>1. fsm' \in {"WAIT-DFI", "BUBBLE"}
          BY <3>3, <4>3, EdgeMoves DEF Clock
        <5>. QED
          BY <3>0, <4>1, <4>3, <5>1 DEF StatusStep, SpanInv, Executing
      <4>4. CASE Executing
        <5>1. fsm' \in {"RUN", "IDLE", "BUBBLE", "READY"}
          BY <3>3, <4>4, EdgeMoves DEF Clock
        <5>. QED
          BY <3>0, <4>1, <4>4, <5>1 DEF StatusStep, SpanInv, Executing
      <4>. QED
        BY <4>2, <4>3, <4>4 DEF SpanInv, TypeOK, States, Executing
    <3>. QED
      BY <3>2, <3>3
  <2>. QED
    BY <2>1, <2>2
<1>3. SpanInv => ExecSpan
  BY DEF SpanInv, ExecSpan
<1>. QED
  BY <1>1, <1>2, <1>3, PTL DEF StatusSpec
=============================================================================
