----------------------- MODULE PayloadExecutor_proofs -----------------------
(***************************************************************************)
(* Machine-checked proofs about the payload executor, for every value of  *)
(* the constants allowed by the assumptions of PayloadExecutor, Fetcher,  *)
(* DFISwitch, RefreshCounter and Scratchpad.                              *)
(***************************************************************************)
EXTENDS PayloadExecutor, TLAPS

(* Every word the read port or the instruction register can hold has the *)
(* field ranges of the decoder: an op code and natural-number fields.     *)
LEMMA WordFields ==
  ASSUME NEW w \in Words
  PROVE  /\ w.op \in Ops
         /\ w.ts \in Nat /\ w.jump \in Nat /\ w.addr \in Nat
<1>1. CASE w = ZeroWord
  BY <1>1 DEF ZeroWord, Ops
<1>2. CASE \E p \in Programs, a \in Addr : w = p[a]
  <2>1. PICK p \in Programs, a \in Addr : w = p[a]
    BY <1>2
  <2>2. WellEncoded(p[a])
    BY PayloadExecutorAssumption
  <2>. QED
    BY <2>1, <2>2 DEF WellEncoded
<1>. QED
  BY <1>1, <1>2 DEF Words

(* A word read from the payload memory is a word of Words. *)
LEMMA MemWord ==
  ASSUME NEW p \in Programs, NEW a \in Addr
  PROVE  p[a] \in Words
BY DEF Words

(* The fetcher keeps both program counters inside the address range,     *)
(* whatever it is told: the wrap of next_addr and the reset to 0.          *)
LEMMA FetcherStepTypeOK ==
  ASSUME FetcherTypeOK,
         NEW stall \in BOOLEAN, NEW jump \in BOOLEAN,
         NEW off \in Nat, NEW reset_pc \in BOOLEAN,
         FetcherStep(stall, jump, off, reset_pc)
  PROVE  FetcherTypeOK'
<1>1. NextAddr(jump, off) \in Addr
  BY FetcherAssumption DEF FetcherTypeOK, NextAddr, Addr
<1>2. 0 \in Addr
  BY FetcherAssumption DEF Addr
<1>. QED
  BY <1>1, <1>2 DEF FetcherStep, FetcherTypeOK, fetcherVars

(* The scratchpad cursor stays within its bits_for(depth - 2) bits.       *)
LEMMA ScratchpadStepTypeOK ==
  ASSUME ScratchpadTypeOK,
         NEW reset \in BOOLEAN, NEW valid \in BOOLEAN,
         ScratchpadStep(reset, valid)
  PROVE  ScratchpadTypeOK'
<1>1. (sp_counter + 1) % 2^CounterWidth \in CounterValues
  BY ScratchpadAssumption DEF ScratchpadTypeOK, CounterValues
<1>2. 0 \in CounterValues
  BY ScratchpadAssumption DEF CounterValues
<1>. QED
  BY <1>1, <1>2, Zenon DEF ScratchpadStep, ScratchpadTypeOK

(* The switch registers keep their ranges; the counter wraps.             *)
LEMMA SwitchStepTypeOK ==
  ASSUME SwitchTypeOK,
         NEW wd \in BOOLEAN, NEW refresh \in BOOLEAN, NEW upd \in BOOLEAN,
         SwitchStep(wd, refresh, upd)
  PROVE  SwitchTypeOK'
<1>1. refresh_counter' \in RefreshValues
  BY RefreshCounterAssumption
  DEF SwitchStep, RefreshCounterStep, SwitchTypeOK, RefreshValues
<1>. QED
  BY <1>1 DEF SwitchStep, SwitchTypeOK

(* The registers that every cycle updates the same way, whatever the FSM   *)
(* state: the fetcher, the read port, the instruction register, the phase *)
(* outputs, the PHY pipe, the scratchpad, the switch and the auxiliaries.  *)
LEMMA CycleTypeOK ==
  ASSUME TypeOK,
         NEW jump \in BOOLEAN, NEW exec \in BOOLEAN,
         NEW mcr \in BOOLEAN, NEW upd \in BOOLEAN,
         Cycle(jump, exec, mcr, upd)
  PROVE  /\ FetcherTypeOK' /\ SwitchTypeOK' /\ ScratchpadTypeOK'
         /\ mem' \in Programs /\ dat' \in Words /\ instruction' \in Words
         /\ bus' \in [Phases -> Cmds]
         /\ rd_pipe' \in [1 .. ReadLatency -> BOOLEAN]
         /\ reads_mod' \in 0 .. ScratchpadDepth - 1
         /\ reads_over' \in BOOLEAN
<1>1. /\ FetcherStep(Stall, jump, instruction.jump, fsm = "READY")
      /\ dat' = mem[MemAddr(Stall)]
      /\ instruction' = IF Stall THEN instruction ELSE dat
      /\ bus' = Emit(exec)
      /\ rd_pipe' = [i \in 1 .. ReadLatency |->
                       IF i < ReadLatency THEN rd_pipe[i + 1] ELSE BusHasRead]
      /\ ScratchpadStep(fsm = "WAIT-DFI", rd_pipe[1])
      /\ SwitchStep(wants_dfi, RefreshOnMaster(mcr), upd)
      /\ reads_mod' = IF fsm = "WAIT-DFI" THEN 0
                      ELSE IF BusHasRead THEN (reads_mod + 1) % ScratchpadDepth
                      ELSE reads_mod
      /\ reads_over' \in BOOLEAN
      /\ mem' = mem
  BY Zenon DEF Cycle
<1>2. FetcherTypeOK'
  <2>1. instruction.jump \in Nat
    BY WordFields DEF TypeOK
  <2>2. Stall \in BOOLEAN /\ (fsm = "READY") \in BOOLEAN
    BY DEF Stall
  <2>. QED
    BY Zenon, <1>1, <2>1, <2>2, FetcherStepTypeOK DEF TypeOK
<1>3. dat' \in Words /\ instruction' \in Words
  <2>1. MemAddr(Stall) \in Addr
    BY DEF TypeOK, MemAddr, FetcherTypeOK
  <2>. QED
    BY <1>1, <2>1, MemWord DEF TypeOK
<1>4. bus' \in [Phases -> Cmds]
  BY <1>1 DEF TypeOK, Emit, Cmds
<1>5. ScratchpadTypeOK'
  <2>1. (fsm = "WAIT-DFI") \in BOOLEAN /\ rd_pipe[1] \in BOOLEAN
    BY PayloadExecutorAssumption DEF TypeOK
  <2>. QED
    BY Zenon, <1>1, <2>1, ScratchpadStepTypeOK DEF TypeOK
<1>6. SwitchTypeOK'
  <2>1. RefreshOnMaster(mcr) \in BOOLEAN
    BY Zenon DEF RefreshOnMaster
  <2>. QED
    BY <1>1, <2>1, SwitchStepTypeOK DEF TypeOK
<1>7. rd_pipe' \in [1 .. ReadLatency -> BOOLEAN]
  <2>1. BusHasRead \in BOOLEAN
    BY DEF BusHasRead
  <2>2. \A i \in 1 .. ReadLatency : i < ReadLatency => rd_pipe[i + 1] \in BOOLEAN
    BY PayloadExecutorAssumption DEF TypeOK
  <2>. QED
    BY <1>1, <2>1, <2>2
<1>8. reads_mod' \in 0 .. ScratchpadDepth - 1
  BY <1>1, ScratchpadAssumption DEF TypeOK
<1>. QED
  BY <1>1, <1>2, <1>3, <1>4, <1>5, <1>6, <1>7, <1>8 DEF TypeOK

(* The executor registers after a step, given the cycle part above: what  *)
(* TypeOK asks of fsm, loop_counter, idle_counter and wants_dfi.           *)
ExecTypeOK ==
  /\ fsm \in States
  /\ loop_counter \in 0 .. 2^LoopCounterWidth - 1
  /\ idle_counter \in Nat
  /\ wants_dfi \in BOOLEAN

LEMMA ExecTypeOKImpliesTypeOK ==
  ASSUME TypeOK,
         NEW jump \in BOOLEAN, NEW exec \in BOOLEAN,
         NEW mcr \in BOOLEAN, NEW upd \in BOOLEAN,
         Cycle(jump, exec, mcr, upd),
         ExecTypeOK'
  PROVE  TypeOK'
BY CycleTypeOK DEF ExecTypeOK, TypeOK

(* The initial states are well typed. *)
LEMMA TypeInit == Init => TypeOK
<1>. SUFFICES ASSUME Init PROVE TypeOK
  OBVIOUS
<1>1. FetcherTypeOK
  BY FetcherAssumption DEF Init, FetcherInit, FetcherTypeOK, Addr
<1>2. SwitchTypeOK
  <2>1. 0 \in RefreshValues
    BY RefreshCounterAssumption DEF RefreshValues
  <2>. QED
    BY Zenon, <2>1 DEF Init, SwitchInit, RefreshCounterInit, SwitchTypeOK
<1>3. ScratchpadTypeOK
  <2>1. 0 \in CounterValues
    BY ScratchpadAssumption DEF CounterValues
  <2>. QED
    BY Zenon, <2>1 DEF Init, ScratchpadInit, ScratchpadTypeOK
<1>4. ZeroWord \in Words /\ NoCmd \in Cmds
  BY DEF Words, Cmds
<1>5. loop_counter \in 0 .. 2^LoopCounterWidth - 1
  BY PayloadExecutorAssumption DEF Init
<1>6. reads_mod \in 0 .. ScratchpadDepth - 1
  BY ScratchpadAssumption DEF Init
<1>. QED
  BY Zenon, <1>1, <1>2, <1>3, <1>4, <1>5, <1>6 DEF Init, TypeOK, States

(* Every step, of the executor or a stutter, preserves TypeOK. *)
LEMMA TypeStep == TypeOK /\ [Next]_vars => TypeOK'
<1>. SUFFICES ASSUME TypeOK, [Next]_vars PROVE TypeOK'
  OBVIOUS
<1>1. CASE UNCHANGED vars
  BY <1>1 DEF vars, execVars, fetcherVars, switchVars, scratchpadVars,
            TypeOK, FetcherTypeOK, SwitchTypeOK, ScratchpadTypeOK
<1>2. CASE Next
  <2>. PICK mcr \in McRefresh, upd \in BOOLEAN :
           \/ Ready(mcr, upd) \/ Start(mcr, upd) \/ WaitDfi(mcr, upd)
           \/ RunTerminate(mcr, upd) \/ RunLoopJump(mcr, upd)
           \/ RunLoopExit(mcr, upd) \/ RunCommand(mcr, upd)
           \/ Idle(mcr, upd) \/ Bubble(mcr, upd)
    BY <1>2 DEF Next, ExecEdge
  <2>0. mcr \in BOOLEAN
    BY Zenon DEF McRefresh
  <2>. USE <2>0
  <2>1. CASE Ready(mcr, upd)
    <3>1. Cycle(FALSE, FALSE, mcr, upd)
      BY Zenon, <2>1 DEF Ready
    <3>2. ExecTypeOK'
      BY <2>1 DEF Ready, ExecTypeOK, TypeOK, States
    <3>. QED
      BY Zenon, <3>1, <3>2, ExecTypeOKImpliesTypeOK
  <2>2. CASE Start(mcr, upd)
    <3>1. Cycle(FALSE, FALSE, mcr, upd)
      BY Zenon, <2>2 DEF Start
    <3>2. ExecTypeOK'
      BY <2>2 DEF Start, ExecTypeOK, TypeOK, States
    <3>. QED
      BY Zenon, <3>1, <3>2, ExecTypeOKImpliesTypeOK
  <2>3. CASE WaitDfi(mcr, upd)
    <3>1. Cycle(FALSE, FALSE, mcr, upd)
      BY Zenon, <2>3 DEF WaitDfi
    <3>2. ExecTypeOK'
      BY <2>3, PayloadExecutorAssumption DEF WaitDfi, ExecTypeOK, TypeOK, States
    <3>. QED
      BY Zenon, <3>1, <3>2, ExecTypeOKImpliesTypeOK
  <2>4. CASE RunTerminate(mcr, upd)
    <3>1. Cycle(FALSE, FALSE, mcr, upd)
      BY Zenon, <2>4 DEF RunTerminate
    <3>2. ExecTypeOK'
      BY Zenon, <2>4 DEF RunTerminate, ExecTypeOK, TypeOK, States
    <3>. QED
      BY Zenon, <3>1, <3>2, ExecTypeOKImpliesTypeOK
  <2>5. CASE RunLoopJump(mcr, upd)
    <3>1. Cycle(TRUE, FALSE, mcr, upd)
      BY Zenon, <2>5 DEF RunLoopJump
    <3>2. ExecTypeOK'
      BY <2>5, PayloadExecutorAssumption DEF RunLoopJump, ExecTypeOK, TypeOK, States
    <3>. QED
      BY Zenon, <3>1, <3>2, ExecTypeOKImpliesTypeOK
  <2>6. CASE RunLoopExit(mcr, upd)
    <3>1. Cycle(FALSE, FALSE, mcr, upd)
      BY Zenon, <2>6 DEF RunLoopExit
    <3>2. ExecTypeOK'
      BY <2>6, PayloadExecutorAssumption DEF RunLoopExit, ExecTypeOK, TypeOK, States
    <3>. QED
      BY Zenon, <3>1, <3>2, ExecTypeOKImpliesTypeOK
  <2>7. CASE RunCommand(mcr, upd)
    <3>0. instruction.ts \in Nat
      BY WordFields DEF TypeOK
    <3>1. Cycle(FALSE, TRUE, mcr, upd)
      BY Zenon, <2>7 DEF RunCommand
    <3>2. ExecTypeOK'
      BY <2>7, <3>0 DEF RunCommand, ExecTypeOK, TypeOK, States
    <3>. QED
      BY Zenon, <3>1, <3>2, ExecTypeOKImpliesTypeOK
  <2>8. CASE Idle(mcr, upd)
    <3>1. Cycle(FALSE, FALSE, mcr, upd)
      BY Zenon, <2>8 DEF Idle
    <3>2. ExecTypeOK'
      BY <2>8 DEF Idle, CountDown, ExecTypeOK, TypeOK, States
    <3>. QED
      BY Zenon, <3>1, <3>2, ExecTypeOKImpliesTypeOK
  <2>9. CASE Bubble(mcr, upd)
    <3>1. Cycle(FALSE, FALSE, mcr, upd)
      BY Zenon, <2>9 DEF Bubble
    <3>2. ExecTypeOK'
      BY <2>9 DEF Bubble, CountDown, ExecTypeOK, TypeOK, States
    <3>. QED
      BY Zenon, <3>1, <3>2, ExecTypeOKImpliesTypeOK
  <2>. QED
    BY <2>1, <2>2, <2>3, <2>4, <2>5, <2>6, <2>7, <2>8, <2>9
<1>. QED
  BY <1>1, <1>2

(* Type correctness: every register of the executor, the fetcher, the     *)
(* switch and the scratchpad stays within the width migen gives it (the   *)
(* wrap of the program counter, loop_counter, refresh and scratchpad      *)
(* counters, the idle_counter loaded from a timeslice >= 2 and counted    *)
(* down to 0), in every reachable state and for every value of the        *)
(* constants.                                                              *)
THEOREM TypeCorrect == Spec => []TypeOK
<1>. QED
  BY TypeInit, TypeStep, PTL DEF Spec
-----------------------------------------------------------------------------
(* The inductive invariant behind ExecutorOwnsBus: wants_dfi is high in   *)
(* every state but READY (it is set with the move to WAIT-DFI and cleared *)
(* with the move back), the executing states hold the bus, and a command *)
(* is registered on the phase outputs only by RUN, which leaves for RUN   *)
(* or IDLE.  The first conjunct is what keeps the switch from handing the *)
(* bus back while the executor still runs.                                *)
OwnInv ==
  /\ TypeOK
  /\ wants_dfi = (fsm # "READY")
  /\ fsm \in {"RUN", "IDLE", "BUBBLE"} => DfiReady
  /\ (\E i \in Phases : bus[i] # NoCmd) => fsm \in {"RUN", "IDLE"}

(* The switch does not hand the bus back while wants_dfi is high. *)
LEMMA SwitchHolds ==
  ASSUME switch_state = PE, wants_dfi = TRUE,
         NEW r \in BOOLEAN, NEW u \in BOOLEAN,
         SwitchStep(wants_dfi, r, u)
  PROVE  switch_state' = PE
BY DEF SwitchStep, HandOver, HandBack, MC, PE

(* A cycle without exec registers no command on any phase. *)
LEMMA NoExecNoCmd ==
  ASSUME NEW j \in BOOLEAN, NEW mcr \in BOOLEAN, NEW upd \in BOOLEAN,
         Cycle(j, FALSE, mcr, upd)
  PROVE  \A i \in Phases : bus'[i] = NoCmd
BY DEF Cycle, Emit

(* OwnInv holds initially. *)
LEMMA OwnInit == Init => OwnInv
BY Zenon, TypeInit DEF Init, OwnInv, NoCmd

(* OwnInv is preserved by every clock edge, one case per FSM branch. *)
LEMMA OwnStep == OwnInv /\ [Next]_vars => OwnInv'
<1>. SUFFICES ASSUME OwnInv, [Next]_vars PROVE OwnInv'
  OBVIOUS
<1>0. TypeOK'
  BY TypeStep DEF OwnInv
<1>1. CASE UNCHANGED vars
  BY <1>0, <1>1 DEF vars, execVars, switchVars, OwnInv, DfiReady
<1>2. CASE Next
  <2>. PICK mcr \in McRefresh, upd \in BOOLEAN :
           \/ Ready(mcr, upd) \/ Start(mcr, upd) \/ WaitDfi(mcr, upd)
           \/ RunTerminate(mcr, upd) \/ RunLoopJump(mcr, upd)
           \/ RunLoopExit(mcr, upd) \/ RunCommand(mcr, upd)
           \/ Idle(mcr, upd) \/ Bubble(mcr, upd)
    BY <1>2 DEF Next, ExecEdge
  <2>0. mcr \in BOOLEAN /\ RefreshOnMaster(mcr) \in BOOLEAN
    BY Zenon DEF McRefresh, RefreshOnMaster
  <2>. USE <2>0, <1>0
  <2>1. CASE Ready(mcr, upd)
    BY Zenon, <2>1, NoExecNoCmd DEF Ready, OwnInv
  <2>2. CASE Start(mcr, upd)
    BY Zenon, <2>2, NoExecNoCmd DEF Start, OwnInv
  <2>3. CASE WaitDfi(mcr, upd)
    <3>1. DfiReady => DfiReady'
      BY Zenon, <2>3, SwitchHolds DEF WaitDfi, Cycle, OwnInv, DfiReady
    <3>. QED
      BY Zenon, <2>3, <3>1, NoExecNoCmd DEF WaitDfi, OwnInv
  <2>4. CASE RunTerminate(mcr, upd)
    BY Zenon, <2>4, NoExecNoCmd DEF RunTerminate, OwnInv
  <2>5. CASE RunLoopJump(mcr, upd)
    <3>1. DfiReady'
      BY Zenon, <2>5, SwitchHolds DEF RunLoopJump, Cycle, OwnInv, DfiReady
    <3>. QED
      BY Zenon, <2>5, <3>1, NoExecNoCmd DEF RunLoopJump, OwnInv
  <2>6. CASE RunLoopExit(mcr, upd)
    <3>1. DfiReady'
      BY Zenon, <2>6, SwitchHolds DEF RunLoopExit, Cycle, OwnInv, DfiReady
    <3>. QED
      BY <2>6, <3>1, NoExecNoCmd DEF RunLoopExit, OwnInv
  <2>7. CASE RunCommand(mcr, upd)
    <3>1. DfiReady'
      BY Zenon, <2>7, SwitchHolds DEF RunCommand, Cycle, OwnInv, DfiReady
    <3>2. fsm' \in {"RUN", "IDLE"}
      BY <2>7 DEF RunCommand
    <3>. QED
      BY <2>7, <3>1, <3>2 DEF RunCommand, OwnInv
  <2>8. CASE Idle(mcr, upd)
    <3>1. DfiReady'
      BY Zenon, <2>8, SwitchHolds DEF Idle, Cycle, OwnInv, DfiReady
    <3>. QED
      BY <2>8, <3>1, NoExecNoCmd DEF Idle, CountDown, OwnInv
  <2>9. CASE Bubble(mcr, upd)
    <3>1. DfiReady'
      BY Zenon, <2>9, SwitchHolds DEF Bubble, Cycle, OwnInv, DfiReady
    <3>. QED
      BY Zenon, <2>9, <3>1, NoExecNoCmd DEF Bubble, CountDown, OwnInv
  <2>. QED
    BY <2>1, <2>2, <2>3, <2>4, <2>5, <2>6, <2>7, <2>8, <2>9
<1>. QED
  BY <1>1, <1>2

(* Bus ownership: the executor drives commands only while the switch     *)
(* selects it (ExecutorOwnsBus, checked by MC_PayloadExecutor), for every *)
(* payload, bus width, latency and counter width.                        *)
THEOREM BusOwnership == Spec => []ExecutorOwnsBus
<1>1. OwnInv => ExecutorOwnsBus
  BY DEF OwnInv, ExecutorOwnsBus
<1>. QED
  BY <1>1, OwnInit, OwnStep, PTL DEF Spec
=============================================================================
