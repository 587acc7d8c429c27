-------------------------- MODULE PayloadExecutor --------------------------
(***************************************************************************)
(* The payload executor (class PayloadExecutor) composed with the         *)
(* components it drives: the Fetcher, the DFISwitch with its refresh      *)
(* counter, the Scratchpad, the Decoder and the DFIExecutor.  The design  *)
(* is synchronous: one step of the specification is one clock edge, and   *)
(* every action below is one state of the executor FSM (or one branch of  *)
(* its RUN state) together with what every component does in that cycle.  *)
(*                                                                         *)
(* An instruction word is a record of its decoded fields (op, ts, count,  *)
(* jump, addr); the bit packing is the subject of the codec module.  The  *)
(* payload memory holds one program per behaviour (the host writes it     *)
(* while the executor is READY).  The memory controller, the host CSRs and *)
(* the PHY are the environment: in each cycle the controller may put a    *)
(* refresh on DFI phase 0, the host may strobe start and refresh_update,  *)
(* and the PHY returns rddata_valid ReadLatency cycles after rddata_en.   *)
(***************************************************************************)
EXTENDS Fetcher, DFISwitch, Scratchpad

CONSTANTS
  NPhases,           \* len(dfi.phases)
  RdPhase,           \* rdphase
  ReadLatency,       \* cycles from rddata_en on the bus to rddata_valid
  LoopCounterWidth,  \* Decoder.LOOP_COUNT, the width of loop_counter
  Programs           \* the payload memory contents the host may write

Ops == {"NOOP", "LOOP", "ACT", "PRE", "REF", "ZQC", "READ"}

(* Field ranges of the 32-bit instruction word (Decoder widths). *)
WellEncoded(w) ==
  /\ w.op \in Ops
  /\ w.ts \in 0 .. (IF w.op = "NOOP" THEN 2^29 - 1 ELSE 2^5 - 1)
  /\ w.count \in 0 .. 2^LoopCounterWidth - 1
  /\ w.jump \in 0 .. 2^17 - 1
  /\ w.addr \in Nat

ASSUME PayloadExecutorAssumption ==
  /\ NPhases \in Nat \ {0}
  /\ RdPhase \in 0 .. NPhases - 1
  /\ ReadLatency \in Nat \ {0}
  /\ LoopCounterWidth \in Nat \ {0} /\ 2^LoopCounterWidth \in Nat \ {0}
  /\ PipelineDelay = 2
  /\ Programs # {}
  /\ \A p \in Programs : DOMAIN p = Addr /\ \A a \in Addr : WellEncoded(p[a])

VARIABLES
  fsm,             \* PayloadExecutor.fsm
  mem,             \* the payload memory
  dat,             \* payload_port.dat_r (synchronous read port)
  instruction,     \* PayloadExecutor.instruction, the decoder input
  loop_counter,    \* PayloadExecutor.loop_counter
  idle_counter,    \* PayloadExecutor.idle_counter
  wants_dfi,       \* dfi_switch.wants_dfi (driven by NextValue here)
  bus,             \* the registered outputs of DFIExecutor, per phase
  rd_pipe,         \* rddata_en in flight through the PHY
  reads_mod,       \* auxiliary: READs issued since the last scratchpad
  reads_over       \*   reset, modulo ScratchpadDepth, and >= it

execVars == <<fsm, mem, dat, instruction, loop_counter, idle_counter,
              wants_dfi, bus, rd_pipe, reads_mod, reads_over>>
vars == <<execVars, fetcherVars, switchVars, scratchpadVars>>

Phases == 0 .. NPhases - 1
States == {"READY", "WAIT-DFI", "RUN", "IDLE", "BUBBLE"}

(* The reset value of the instruction register and of the read port. *)
ZeroWord == [op |-> "NOOP", ts |-> 0, count |-> 0, jump |-> 0, addr |-> 0]
Words == {ZeroWord} \cup UNION {{p[a] : a \in Addr} : p \in Programs}

(* A phase output: the inactive pattern, or the command of an op code.   *)
NoCmd == [op |-> "NONE", addr |-> 0]
Cmds == {NoCmd} \cup {[op |-> w.op, addr |-> w.addr] : w \in Words}

TypeOK ==
  /\ FetcherTypeOK
  /\ SwitchTypeOK
  /\ ScratchpadTypeOK
  /\ fsm \in States
  /\ mem \in Programs
  /\ dat \in Words
  /\ instruction \in Words
  /\ loop_counter \in 0 .. 2^LoopCounterWidth - 1
  /\ idle_counter \in Nat
  /\ wants_dfi \in BOOLEAN
  /\ bus \in [Phases -> Cmds]
  /\ rd_pipe \in [1 .. ReadLatency -> BOOLEAN]
  /\ reads_mod \in 0 .. ScratchpadDepth - 1
  /\ reads_over \in BOOLEAN

Init ==
  /\ FetcherInit
  /\ SwitchInit
  /\ ScratchpadInit
  /\ fsm = "READY"
  /\ mem \in Programs
  /\ dat = ZeroWord
  /\ instruction = ZeroWord
  /\ loop_counter = 0
  /\ idle_counter = 0
  /\ wants_dfi = FALSE
  /\ bus = [i \in Phases |-> NoCmd]
  /\ rd_pipe = [i \in 1 .. ReadLatency |-> FALSE]
  /\ reads_mod = 0
  /\ reads_over = FALSE
-----------------------------------------------------------------------------
(* Decoder: combinational over the instruction register. *)
Stop == instruction.op = "NOOP" /\ instruction.ts = 0
IsRead == CAS(instruction.op) /\ ~RAS(instruction.op) /\ ~WE(instruction.op)
LoopPending == instruction.op = "LOOP" /\ loop_counter # instruction.count

(* Fetch is stalled in every state but RUN and BUBBLE. *)
Stall == fsm \in {"READY", "WAIT-DFI", "IDLE"}

(* RUN: terminate after the whole memory or on STOP, unless the decoded   *)
(* instruction is a LOOP that still has to jump back.                    *)
Terminate ==
  /\ MemAddr(FALSE) = PipelineDelay - 1 \/ Stop
  /\ instruction.op # "LOOP" \/ instruction.count = loop_counter

(* DFIExecutor: the registered phase outputs for the next cycle. NOOP      *)
(* deselects every rank and drives cas_n = ras_n = we_n = 1: no command.  *)
Emit(exec) ==
  LET phase == IF IsRead THEN RdPhase ELSE 0
  IN  [i \in Phases |->
         IF exec /\ i = phase /\ instruction.op # "NOOP"
           THEN [op |-> instruction.op, addr |-> instruction.addr]
           ELSE NoCmd]

BusHasRead == \E i \in Phases : bus[i].op = "READ"

(* The refresh decode of DFI master phase 0: the executor's output while  *)
(* ext_dfi_sel is asserted, the memory controller's command otherwise.   *)
RefreshOnMaster(mc_refresh) ==
  IF DfiReady THEN bus[0] # NoCmd /\ IsRefreshCommand(bus[0].op)
              ELSE mc_refresh

(* What every component does on a clock edge, given the executor's        *)
(* combinational outputs of this cycle.                                   *)
Cycle(jump, exec, mc_refresh, refresh_update) ==
  /\ FetcherStep(Stall, jump, instruction.jump, fsm = "READY")
  /\ dat' = mem[MemAddr(Stall)]
  /\ instruction' = IF Stall THEN instruction ELSE dat
  /\ bus' = Emit(exec)
  /\ rd_pipe' = [i \in 1 .. ReadLatency |->
                   IF i < ReadLatency THEN rd_pipe[i + 1] ELSE BusHasRead]
  /\ ScratchpadStep(fsm = "WAIT-DFI", rd_pipe[1])
  /\ SwitchStep(wants_dfi, RefreshOnMaster(mc_refresh), refresh_update)
  /\ reads_mod' = IF fsm = "WAIT-DFI" THEN 0
                  ELSE IF BusHasRead THEN (reads_mod + 1) % ScratchpadDepth
                  ELSE reads_mod
  /\ reads_over' = IF fsm = "WAIT-DFI" THEN FALSE
                   ELSE reads_over \/ (BusHasRead /\ reads_mod = ScratchpadDepth - 1)
  /\ UNCHANGED mem
-----------------------------------------------------------------------------
(* READY without start: stall, reset the program counter, assert ready.  *)
Ready(mcr, upd) ==
  /\ fsm = "READY"
  /\ UNCHANGED <<fsm, wants_dfi, loop_counter, idle_counter>>
  /\ Cycle(FALSE, FALSE, mcr, upd)

(* READY with the start strobe: request the bus. *)
Start(mcr, upd) ==
  /\ fsm = "READY"
  /\ fsm' = "WAIT-DFI"
  /\ wants_dfi' = TRUE
  /\ UNCHANGED <<loop_counter, idle_counter>>
  /\ Cycle(FALSE, FALSE, mcr, upd)

(* Mutant: WAIT-DFI leaves for BUBBLE without waiting for dfi_ready. *)
WaitDfiNoHandshake(mcr, upd) ==
  /\ fsm = "WAIT-DFI"
  /\ fsm' = "BUBBLE" /\ idle_counter' = PipelineDelay - 1
  /\ UNCHANGED <<wants_dfi, loop_counter>>
  /\ Cycle(FALSE, FALSE, mcr, upd)

(* WAIT-DFI: hold the scratchpad in reset until the switch hands over.   *)
WaitDfi(mcr, upd) ==
  /\ fsm = "WAIT-DFI"
  /\ \/ DfiReady /\ fsm' = "BUBBLE" /\ idle_counter' = PipelineDelay - 1
     \/ ~DfiReady /\ UNCHANGED <<fsm, idle_counter>>
  /\ UNCHANGED <<wants_dfi, loop_counter>>
  /\ Cycle(FALSE, FALSE, mcr, upd)

(* Mutant: the end of program leaves wants_dfi asserted. *)
RunTerminateKeepsBus(mcr, upd) ==
  /\ fsm = "RUN"
  /\ Terminate
  /\ fsm' = "READY"
  /\ UNCHANGED <<wants_dfi, loop_counter, idle_counter>>
  /\ Cycle(FALSE, FALSE, mcr, upd)

(* RUN, end of program: give the bus back. *)
RunTerminate(mcr, upd) ==
  /\ fsm = "RUN"
  /\ Terminate
  /\ fsm' = "READY"
  /\ wants_dfi' = FALSE
  /\ UNCHANGED <<loop_counter, idle_counter>>
  /\ Cycle(FALSE, FALSE, mcr, upd)

(* RUN, a LOOP that jumps back: refill the pipeline in BUBBLE. *)
RunLoopJump(mcr, upd) ==
  /\ fsm = "RUN"
  /\ ~Terminate
  /\ LoopPending
  /\ loop_counter' = (loop_counter + 1) % 2^LoopCounterWidth
  /\ fsm' = "BUBBLE"
  /\ idle_counter' = PipelineDelay - 1
  /\ UNCHANGED wants_dfi
  /\ Cycle(TRUE, FALSE, mcr, upd)

(* Mutant: a finished LOOP falls through without clearing the counter. *)
RunLoopExitKeepCount(mcr, upd) ==
  /\ fsm = "RUN"
  /\ ~Terminate
  /\ instruction.op = "LOOP"
  /\ ~LoopPending
  /\ UNCHANGED <<fsm, idle_counter, wants_dfi, loop_counter>>
  /\ Cycle(FALSE, FALSE, mcr, upd)

(* RUN, a LOOP whose iterations are done: clear the counter, fall through. *)
RunLoopExit(mcr, upd) ==
  /\ fsm = "RUN"
  /\ ~Terminate
  /\ instruction.op = "LOOP"
  /\ ~LoopPending
  /\ loop_counter' = 0
  /\ UNCHANGED <<fsm, idle_counter, wants_dfi>>
  /\ Cycle(FALSE, FALSE, mcr, upd)

(* RUN, a DFI instruction (or NOOP): send it, then wait out its timeslice *)
(* in IDLE; a timeslice of 0 or 1 takes this cycle only.                 *)
RunCommand(mcr, upd) ==
  /\ fsm = "RUN"
  /\ ~Terminate
  /\ instruction.op # "LOOP"
  /\ \/ instruction.ts \in {0, 1} /\ UNCHANGED <<fsm, idle_counter>>
     \/ instruction.ts \notin {0, 1} /\ fsm' = "IDLE"
        /\ idle_counter' = instruction.ts - 2
  /\ UNCHANGED <<loop_counter, wants_dfi>>
  /\ Cycle(FALSE, TRUE, mcr, upd)

(* Mutant: the idle counter is never decremented. *)
CountDownStuck ==
  \/ idle_counter = 0 /\ fsm' = "RUN" /\ UNCHANGED idle_counter
  \/ idle_counter # 0 /\ UNCHANGED <<idle_counter, fsm>>

(* IDLE (stalled) and BUBBLE (not stalled): count down, then RUN. *)
CountDown ==
  \/ idle_counter = 0 /\ fsm' = "RUN" /\ UNCHANGED idle_counter
  \/ idle_counter # 0 /\ idle_counter' = idle_counter - 1 /\ UNCHANGED fsm

Idle(mcr, upd) ==
  /\ fsm = "IDLE"
  /\ CountDown
  /\ UNCHANGED <<loop_counter, wants_dfi>>
  /\ Cycle(FALSE, FALSE, mcr, upd)

Bubble(mcr, upd) ==
  /\ fsm = "BUBBLE"
  /\ CountDown
  /\ UNCHANGED <<loop_counter, wants_dfi>>
  /\ Cycle(FALSE, FALSE, mcr, upd)

(* The environment of a cycle: the memory controller's refresh (visible   *)
(* only while it owns the bus) and the refresh_update strobe.            *)
McRefresh == IF DfiReady THEN {FALSE} ELSE BOOLEAN

(* One clock edge in which the host does not strobe start. *)
ExecEdge(mcr, upd) ==
  \/ Ready(mcr, upd)
  \/ WaitDfi(mcr, upd)
  \/ RunTerminate(mcr, upd)
  \/ RunLoopJump(mcr, upd)
  \/ RunLoopExit(mcr, upd)
  \/ RunCommand(mcr, upd)
  \/ Idle(mcr, upd)
  \/ Bubble(mcr, upd)

Next ==
  \E mcr \in McRefresh, upd \in BOOLEAN :
    Start(mcr, upd) \/ ExecEdge(mcr, upd)

Spec == Init /\ [][Next]_vars

(* Fairness.  The clock never stops, so a clock edge that changes the     *)
(* state is eventually taken (weak fairness of ExecEdge); the host is     *)
(* never obliged to start.  LiteDRAM's refresher issues a REF every tREFI *)
(* while the controller owns the bus, so a refresh cycle is eventually    *)
(* taken while ext_dfi_sel is low.                                        *)
ControllerRefresh == ~DfiReady /\ \E upd \in BOOLEAN : ExecEdge(TRUE, upd)

FairSpec ==
  /\ Spec
  /\ WF_vars(\E mcr \in McRefresh, upd \in BOOLEAN : ExecEdge(mcr, upd))
  /\ WF_vars(ControllerRefresh)
-----------------------------------------------------------------------------
(***************************************************************************)
(* Properties.                                                             *)
(***************************************************************************)

(* Bus ownership (DFISwitch / FSM handshake): the executor runs (RUN,     *)
(* IDLE, BUBBLE) only while the switch selects it, and every command       *)
(* DFIExecutor has registered on its phase outputs is driven while        *)
(* ext_dfi_sel still selects the executor, so no command of the payload    *)
(* is dropped at the hand-back and none reaches the bus of the controller. *)
ExecutorOwnsBus ==
  /\ fsm \in {"RUN", "IDLE", "BUBBLE"} => DfiReady
  /\ (\E i \in Phases : bus[i] # NoCmd) => DfiReady

(* Hand-back (DFISwitch's PAYLOAD-EXECUTION state and the FSM's RUN      *)
(* terminate branch, which drops wants_dfi): the switch returns the bus   *)
(* to the controller only on an edge where the run is over (the FSM is in *)
(* READY), and the executor registers no command on its phase outputs for *)
(* the cycle in which the controller owns the bus again.                  *)
HandBackAtEnd ==
  [][switch_state = PE /\ switch_state' = MC =>
       /\ fsm = "READY"
       /\ \A i \in Phases : bus'[i] = NoCmd]_vars

(* Fetch pipeline (Fetcher, stall, the synchronous port, the instruction  *)
(* register): whenever the FSM is in RUN or IDLE, the decoded instruction  *)
(* is the word PIPELINE_DELAY words behind the program counter, i.e. the  *)
(* stall logic (program_counter_old while stalled) and the jump arithmetic *)
(* never let a word be skipped, repeated or replaced by a stale one.      *)
FetchCoherent ==
  fsm \in {"RUN", "IDLE"} =>
    instruction = mem[(program_counter - PipelineDelay) % Depth]

(* Refresh-aligned handover (DFISwitch, refresh_matches with its +1): on   *)
(* the first cycle the executor owns the bus after a gated handover, the  *)
(* refresh counter (and so the refresh_count latched in that cycle)       *)
(* equals at_refresh: the switch took over right after the at_refresh-th  *)
(* refresh, neither one refresh early nor one late.                       *)
HandoverAligned ==
  (McToPe /\ WithRefresh /\ at_refresh # 0) => refresh_counter = at_refresh

(* Scratchpad accounting (Scratchpad counter and overflow, its reset in    *)
(* WAIT-DFI, the PHY read latency): whenever no read is in flight, the    *)
(* read_count CSR is the number of READs issued since the last start,     *)
(* modulo the scratchpad depth, and overflow says whether it reached the  *)
(* depth.  A read of an earlier run that lands after the reset, or a      *)
(* cursor that wraps at the wrong value, breaks it.                       *)
ReadsInFlight == BusHasRead \/ sp_we \/ \E i \in 1 .. ReadLatency : rd_pipe[i]

ReadsCounted ==
  ~ReadsInFlight => sp_counter = reads_mod /\ sp_overflow = reads_over

(* Loop counter at start (the FSM's loop_counter, spec: "clear            *)
(* loop_counter to 0 so the next LOOP starts fresh"): every run starts    *)
(* with the loop counter at 0.                                            *)
LoopStartsFresh == fsm = "WAIT-DFI" => loop_counter = 0

(* The refresh a gated handover waits for is still to come: gating is off, *)
(* at_refresh is 0 (hand over at once), or the at_refresh-th refresh has   *)
(* not been counted yet.  The hardware counter is 64 bits wide and never  *)
(* wraps, so an ordinal that has passed never matches again (the CSR       *)
(* description of at_refresh); the property below asks nothing of that    *)
(* case, in which the small model's wrapping counter would hide the wait. *)
AwaitedRefreshAhead ==
  ~WithRefresh \/ at_refresh = 0 \/ at_refresh > refresh_counter

(* Termination (the RUN branch's end-of-program test, the handover gated  *)
(* on at_refresh, the countdowns in IDLE and BUBBLE): every run that is   *)
(* started while the refresh it waits for is still ahead reaches READY    *)
(* again, under the fairness above, without the refresh counter wrapping. *)
(* A program without STOP ends at the end of memory.                      *)
RunCompletes == fsm = "WAIT-DFI" /\ AwaitedRefreshAhead ~> fsm = "READY"

(* Bus return (the FSM's wants_dfi and DFISwitch's hand-back): whenever   *)
(* the executor holds the DFI bus, the memory controller eventually gets  *)
(* it back, whatever the host does.                                       *)
BusReturned == DfiReady ~> ~DfiReady
=============================================================================
