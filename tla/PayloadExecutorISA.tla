------------------------- MODULE PayloadExecutorISA -------------------------
(***************************************************************************)
(* The payload executor implements the instruction-set specification      *)
(* PayloadISA.  The refinement mapping recovers, from the registers of    *)
(* the pipelined hardware, the address of the instruction the FSM is      *)
(* executing and the cycles it still has to wait:                         *)
(*   - in RUN and IDLE the decoded word is PIPELINE_DELAY behind the      *)
(*     program counter (FetchCoherent);                                   *)
(*   - in BUBBLE the pipeline is refilling: the next word is decoded when *)
(*     the idle counter has run down, at pc + idle_counter - 1;           *)
(*   - IDLE and BUBBLE wait idle_counter + 1 more cycles, RUN none;       *)
(*   - the command issued is the one DFIExecutor registered on a phase.   *)
(***************************************************************************)
EXTENDS PayloadExecutor

AbsPhase ==
  CASE fsm = "READY"    -> "READY"
    [] fsm = "WAIT-DFI" -> "WAIT"
    [] OTHER            -> "RUN"

AbsPc ==
  CASE fsm \in {"RUN", "IDLE"} -> (program_counter - PipelineDelay) % Depth
    [] fsm = "BUBBLE"          -> (program_counter + idle_counter - 1) % Depth
    [] OTHER                   -> 0

AbsWait == IF fsm \in {"IDLE", "BUBBLE"} THEN idle_counter + 1 ELSE 0

Issued ==
  IF \E i \in Phases : bus[i] # NoCmd
    THEN bus[CHOOSE i \in Phases : bus[i] # NoCmd]
    ELSE NoCmd

ISA == INSTANCE PayloadISA
         WITH Size <- Depth, Delay <- PipelineDelay,
              CountModulus <- 2^LoopCounterWidth,
              EndAddress <- Depth - 1, LoopSpanExtra <- 0,
              phase <- AbsPhase, prog <- mem, apc <- AbsPc,
              aloop <- loop_counter, await <- AbsWait, issued <- Issued

(* The same mapping against the spec's reading of program execution: the *)
(* last word of memory is executed (section 3, "terminates ... end of    *)
(* memory"; the code comment "after executing the whole program").       *)
ISALastWord == INSTANCE PayloadISA
         WITH Size <- Depth, Delay <- PipelineDelay,
              CountModulus <- 2^LoopCounterWidth,
              EndAddress <- Depth, LoopSpanExtra <- 0,
              phase <- AbsPhase, prog <- mem, apc <- AbsPc,
              aloop <- loop_counter, await <- AbsWait, issued <- Issued

(* ... and against its LOOP rule: a LOOP with jump J repeats the J + 1    *)
(* instructions before it (section 6, property 6, and S3).               *)
ISALoopSpan == INSTANCE PayloadISA
         WITH Size <- Depth, Delay <- PipelineDelay,
              CountModulus <- 2^LoopCounterWidth,
              EndAddress <- Depth - 1, LoopSpanExtra <- 1,
              phase <- AbsPhase, prog <- mem, apc <- AbsPc,
              aloop <- loop_counter, await <- AbsWait, issued <- Issued

(* Refinement (the whole executor: FSM, fetch pipeline, decoder,          *)
(* DFIExecutor, against PayloadISA): every clock edge is one instruction  *)
(* step or one wait cycle of the instruction set, or leaves the mapped    *)
(* state alone; so every program issues exactly the commands its words    *)
(* say, each max(timeslice, 1) cycles after the previous one, with LOOPs  *)
(* repeated count + 1 times and the pipeline refill costing 2 cycles.     *)
ImplementsISA == ISA!Spec

(* The executor executes the last word of memory, as the code's comment  *)
(* "Terminate after executing the whole program" says.                   *)
ExecutesLastWord == ISALastWord!Spec

(* A LOOP with jump J repeats the J + 1 words before it (spec, section 6). *)
LoopRepeatsJPlusOne == ISALoopSpan!Spec
=============================================================================
