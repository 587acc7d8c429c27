------------------------------ MODULE Fetcher ------------------------------
(***************************************************************************)
(* The instruction fetcher of the payload executor (class Fetcher in       *)
(* payload_executor.py).  It holds the program counter and the previous    *)
(* program counter, drives the address of the synchronous read port of     *)
(* the payload memory and, on every cycle that is not stalled, advances    *)
(* the program counter by one or jumps back by jump_offset+pipeline_delay. *)
(*                                                                         *)
(* mem_addr is Signal(max=depth): it and the program counters (which are   *)
(* Signal.like(mem_addr)) are AddrBits wide, so all address arithmetic is  *)
(* modulo 2^AddrBits.  The payload memory depth is taken to be exactly     *)
(* 2^AddrBits; payload depths that are not powers of two are not covered. *)
(***************************************************************************)
EXTENDS Naturals

CONSTANTS
  AddrBits,        \* width of mem_addr, program_counter, program_counter_old
  PipelineDelay    \* PayloadExecutor.PIPELINE_DELAY

VARIABLES
  program_counter,      \* Fetcher.program_counter
  program_counter_old   \* Fetcher.program_counter_old

fetcherVars == <<program_counter, program_counter_old>>

Depth == 2^AddrBits
Addr == 0 .. Depth - 1

(* The last conjunct is arithmetic the provers lack (2^w > 0). *)
ASSUME FetcherAssumption ==
  /\ AddrBits \in Nat \ {0}
  /\ PipelineDelay \in Nat
  /\ Depth \in Nat \ {0, 1}

FetcherTypeOK ==
  /\ program_counter \in Addr
  /\ program_counter_old \in Addr

\* Both counters are Signal.like(mem_addr, reset=0).
FetcherInit ==
  /\ program_counter = 0
  /\ program_counter_old = 0

\* Mutant: the stall no longer holds the previous address.
MemAddrNoHold(stall) == program_counter

\* The combinational memory address: the previous counter while stalled, so
\* that the word being fetched is not clobbered by the stall.
MemAddr(stall) == IF stall THEN program_counter_old ELSE program_counter

\* Mutant: the address arithmetic is not truncated to the signal width.
NextAddrNoWrap(jump, jump_offset) ==
  IF jump THEN program_counter - jump_offset - PipelineDelay
          ELSE program_counter + 1

\* next_addr: +1, or back by jump_offset + pipeline_delay, truncated to the
\* width of the address signal.
NextAddr(jump, jump_offset) ==
  IF jump THEN (program_counter - jump_offset - PipelineDelay) % Depth
          ELSE (program_counter + 1) % Depth

\* One clock edge of the fetcher.  reset_pc only acts while stalled (it is
\* the Elif of the ~stall branch).
FetcherStep(stall, jump, jump_offset, reset_pc) ==
  \/ /\ ~stall
     /\ program_counter' = NextAddr(jump, jump_offset)
     /\ program_counter_old' = program_counter
  \/ /\ stall /\ reset_pc
     /\ program_counter' = 0
     /\ program_counter_old' = 0
  \/ /\ stall /\ ~reset_pc
     /\ UNCHANGED fetcherVars
=============================================================================
