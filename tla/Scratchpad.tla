----------------------------- MODULE Scratchpad -----------------------------
(***************************************************************************)
(* The scratchpad (class Scratchpad, wrapped in ResetInserter): a write   *)
(* cursor into the scratchpad memory that advances on every cycle on which *)
(* the registered write enable is high, wraps at the memory depth and sets *)
(* a sticky overflow flag.  The data written is not modelled, only where  *)
(* and whether it is written.                                             *)
(*                                                                         *)
(* The cursor is Signal(max=mem.depth - 1): migen gives it                 *)
(* bits_for(depth - 2) bits, and `counter + 1` is truncated to that width. *)
(***************************************************************************)
EXTENDS Naturals

CONSTANT ScratchpadDepth   \* mem_scratchpad.depth

VARIABLES
  sp_counter,    \* Scratchpad.counter (the read_count CSR)
  sp_overflow,   \* Scratchpad.overflow
  sp_we          \* wr_port.we, registered from the phases' rddata_valid

scratchpadVars == <<sp_counter, sp_overflow, sp_we>>

\* migen's bits_for(n): the number of bits needed for n, at least 1.
BitsFor(n) == CHOOSE b \in 1 .. n + 1 : n < 2^b /\ (b = 1 \/ 2^(b - 1) <= n)

CounterWidth == BitsFor(ScratchpadDepth - 2)
CounterValues == 0 .. 2^CounterWidth - 1

(* The last conjunct says that bits_for is defined and gives a positive   *)
(* modulus: a fact about the CHOOSE above that the provers cannot derive. *)
ASSUME ScratchpadAssumption ==
  /\ ScratchpadDepth \in Nat /\ ScratchpadDepth >= 2
  /\ CounterWidth \in Nat \ {0} /\ 2^CounterWidth \in Nat \ {0}

ScratchpadTypeOK ==
  /\ sp_counter \in CounterValues
  /\ sp_overflow \in BOOLEAN
  /\ sp_we \in BOOLEAN

ScratchpadInit ==
  /\ sp_counter = 0
  /\ sp_overflow = FALSE
  /\ sp_we = FALSE

\* Mutant: the cursor is compared with the depth instead of depth - 1.
ScratchpadStepLateWrap(reset, valid) ==
  \/ /\ reset
     /\ sp_counter' = 0 /\ sp_overflow' = FALSE /\ sp_we' = FALSE
  \/ /\ ~reset
     /\ sp_we' = valid
     /\ \/ /\ sp_we /\ sp_counter = ScratchpadDepth
           /\ sp_overflow' = TRUE /\ sp_counter' = 0
        \/ /\ sp_we /\ sp_counter # ScratchpadDepth
           /\ sp_counter' = (sp_counter + 1) % 2^CounterWidth
           /\ UNCHANGED sp_overflow
        \/ /\ ~sp_we
           /\ UNCHANGED <<sp_counter, sp_overflow>>

\* One clock edge.  `reset` is the ResetInserter reset (asserted by the
\* executor in WAIT-DFI): every sync register of the module takes its reset
\* value.  `valid` is the OR of the phases' rddata_valid in this cycle.
ScratchpadStep(reset, valid) ==
  \/ /\ reset
     /\ sp_counter' = 0 /\ sp_overflow' = FALSE /\ sp_we' = FALSE
  \/ /\ ~reset
     /\ sp_we' = valid
     /\ \/ /\ sp_we /\ sp_counter = ScratchpadDepth - 1
           /\ sp_overflow' = TRUE /\ sp_counter' = 0
        \/ /\ sp_we /\ sp_counter # ScratchpadDepth - 1
           /\ sp_counter' = (sp_counter + 1) % 2^CounterWidth
           /\ UNCHANGED sp_overflow
        \/ /\ ~sp_we
           /\ UNCHANGED <<sp_counter, sp_overflow>>
=============================================================================
