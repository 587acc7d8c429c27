--------------------------- MODULE MC_LoopCarry ---------------------------
(***************************************************************************)
(* Model-checking instance of PayloadExecutor with one well-formed        *)
(* payload that fills the memory and ends with a LOOP in its last word.   *)
(* When the loop is done, the end-of-memory test terminates the run in    *)
(* the same cycle, before the RUN branch that clears loop_counter, so the *)
(* next run starts with the counter at the loop's count.                  *)
(***************************************************************************)
EXTENDS PayloadExecutor

LoopCarryProgram ==
  [a \in Addr |->
     CASE a = 0 -> [op |-> "ACT", ts |-> 1, count |-> 0, jump |-> 0, addr |-> 0]
       [] a = 1 -> [op |-> "READ", ts |-> 1, count |-> 0, jump |-> 0, addr |-> 1]
       [] a = 2 -> [op |-> "ZQC", ts |-> 1, count |-> 0, jump |-> 0, addr |-> 0]
       [] OTHER -> [op |-> "LOOP", ts |-> 0, count |-> 1, jump |-> 2, addr |-> 0]]

LoopCarryPrograms == {LoopCarryProgram}
=============================================================================
