--------------------------- MODULE RefreshCounter ---------------------------
(***************************************************************************)
(* The refresh counter (class RefreshCounter): it watches phase 0 of the  *)
(* DFI master and counts the cycles on which that phase carries a refresh *)
(* command.  The counter is `width` bits wide and wraps.                  *)
(*                                                                         *)
(* A command on a phase is abstracted to the op code that produced it; the *)
(* DFI lines it drives are computed from the op-code bits the way          *)
(* DFIExecutor does (cas_n = ~cas, ras_n = ~ras, we_n = ~we, cs_n = 0 for  *)
(* a selected chip).  The DDR5 recognition rule is not modelled.           *)
(***************************************************************************)
EXTENDS Naturals

CONSTANT RefreshCounterWidth

VARIABLE refresh_counter   \* RefreshCounter.counter

RefreshModulus == 2^RefreshCounterWidth

(* The second conjunct is arithmetic the provers lack (2^w > 0). *)
ASSUME RefreshCounterAssumption ==
  /\ RefreshCounterWidth \in Nat \ {0}
  /\ RefreshModulus \in Nat \ {0}

RefreshValues == 0 .. RefreshModulus - 1

(* OpCode: bit 0 is WE, bit 1 is CAS, bit 2 is RAS. *)
OpCode == [NOOP |-> 0, LOOP |-> 7, ACT |-> 4, PRE |-> 5, REF |-> 6,
           ZQC |-> 1, READ |-> 2]
OpBit(op, b) == (OpCode[op] \div 2^b) % 2 = 1
WE(op) == OpBit(op, 0)
CAS(op) == OpBit(op, 1)
RAS(op) == OpBit(op, 2)

(* ref_cmd = dict(cs_n=0, cas_n=0, ras_n=0, we_n=1), applied to a phase on *)
(* which a chip is selected with the lines of op code `op`.              *)
IsRefreshCommand(op) == CAS(op) /\ RAS(op) /\ ~WE(op)

RefreshCounterInit == refresh_counter = 0

RefreshCounterStep(refresh) ==
  refresh_counter' = IF refresh THEN (refresh_counter + 1) % RefreshModulus
                                ELSE refresh_counter
=============================================================================
