------------------------------ MODULE PayloadISA ------------------------------
(***************************************************************************)
(* What the payload executor promises its host, one instruction at a time *)
(* and one clock cycle per step: after a start it requests the bus, and   *)
(* once it is granted it interprets the program from word 0.  A DFI       *)
(* instruction is issued in one cycle and occupies max(timeslice, 1)      *)
(* cycles; a LOOP that still has iterations to do jumps back and the      *)
(* fetch pipeline costs Delay cycles; a finished LOOP clears the counter; *)
(* STOP, or reaching EndAddress, ends the run unless the word there is a  *)
(* LOOP with iterations left.                                             *)
(*                                                                         *)
(* Two readings of the program semantics are parameters:                  *)
(*   EndAddress     the address at which the run ends without executing   *)
(*                  the word there (Size: after the last word);           *)
(*   LoopSpanExtra  the words a LOOP with jump J repeats beyond J.        *)
(* `issued` is the command put on the bus in the last cycle, or none.     *)
(***************************************************************************)
EXTENDS Naturals

CONSTANTS
  Size,            \* words of payload memory
  Delay,           \* cycles to refill the fetch pipeline
  CountModulus,    \* the loop counter wraps at this value
  EndAddress,
  LoopSpanExtra,
  Programs         \* the payloads: functions 0 .. Size - 1 -> words

VARIABLES phase, prog, apc, aloop, await, issued

avars == <<phase, prog, apc, aloop, await, issued>>

NoCommand == [op |-> "NONE", addr |-> 0]

Word == prog[apc]
IsStop == Word.op = "NOOP" /\ Word.ts = 0
LoopLeft == Word.op = "LOOP" /\ Word.count # aloop

(* The run ends here: past the memory, or at EndAddress or a STOP that is *)
(* not a LOOP with iterations left.                                        *)
Ends ==
  \/ apc >= Size
  \/ (apc = EndAddress \/ IsStop) /\ ~LoopLeft

Init ==
  /\ phase = "READY"
  /\ prog \in Programs
  /\ apc = 0 /\ aloop = 0 /\ await = 0
  /\ issued = NoCommand

Request ==
  /\ phase = "READY"
  /\ phase' = "WAIT"
  /\ issued' = NoCommand
  /\ UNCHANGED <<prog, apc, aloop, await>>

Grant ==
  /\ phase = "WAIT"
  /\ phase' = "RUN" /\ await' = Delay
  /\ issued' = NoCommand
  /\ UNCHANGED <<prog, apc, aloop>>

Wait ==
  /\ phase = "RUN" /\ await > 0
  /\ await' = await - 1
  /\ issued' = NoCommand
  /\ UNCHANGED <<phase, prog, apc, aloop>>

Finish ==
  /\ phase = "RUN" /\ await = 0 /\ Ends
  /\ phase' = "READY" /\ apc' = 0
  /\ issued' = NoCommand
  /\ UNCHANGED <<prog, aloop, await>>

Repeat ==
  /\ phase = "RUN" /\ await = 0 /\ ~Ends /\ LoopLeft
  /\ apc' = (apc - Word.jump - LoopSpanExtra) % Size
  /\ aloop' = (aloop + 1) % CountModulus
  /\ await' = Delay
  /\ issued' = NoCommand
  /\ UNCHANGED <<phase, prog>>

LeaveLoop ==
  /\ phase = "RUN" /\ await = 0 /\ ~Ends
  /\ Word.op = "LOOP" /\ ~LoopLeft
  /\ apc' = apc + 1 /\ aloop' = 0
  /\ issued' = NoCommand
  /\ UNCHANGED <<phase, prog, await>>

Issue ==
  /\ phase = "RUN" /\ await = 0 /\ ~Ends
  /\ Word.op # "LOOP"
  /\ issued' = IF Word.op = "NOOP" THEN NoCommand
                                   ELSE [op |-> Word.op, addr |-> Word.addr]
  /\ apc' = apc + 1
  /\ await' = IF Word.ts <= 1 THEN 0 ELSE Word.ts - 1
  /\ UNCHANGED <<phase, prog, aloop>>

Next == Request \/ Grant \/ Wait \/ Finish \/ Repeat \/ LeaveLoop \/ Issue

Spec == Init /\ [][Next]_avars
=============================================================================
