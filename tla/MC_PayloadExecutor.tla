------------------------- MODULE MC_PayloadExecutor -------------------------
(***************************************************************************)
(* Model-checking instance of PayloadExecutor: a 4-word payload memory     *)
(* (AddrBits = 2), a 2-phase DFI bus with READs on phase 1, a 2-bit        *)
(* refresh counter and a 4-word scratchpad.  The payload programs are a   *)
(* handful chosen so that every branch of the FSM is taken: long and      *)
(* short timeslices, a LOOP that jumps, a LOOP on the last word (where the *)
(* end-of-memory test is overridden), READs that overflow the scratchpad, *)
(* a REF issued by the executor itself, and a program without STOP.      *)
(***************************************************************************)
EXTENDS PayloadExecutorISA

(* A DFI instruction or NOOP word, and a LOOP word. *)
I(op, ts, a) == [op |-> op, ts |-> ts, count |-> 0, jump |-> 0, addr |-> a]
L(c, j) == [op |-> "LOOP", ts |-> 0, count |-> c, jump |-> j, addr |-> 0]
STOP == I("NOOP", 0, 0)

MCPrograms ==
  { \* S1: one ACT with a timeslice of 4, then STOP
    <<I("ACT", 4, 1), STOP, STOP, STOP>>,
    \* S3: ACT/PRE repeated by a LOOP over the preceding words
    <<I("ACT", 1, 1), I("PRE", 1, 1), L(2, 2), STOP>>,
    \* S5: READs in a loop, 6 reads overflow a 4-word scratchpad
    <<I("READ", 1, 0), I("READ", 2, 1), L(2, 2), STOP>>,
    \* REF issued by the executor, long NOOP, no STOP: end of memory
    <<I("REF", 1, 0), I("NOOP", 3, 0), I("ACT", 2, 1), I("READ", 1, 0)>>,
    \* a LOOP on the last word: the end-of-memory test waits for it
    <<I("ACT", 1, 0), I("READ", 1, 1), I("ZQC", 1, 0), L(1, 2)>> }

\* The words of a program are numbered by address 0 .. Depth - 1.
ToMem(s) == [a \in Addr |-> s[a + 1]]

MCProgramSet == {ToMem(s) : s \in MCPrograms}

\* The payloads above and a READ followed at once by STOP: the shortest
\* run whose READ is still in the PHY when the next run starts.
LateReadPrograms == MCProgramSet \cup {ToMem(<<I("READ", 1, 0), STOP, STOP, STOP>>)}
=============================================================================
