--------------------- MODULE PayloadExecutorISA_proofs ---------------------
(***************************************************************************)
(* Machine-checked proof that the payload executor implements PayloadISA  *)
(* under the refinement mapping of PayloadExecutorISA, and that the fetch *)
(* pipeline is coherent, for every value of the constants allowed by the *)
(* assumptions.                                                           *)
(***************************************************************************)
EXTENDS PayloadExecutorISA, PayloadExecutor_proofs, Integers

(* Where the two-stage fetch pipeline stands in each FSM state: in RUN and *)
(* IDLE the instruction register holds the word two behind the program   *)
(* counter and the read port the word one behind; IDLE (stalled) keeps    *)
(* program_counter_old one behind; BUBBLE counts down from               *)
(* PIPELINE_DELAY - 1 and on its last cycle the read port holds the word  *)
(* that RUN decodes next; WAIT-DFI holds the counter at 0 (READY reset it). *)
PipelineInv ==
  /\ fsm \in {"RUN", "IDLE"} =>
       /\ instruction = mem[(program_counter - PipelineDelay) % Depth]
       /\ dat = mem[(program_counter - 1) % Depth]
  /\ fsm = "IDLE" => program_counter_old = (program_counter - 1) % Depth
  /\ fsm = "BUBBLE" =>
       /\ idle_counter \in 0 .. PipelineDelay - 1
       /\ idle_counter = 0 => dat = mem[(program_counter - 1) % Depth]
  /\ fsm = "WAIT-DFI" => program_counter = 0

RefInv == OwnInv /\ PipelineInv

(* The remainder by a positive divisor, through the quotient. *)
LEMMA ModDiv == ASSUME NEW D \in Nat \ {0}, NEW x \in Int
  PROVE /\ x % D = x - (x \div D) * D
        /\ x % D \in 0 .. D - 1
        /\ x \div D \in Int
BY SMT
(* Two remainders that differ by a multiple of D are equal. *)
LEMMA ModUnique == ASSUME NEW D \in Nat \ {0}, NEW r \in 0 .. D - 1, NEW s \in 0 .. D - 1,
   NEW n \in Int, r - s = n * D PROVE r = s
<1>1. CASE n >= 1
  <2>1. n * D >= D BY <1>1, SMT
  <2>. QED BY <2>1, SMT
<1>2. CASE n <= -1
  <2>1. n * D <= -D BY <1>2, SMT
  <2>. QED BY <2>1, SMT
<1>3. CASE n = 0 BY <1>3, SMT
<1>. QED BY <1>1, <1>2, <1>3, SMT
(* Numbers that differ by a multiple of D have the same remainder. *)
LEMMA ModEqual == ASSUME NEW D \in Nat \ {0}, NEW x \in Int, NEW y \in Int,
   NEW qx \in Int, NEW qy \in Int, NEW k \in Int,
   NEW r \in 0 .. D - 1, NEW s \in 0 .. D - 1,
   y = x + k * D, r = x - qx * D, s = y - qy * D
  PROVE r = s
<1>1. r - s = (qy - qx - k) * D BY SMT
<1>2. qy - qx - k \in Int BY SMT
<1>. QED BY <1>1, <1>2, ModUnique
(* The remainder is periodic in D. *)
LEMMA ModPeriod == ASSUME NEW D \in Nat \ {0}, NEW x \in Int, NEW k \in Int
  PROVE (x + k * D) % D = x % D
<1>1. x + k * D \in Int BY SMT
<1>2. PICK r \in 0 .. D - 1, qx \in Int : r = x % D /\ r = x - qx * D
  BY Zenon, ModDiv
<1>3. PICK s \in 0 .. D - 1, qy \in Int : s = (x + k * D) % D /\ s = (x + k * D) - qy * D
  BY Zenon, <1>1, ModDiv
<1>4. r = x - qx * D /\ s = (x + k * D) - qy * D
  BY <1>2, <1>3
<1>5. r = s
  BY <1>4, ModEqual
<1>. QED BY <1>2, <1>3, <1>5
(* Truncation to the address width commutes with adding an offset. *)
LEMMA ModShift ==
  ASSUME NEW D \in Nat \ {0}, NEW a \in Int, NEW b \in Int
  PROVE  ((a % D) + b) % D = (a + b) % D
<1>1. PICK q \in Int : a % D = a - q * D BY Zenon, ModDiv
<1>2. (a % D) + b = (a + b) + (-q) * D BY <1>1, SMT
<1>3. a + b \in Int /\ -q \in Int BY SMT
<1>. QED BY Zenon, <1>2, <1>3, ModPeriod
(* The program-counter arithmetic of the fetch pipeline on an address of *)
(* a memory of at least two words: stepping, the two-word lag, and the    *)
(* end-of-memory test mem_addr = PIPELINE_DELAY - 1.                      *)
LEMMA PcArith ==
  ASSUME NEW D \in Nat \ {0, 1}, NEW pc \in 0 .. D - 1
  PROVE  /\ (((pc + 1) % D) - 1) % D = pc
         /\ (((pc + 1) % D) - 2) % D = (pc - 1) % D
         /\ ((pc - 2) % D = D - 1) <=> (pc = 1)
         /\ pc # 1 => (pc - 1) % D = ((pc - 2) % D) + 1
         /\ (pc - 2) % D \in 0 .. D - 1
<1>1. CASE pc = D - 1
  BY <1>1, SMT
<1>2. CASE pc \in 2 .. D - 2
  BY <1>2, SMT
<1>3. CASE pc \in {0, 1} /\ pc # D - 1
  BY <1>3, SMT
<1>. QED BY <1>1, <1>2, <1>3
(* The fetch side of a clock edge: unstalled in RUN and BUBBLE, stalled    *)
(* (holding the counter and the instruction, reading at the old counter)  *)
(* in IDLE and WAIT-DFI, reset in READY.                                 *)
LEMMA CycleFetch ==
  ASSUME NEW jump \in BOOLEAN, NEW exec \in BOOLEAN,
         NEW mcr \in BOOLEAN, NEW upd \in BOOLEAN,
         Cycle(jump, exec, mcr, upd)
  PROVE  /\ mem' = mem
         /\ bus' = Emit(exec)
         /\ fsm \in {"RUN", "BUBBLE"} =>
              /\ program_counter' = NextAddr(jump, instruction.jump)
              /\ program_counter_old' = program_counter
              /\ dat' = mem[program_counter]
              /\ instruction' = dat
         /\ fsm \in {"IDLE", "WAIT-DFI"} =>
              /\ program_counter' = program_counter
              /\ program_counter_old' = program_counter_old
              /\ dat' = mem[program_counter_old]
              /\ instruction' = instruction
         /\ fsm = "READY" => program_counter' = 0
<1>1. /\ FetcherStep(Stall, jump, instruction.jump, fsm = "READY")
      /\ dat' = mem[MemAddr(Stall)]
      /\ instruction' = IF Stall THEN instruction ELSE dat
      /\ bus' = Emit(exec)
      /\ mem' = mem
  BY DEF Cycle
<1>. QED
  BY <1>1 DEF FetcherStep, fetcherVars, Stall, MemAddr
(* PipelineInv is preserved by every clock edge: the unstalled states     *)
(* advance the counter and shift the pipeline by one word, the stalled   *)
(* ones freeze it and re-read the word at program_counter_old.            *)
LEMMA PipelineStep == RefInv /\ [Next]_vars => PipelineInv'
<1>. SUFFICES ASSUME RefInv, [Next]_vars PROVE PipelineInv'
  OBVIOUS
<1>. DEFINE pc == program_counter
<1>0. /\ TypeOK /\ PipelineInv
      /\ Depth \in Nat \ {0, 1} /\ PipelineDelay = 2
      /\ pc \in 0 .. Depth - 1
  BY FetcherAssumption, PayloadExecutorAssumption
  DEF RefInv, OwnInv, TypeOK, FetcherTypeOK, Addr
<1>1. CASE UNCHANGED vars
  BY <1>0, <1>1 DEF vars, execVars, fetcherVars, PipelineInv
<1>2. CASE Next
  <2>. PICK mcr \in McRefresh, upd \in BOOLEAN :
           \/ Ready(mcr, upd) \/ Start(mcr, upd) \/ WaitDfi(mcr, upd)
           \/ RunTerminate(mcr, upd) \/ RunLoopJump(mcr, upd)
           \/ RunLoopExit(mcr, upd) \/ RunCommand(mcr, upd)
           \/ Idle(mcr, upd) \/ Bubble(mcr, upd)
    BY <1>2 DEF Next, ExecEdge
  <2>0. mcr \in BOOLEAN
    BY Zenon DEF McRefresh
  <2>. USE <2>0
  (* One word forward from RUN or BUBBLE: the new counter, and the words *)
  (* one and two behind it.                                              *)
  <2>a. /\ (((pc + 1) % Depth) - 1) % Depth = pc
        /\ (((pc + 1) % Depth) - 2) % Depth = (pc - 1) % Depth
    BY Zenon, <1>0, PcArith
  <2>1. CASE Ready(mcr, upd)
    BY <2>1 DEF Ready, PipelineInv
  <2>2. CASE Start(mcr, upd)
    BY Zenon, <2>2, CycleFetch DEF Start, PipelineInv
  <2>3. CASE WaitDfi(mcr, upd)
    <3>1. pc' = pc /\ fsm = "WAIT-DFI"
      BY Zenon, <2>3, CycleFetch DEF WaitDfi
    <3>2. \/ fsm' = "BUBBLE" /\ idle_counter' = PipelineDelay - 1
          \/ fsm' = "WAIT-DFI"
      BY <2>3 DEF WaitDfi
    <3>. QED
      BY <3>1, <3>2, <1>0 DEF PipelineInv
  <2>4. CASE RunTerminate(mcr, upd)
    BY <2>4 DEF RunTerminate, PipelineInv
  <2>5. CASE RunLoopJump(mcr, upd)
    BY <2>5, <1>0 DEF RunLoopJump, PipelineInv
  <2>6. CASE RunLoopExit(mcr, upd)
    <3>1. /\ pc' = (pc + 1) % Depth /\ dat' = mem[pc] /\ instruction' = dat
          /\ mem' = mem /\ fsm' = "RUN" /\ fsm = "RUN"
      BY Zenon, <2>6, CycleFetch DEF RunLoopExit, NextAddr
    <3>. QED
      BY <3>1, <2>a, <1>0 DEF PipelineInv
  <2>7. CASE RunCommand(mcr, upd)
    <3>1. /\ pc' = (pc + 1) % Depth /\ dat' = mem[pc] /\ instruction' = dat
          /\ program_counter_old' = pc
          /\ mem' = mem /\ fsm' \in {"RUN", "IDLE"} /\ fsm = "RUN"
      BY Zenon, <2>7, CycleFetch DEF RunCommand, NextAddr
    <3>. QED
      BY <3>1, <2>a, <1>0 DEF PipelineInv
  <2>8. CASE Idle(mcr, upd)
    <3>1. /\ pc' = pc /\ program_counter_old' = program_counter_old
          /\ dat' = mem[program_counter_old] /\ instruction' = instruction
          /\ mem' = mem /\ fsm' \in {"RUN", "IDLE"} /\ fsm = "IDLE"
      BY Zenon, <2>8, CycleFetch DEF Idle, CountDown
    <3>. QED
      BY <3>1, <1>0 DEF PipelineInv
  <2>9. CASE Bubble(mcr, upd)
    <3>1. /\ pc' = (pc + 1) % Depth /\ dat' = mem[pc] /\ instruction' = dat
          /\ mem' = mem /\ fsm = "BUBBLE"
      BY Zenon, <2>9, CycleFetch DEF Bubble, NextAddr
    <3>2. CASE idle_counter = 0
      <4>1. fsm' = "RUN"
        BY <2>9, <3>2 DEF Bubble, CountDown
      <4>. QED
        BY <3>1, <3>2, <4>1, <2>a, <1>0 DEF PipelineInv
    <3>3. CASE idle_counter # 0
      <4>1. fsm' = "BUBBLE" /\ idle_counter' = idle_counter - 1
        BY <2>9, <3>3 DEF Bubble, CountDown
      <4>. QED
        BY <3>1, <3>3, <4>1, <2>a, <1>0 DEF PipelineInv
    <3>. QED
      BY <3>2, <3>3
  <2>. QED
    BY <2>1, <2>2, <2>3, <2>4, <2>5, <2>6, <2>7, <2>8, <2>9
<1>. QED
  BY <1>1, <1>2
(* RefInv holds initially: READY, with the bus idle. *)
LEMMA RefInit == Init => RefInv
BY OwnInit DEF Init, RefInv, PipelineInv

(* RefInv is inductive. *)
LEMMA RefStep == RefInv /\ [Next]_vars => RefInv'
BY OwnStep, PipelineStep DEF RefInv

(* Fetch coherence (Fetcher stall/old-pc logic, next_addr, the read port  *)
(* and the instruction register): in RUN and IDLE the decoded instruction *)
(* is the word PIPELINE_DELAY behind the program counter (FetchCoherent,  *)
(* checked by MC_PayloadExecutor), for every memory depth and program.    *)
THEOREM FetchCoherence == Spec => []FetchCoherent
<1>1. RefInv => FetchCoherent
  BY DEF RefInv, PipelineInv, FetchCoherent
<1>. QED
  BY <1>1, RefInit, RefStep, PTL DEF Spec
(* In RUN the abstract instruction is the decoded one, and the abstract    *)
(* end test is the RUN branch's terminate condition: mem_addr =            *)
(* PIPELINE_DELAY - 1 is the last address, STOP is STOP, and a pending     *)
(* LOOP overrides both.                                                    *)
LEMMA RunDecode ==
  ASSUME RefInv, fsm = "RUN"
  PROVE  /\ AbsPc = (program_counter - 2) % Depth
         /\ AbsPc \in 0 .. Depth - 1
         /\ ISA!Word = instruction
         /\ ISA!LoopLeft = LoopPending
         /\ ISA!Ends <=> Terminate
<1>0. /\ Depth \in Nat \ {0, 1} /\ PipelineDelay = 2
      /\ program_counter \in 0 .. Depth - 1
      /\ instruction = mem[(program_counter - PipelineDelay) % Depth]
  BY FetcherAssumption, PayloadExecutorAssumption
  DEF RefInv, OwnInv, TypeOK, FetcherTypeOK, Addr, PipelineInv
<1>1. AbsPc = (program_counter - 2) % Depth
  BY <1>0 DEF AbsPc
<1>2. /\ AbsPc \in 0 .. Depth - 1
      /\ (AbsPc = Depth - 1) = (program_counter = 1)
  BY Zenon, <1>0, <1>1, PcArith
<1>3. ISA!Word = instruction
  BY <1>0, <1>1 DEF ISA!Word
<1>4. ISA!LoopLeft = LoopPending
  BY <1>3 DEF ISA!LoopLeft, LoopPending
<1>5. ISA!Ends <=> Terminate
  <2>1. ~(AbsPc >= Depth)
    BY <1>0, <1>2
  <2>2. (MemAddr(FALSE) = PipelineDelay - 1) <=> (AbsPc = Depth - 1)
    BY <1>0, <1>2 DEF MemAddr
  <2>3. ISA!IsStop <=> Stop
    BY <1>3 DEF ISA!IsStop, Stop
  <2>4. (~ISA!LoopLeft) <=> (instruction.op # "LOOP" \/ instruction.count = loop_counter)
    BY Zenon, <1>4 DEF LoopPending
  <2>. QED
    BY <2>1, <2>2, <2>3, <2>4, Zenon DEF ISA!Ends, Terminate
<1>. QED
  BY <1>1, <1>2, <1>3, <1>4, <1>5
(* The command DFIExecutor registers in an exec cycle, read back from the *)
(* phase outputs: the decoded op code and address on the read phase or    *)
(* phase 0, and nothing for a NOOP.                                       *)
LEMMA IssuedCommand ==
  ASSUME TypeOK, bus' = Emit(TRUE)
  PROVE  Issued' = IF instruction.op = "NOOP" THEN NoCmd
                   ELSE [op |-> instruction.op, addr |-> instruction.addr]
<1>. DEFINE ph == IF IsRead THEN RdPhase ELSE 0
            cmd == [op |-> instruction.op, addr |-> instruction.addr]
<1>1. ph \in Phases
  BY PayloadExecutorAssumption DEF Phases
<1>2. CASE instruction.op = "NOOP"
  <2>1. \A i \in Phases : bus'[i] = NoCmd
    BY <1>2 DEF Emit
  <2>. QED
    BY Zenon, <1>2, <2>1 DEF Issued
<1>3. CASE instruction.op # "NOOP"
  <2>1. instruction.op \in Ops
    BY WordFields DEF TypeOK
  <2>2. cmd # NoCmd
    BY <2>1 DEF Ops, NoCmd
  <2>3. bus'[ph] = cmd /\ \A i \in Phases : i # ph => bus'[i] = NoCmd
    BY <1>1, <1>3 DEF Emit
  <2>4. (CHOOSE i \in Phases : bus'[i] # NoCmd) = ph
    BY Zenon, <1>1, <2>2, <2>3
  <2>. QED
    BY Zenon, <1>1, <1>3, <2>2, <2>3, <2>4 DEF Issued
<1>. QED
  BY <1>2, <1>3
(* Every clock edge maps to a step of the instruction set or leaves the    *)
(* mapped state alone: READY and a WAIT-DFI without dfi_ready stutter,    *)
(* start requests, the handshake grants, IDLE and BUBBLE wait, and the     *)
(* four RUN branches finish, repeat a loop, leave it, or issue.            *)
LEMMA MapStep == RefInv /\ [Next]_vars => [ISA!Next]_ISA!avars
<1>. SUFFICES ASSUME RefInv, [Next]_vars PROVE [ISA!Next]_ISA!avars
  OBVIOUS
<1>. DEFINE pc == program_counter
<1>0. /\ TypeOK /\ PipelineInv
      /\ Depth \in Nat \ {0, 1} /\ PipelineDelay = 2
      /\ pc \in 0 .. Depth - 1 /\ idle_counter \in Nat
      /\ instruction \in Words
  BY FetcherAssumption, PayloadExecutorAssumption
  DEF RefInv, OwnInv, TypeOK, FetcherTypeOK, Addr
<1>1. fsm \notin {"RUN", "IDLE"} => Issued = NoCmd
  BY DEF RefInv, OwnInv, Issued
<1>2. CASE UNCHANGED vars
  BY <1>2 DEF vars, execVars, fetcherVars, ISA!avars, AbsPhase, AbsPc, AbsWait,
            Issued
<1>3. CASE Next
  <2>. PICK mcr \in McRefresh, upd \in BOOLEAN :
           \/ Ready(mcr, upd) \/ Start(mcr, upd) \/ WaitDfi(mcr, upd)
           \/ RunTerminate(mcr, upd) \/ RunLoopJump(mcr, upd)
           \/ RunLoopExit(mcr, upd) \/ RunCommand(mcr, upd)
           \/ Idle(mcr, upd) \/ Bubble(mcr, upd)
    BY <1>3 DEF Next, ExecEdge
  <2>0. mcr \in BOOLEAN
    BY Zenon DEF McRefresh
  <2>. USE <2>0
  <2>n. ASSUME NEW j \in BOOLEAN, Cycle(j, FALSE, mcr, upd)
        PROVE  Issued' = NoCmd /\ mem' = mem
    <3>1. mem' = mem
      BY Zenon, <2>n, CycleFetch
    <3>2. \A i \in Phases : bus'[i] = NoCmd
      BY Zenon, <2>n, NoExecNoCmd
    <3>. QED
      BY <3>1, <3>2 DEF Issued
  <2>1. CASE Ready(mcr, upd)
    <3>1. Issued' = NoCmd /\ mem' = mem /\ fsm = "READY" /\ fsm' = "READY"
          /\ UNCHANGED loop_counter
      BY Zenon, <2>1, <2>n DEF Ready
    <3>. QED
      BY <3>1, <1>1 DEF ISA!avars, AbsPhase, AbsPc, AbsWait
  <2>2. CASE Start(mcr, upd)
    <3>1. Issued' = NoCmd /\ mem' = mem /\ fsm = "READY" /\ fsm' = "WAIT-DFI"
          /\ UNCHANGED loop_counter
      BY Zenon, <2>2, <2>n DEF Start
    <3>2. ISA!Request
      BY <3>1 DEF ISA!Request, AbsPhase, AbsPc, AbsWait, ISA!NoCommand, NoCmd
    <3>. QED
      BY <3>2 DEF ISA!Next
  <2>3. CASE WaitDfi(mcr, upd)
    <3>1. Issued' = NoCmd /\ mem' = mem /\ fsm = "WAIT-DFI"
          /\ UNCHANGED loop_counter /\ pc = 0 /\ pc' = pc
      BY Zenon, <2>3, <2>n, <1>0, CycleFetch DEF WaitDfi, PipelineInv
    <3>2. CASE fsm' = "BUBBLE" /\ idle_counter' = PipelineDelay - 1
      <4>1. ISA!Grant
        BY <3>1, <3>2, <1>0
        DEF ISA!Grant, AbsPhase, AbsPc, AbsWait, ISA!NoCommand, NoCmd
      <4>. QED
        BY <4>1 DEF ISA!Next
    <3>3. CASE UNCHANGED <<fsm, idle_counter>>
      BY <3>1, <3>3, <1>1 DEF ISA!avars, AbsPhase, AbsPc, AbsWait
    <3>. QED
      BY <2>3, <3>2, <3>3 DEF WaitDfi
  <2>4. CASE RunTerminate(mcr, upd)
    <3>1. Issued' = NoCmd /\ mem' = mem /\ fsm = "RUN" /\ fsm' = "READY"
          /\ UNCHANGED loop_counter /\ Terminate
      BY Zenon, <2>4, <2>n DEF RunTerminate
    <3>2. ISA!Ends
      BY <3>1, RunDecode
    <3>3. ISA!Finish
      BY <3>1, <3>2
      DEF ISA!Finish, AbsPhase, AbsPc, AbsWait, ISA!NoCommand, NoCmd
    <3>. QED
      BY <3>3 DEF ISA!Next
  <2>5. CASE RunLoopJump(mcr, upd)
    <3>1. /\ Issued' = NoCmd /\ mem' = mem /\ fsm = "RUN" /\ fsm' = "BUBBLE"
          /\ ~Terminate /\ LoopPending
          /\ loop_counter' = (loop_counter + 1) % 2^LoopCounterWidth
          /\ idle_counter' = PipelineDelay - 1
          /\ pc' = (pc - instruction.jump - PipelineDelay) % Depth
      BY Zenon, <2>5, <2>n, CycleFetch DEF RunLoopJump, NextAddr
    <3>2. /\ ~ISA!Ends /\ ISA!LoopLeft /\ ISA!Word = instruction
          /\ AbsPc = (pc - 2) % Depth
      BY <3>1, RunDecode
    <3>3. instruction.jump \in Nat
      BY <1>0, WordFields
    <3>4. AbsPc' = (AbsPc - ISA!Word.jump - 0) % Depth
      <4>0. /\ Depth \in Nat \ {0}
            /\ pc - instruction.jump - 2 \in Int /\ 0 \in Int
            /\ pc - 2 \in Int /\ -instruction.jump \in Int
        BY <1>0, <3>3
      <4>1. AbsPc' = (((pc - instruction.jump - 2) % Depth) + 0) % Depth
        BY <3>1, <1>0 DEF AbsPc
      <4>2. (((pc - instruction.jump - 2) % Depth) + 0) % Depth
              = (pc - instruction.jump - 2) % Depth
        <5>1. (((pc - instruction.jump - 2) % Depth) + 0) % Depth
                = ((pc - instruction.jump - 2) + 0) % Depth
          BY <4>0, ModShift, Zenon
        <5>2. (pc - instruction.jump - 2) + 0 = pc - instruction.jump - 2
          BY <4>0
        <5>. QED
          BY <5>1, <5>2
      <4>3. (((pc - 2) % Depth) + (-instruction.jump)) % Depth
              = (pc - 2 + (-instruction.jump)) % Depth
        BY <4>0, ModShift, Zenon
      <4>4. (pc - 2) % Depth \in Int
        BY <4>0, ModDiv
      <4>5. AbsPc - ISA!Word.jump - 0
              = ((pc - 2) % Depth) + (-instruction.jump)
        <5>1. \A r \in Int : r - instruction.jump - 0 = r + (-instruction.jump)
          BY <3>3
        <5>. QED
          BY <3>2, <4>4, <5>1
      <4>6. pc - 2 + (-instruction.jump) = pc - instruction.jump - 2
        BY <1>0, <3>3
      <4>. QED
        BY <4>1, <4>2, <4>3, <4>5, <4>6, Zenon
    <3>5. ISA!Repeat
      BY <3>1, <3>2, <3>4, <1>0
      DEF ISA!Repeat, AbsPhase, AbsWait, ISA!NoCommand, NoCmd
    <3>. QED
      BY <3>5 DEF ISA!Next
  <2>6. CASE RunLoopExit(mcr, upd)
    <3>1. /\ Issued' = NoCmd /\ mem' = mem /\ fsm = "RUN" /\ fsm' = "RUN"
          /\ ~Terminate /\ instruction.op = "LOOP" /\ ~LoopPending
          /\ loop_counter' = 0 /\ pc' = (pc + 1) % Depth
      BY Zenon, <2>6, <2>n, CycleFetch DEF RunLoopExit, NextAddr
    <3>2. /\ ~ISA!Ends /\ ~ISA!LoopLeft /\ ISA!Word = instruction
          /\ AbsPc = (pc - 2) % Depth
      BY <3>1, RunDecode
    <3>3. pc # 1
      BY <3>1, <1>0 DEF Terminate, LoopPending, MemAddr
    <3>4. AbsPc' = AbsPc + 1
      BY <3>1, <3>2, <3>3, <1>0, PcArith DEF AbsPc
    <3>5. ISA!LeaveLoop
      BY <3>1, <3>2, <3>4
      DEF ISA!LeaveLoop, AbsPhase, AbsWait, ISA!NoCommand, NoCmd
    <3>. QED
      BY <3>5 DEF ISA!Next
  <2>7. CASE RunCommand(mcr, upd)
    <3>1. /\ bus' = Emit(TRUE) /\ mem' = mem /\ fsm = "RUN"
          /\ ~Terminate /\ instruction.op # "LOOP"
          /\ UNCHANGED loop_counter /\ pc' = (pc + 1) % Depth
      BY Zenon, <2>7, CycleFetch DEF RunCommand, NextAddr
    <3>2. /\ ~ISA!Ends /\ ISA!Word = instruction
          /\ AbsPc = (pc - 2) % Depth
      BY <3>1, RunDecode
    <3>3. pc # 1
      BY <3>1, <1>0 DEF Terminate, MemAddr
    <3>4. AbsPc' = AbsPc + 1 /\ AbsPhase' = "RUN"
      BY <2>7, <3>1, <3>2, <3>3, <1>0, PcArith DEF AbsPc, AbsPhase, RunCommand
    <3>5. instruction.ts \in Nat
      BY <1>0, WordFields
    <3>6. AbsWait' = IF instruction.ts <= 1 THEN 0 ELSE instruction.ts - 1
      BY <2>7, <3>5 DEF RunCommand, AbsWait
    <3>7. Issued' = IF instruction.op = "NOOP" THEN ISA!NoCommand
                    ELSE [op |-> instruction.op, addr |-> instruction.addr]
      BY <3>1, <1>0, IssuedCommand DEF ISA!NoCommand, NoCmd
    <3>8. ISA!Issue
      BY <3>1, <3>2, <3>4, <3>6, <3>7 DEF ISA!Issue, AbsPhase, AbsWait
    <3>. QED
      BY <3>8 DEF ISA!Next
  <2>8. CASE Idle(mcr, upd)
    <3>1. /\ Issued' = NoCmd /\ mem' = mem /\ fsm = "IDLE"
          /\ UNCHANGED loop_counter /\ pc' = pc
      BY Zenon, <2>8, <2>n, CycleFetch DEF Idle
    <3>2. \/ idle_counter = 0 /\ fsm' = "RUN" /\ UNCHANGED idle_counter
          \/ idle_counter # 0 /\ idle_counter' = idle_counter - 1
             /\ fsm' = "IDLE"
      BY <2>8 DEF Idle, CountDown
    <3>3. ISA!Wait
      BY <3>1, <3>2, <1>0
      DEF ISA!Wait, AbsPhase, AbsPc, AbsWait, ISA!NoCommand, NoCmd
    <3>. QED
      BY <3>3 DEF ISA!Next
  <2>9. CASE Bubble(mcr, upd)
    <3>1. /\ Issued' = NoCmd /\ mem' = mem /\ fsm = "BUBBLE"
          /\ UNCHANGED loop_counter /\ pc' = (pc + 1) % Depth
      BY Zenon, <2>9, <2>n, CycleFetch DEF Bubble, NextAddr
    <3>b. idle_counter \in 0 .. 1
      BY <3>1, <1>0 DEF PipelineInv
    <3>a. /\ (((pc + 1) % Depth) - 1) % Depth = pc
          /\ (((pc + 1) % Depth) - 2) % Depth = (pc - 1) % Depth
          /\ (pc + 1 - 1) % Depth = pc
      <4>1. (pc + 1 - 1) % Depth = pc
        BY <1>0
      <4>. QED
        BY Zenon, <1>0, <4>1, PcArith
    <3>2. CASE idle_counter = 0
      <4>1. fsm' = "RUN" /\ idle_counter' = 0
        BY <2>9, <3>2 DEF Bubble, CountDown
      <4>2. ISA!Wait
        BY <3>1, <3>2, <3>a, <4>1, <1>0
        DEF ISA!Wait, AbsPhase, AbsPc, AbsWait, ISA!NoCommand, NoCmd
      <4>. QED
        BY <4>2 DEF ISA!Next
    <3>3. CASE idle_counter = 1
      <4>1. fsm' = "BUBBLE" /\ idle_counter' = 0
        BY <2>9, <3>3 DEF Bubble, CountDown
      <4>2. ISA!Wait
        BY <3>1, <3>3, <3>a, <4>1, <1>0
        DEF ISA!Wait, AbsPhase, AbsPc, AbsWait, ISA!NoCommand, NoCmd
      <4>. QED
        BY <4>2 DEF ISA!Next
    <3>. QED
      BY <3>b, <3>2, <3>3
  <2>. QED
    BY <2>1, <2>2, <2>3, <2>4, <2>5, <2>6, <2>7, <2>8, <2>9
<1>. QED
  BY <1>2, <1>3

(* Refinement (the executor against PayloadISA, ImplementsISA, checked by  *)
(* MC_Refinement): for every memory depth, bus width, latency, counter     *)
(* width and set of programs, every behaviour of the executor is a         *)
(* behaviour of the instruction-set specification under the mapping.       *)
THEOREM ExecutorImplementsISA == Spec => ImplementsISA
<1>1. Init => ISA!Init
  <2>. SUFFICES ASSUME Init PROVE ISA!Init
    OBVIOUS
  <2>1. Issued = NoCmd
    BY DEF Init, Issued
  <2>. QED
    BY <2>1 DEF Init, ISA!Init, AbsPhase, AbsPc, AbsWait, ISA!NoCommand, NoCmd
<1>. QED
  BY <1>1, RefInit, RefStep, MapStep, PTL DEF Spec, ImplementsISA, ISA!Spec
=============================================================================
