-------------------------- MODULE DataPath_proofs --------------------------
(***************************************************************************)
(* Machine-checked proofs about the data path around the executor: the    *)
(* refresh-gated handover of the DFI switch, and the scratchpad's count of *)
(* the READ data the PHY returns.                                         *)
(***************************************************************************)
EXTENDS PayloadExecutorISA_proofs, FiniteSetTheorems

(* A number below the divisor is its own remainder. *)
LEMMA ModSmall ==
  ASSUME NEW D \in Nat \ {0}, NEW x \in 0 .. D - 1
  PROVE  x % D = x
BY SMT

(* Every clock edge is one clock edge of every component (Cycle), with    *)
(* Boolean inputs.                                                        *)
LEMMA NextCycle ==
  ASSUME Next
  PROVE  \E j, e, m, u \in BOOLEAN : Cycle(j, e, m, u)
<1>. PICK mcr \in McRefresh, upd \in BOOLEAN :
       \/ Ready(mcr, upd) \/ Start(mcr, upd) \/ WaitDfi(mcr, upd)
       \/ RunTerminate(mcr, upd) \/ RunLoopJump(mcr, upd)
       \/ RunLoopExit(mcr, upd) \/ RunCommand(mcr, upd)
       \/ Idle(mcr, upd) \/ Bubble(mcr, upd)
  BY DEF Next, ExecEdge
<1>1. mcr \in BOOLEAN
  BY Zenon DEF McRefresh
<1>. QED
  BY <1>1, Zenon DEF Ready, Start, WaitDfi, RunTerminate, RunLoopJump,
                     RunLoopExit, RunCommand, Idle, Bubble
-----------------------------------------------------------------------------
(* The switch step alone makes HandoverAligned hold after it: McToPe'     *)
(* means the switch moved from MEMORY-CONTROLLER to PAYLOAD-EXECUTION in  *)
(* this step, which under gating takes a refresh with at_refresh equal to *)
(* counter + 1, and the same refresh moves the counter to counter + 1.   *)
LEMMA AlignedStep ==
  ASSUME SwitchTypeOK,
         NEW w \in BOOLEAN, NEW r \in BOOLEAN, NEW u \in BOOLEAN,
         SwitchStep(w, r, u)
  PROVE  HandoverAligned'
<1>. SUFFICES ASSUME McToPe', WithRefresh, at_refresh' # 0
              PROVE  refresh_counter' = at_refresh'
  BY DEF HandoverAligned
<1>1. switch_state = MC /\ switch_state' = PE
  BY Zenon DEF McToPe, SwitchStep, MC, PE
<1>2. HandOver(w, r)
  BY <1>1 DEF SwitchStep, HandBack, MC, PE
<1>3. r /\ at_refresh = refresh_counter + 1 /\ at_refresh' = at_refresh
  BY <1>2 DEF HandOver, RefreshMatches, SwitchStep
<1>4. refresh_counter' = (refresh_counter + 1) % RefreshModulus
  BY <1>3 DEF SwitchStep, RefreshCounterStep
<1>5. refresh_counter + 1 \in 0 .. RefreshModulus - 1
  BY <1>3, RefreshCounterAssumption DEF SwitchTypeOK, RefreshValues
<1>. QED
  BY <1>3, <1>4, <1>5, ModSmall, RefreshCounterAssumption

(* Refresh-aligned handover (HandoverAligned, checked by                  *)
(* MC_PayloadExecutor): for every counter width, program and refresh      *)
(* pattern of the controller, the first cycle after a gated handover sees *)
(* the refresh counter at at_refresh: refresh_matches' + 1 makes up for   *)
(* the counter's one-cycle lag exactly.                                   *)
THEOREM HandoverAlignment == Spec => []HandoverAligned
<1>1. Init => HandoverAligned
  BY DEF Init, SwitchInit, HandoverAligned, McToPe
<1>2. TypeOK /\ HandoverAligned /\ [Next]_vars => HandoverAligned'
  <2>. SUFFICES ASSUME TypeOK, HandoverAligned, [Next]_vars
                PROVE  HandoverAligned'
    OBVIOUS
  <2>1. CASE Next
    <3>. PICK j, e, m, u \in BOOLEAN : Cycle(j, e, m, u)
      BY <2>1, NextCycle
    <3>1. RefreshOnMaster(m) \in BOOLEAN
      BY Zenon DEF RefreshOnMaster
    <3>. QED
      BY <3>1, AlignedStep DEF Cycle, TypeOK
  <2>2. CASE UNCHANGED vars
    BY <2>2 DEF vars, switchVars, HandoverAligned, McToPe, DfiReady
  <2>. QED
    BY <2>1, <2>2
<1>. QED
  BY <1>1, <1>2, TypeCorrect, PTL DEF Spec
-----------------------------------------------------------------------------
(* The set of stages of a pipe of length L that hold a read, and a flag   *)
(* as a number.                                                           *)
Ones(f, L) == {i \in 1 .. L : f[i]}
Bit(x) == IF x THEN 1 ELSE 0

(* Shifting a pipe by one stage: what enters at the top (b) and what     *)
(* leaves at the bottom (p[1]) make up the difference of the counts.      *)
LEMMA PipeShift ==
  ASSUME NEW L \in Nat \ {0}, NEW p \in [1 .. L -> BOOLEAN], NEW b \in BOOLEAN,
         NEW q, q = [i \in 1 .. L |-> IF i < L THEN p[i + 1] ELSE b]
  PROVE  /\ IsFiniteSet(Ones(p, L)) /\ IsFiniteSet(Ones(q, L))
         /\ Cardinality(Ones(q, L)) + Bit(p[1])
              = Cardinality(Ones(p, L)) + Bit(b)
<1> DEFINE T == {i \in 2 .. L : p[i]}
           U == {i \in 1 .. L - 1 : p[i + 1]}
<1>1. IsFiniteSet(T) /\ IsFiniteSet(U)
  <2>1. IsFiniteSet(2 .. L) /\ IsFiniteSet(1 .. L - 1)
    BY FS_Interval
  <2>. QED
    BY <2>1, FS_Subset
<1>2. Cardinality(T) \in Nat /\ Cardinality(U) \in Nat
  BY <1>1, FS_CardinalityType
<1>3. Cardinality(U) = Cardinality(T)
  <2> DEFINE g == [i \in U |-> i + 1]
  <2>0. \A i \in U : i \in Int
    OBVIOUS
  <2>a. g \in [U -> T]
    BY <2>0
  <2>b. \A a, c \in U : g[a] = g[c] => a = c
    BY <2>0
  <2>c. \A t \in T : t - 1 \in U /\ g[t - 1] = t
    OBVIOUS
  <2>1. g \in Bijection(U, T)
    BY <2>a, <2>b, <2>c, Zenon DEF Bijection, Injection, Surjection, IsInjective
  <2>2. ExistsBijection(U, T)
    BY <2>1 DEF ExistsBijection
  <2>. QED
    BY <1>1, <2>2, FS_Bijection
<1>4. /\ IsFiniteSet(Ones(p, L))
      /\ Cardinality(Ones(p, L)) = Cardinality(T) + Bit(p[1])
  <2>1. CASE p[1]
    <3>1. Ones(p, L) = T \cup {1} /\ 1 \notin T
      BY <2>1 DEF Ones
    <3>2. IsFiniteSet(T \cup {1}) /\ Cardinality(T \cup {1}) = Cardinality(T) + 1
      BY Zenon, <1>1, <3>1, FS_AddElement
    <3>3. Bit(p[1]) = 1
      BY <2>1 DEF Bit
    <3>. QED
      BY <3>1, <3>2, <3>3
  <2>2. CASE ~p[1]
    <3>1. Ones(p, L) = T
      BY <2>2 DEF Ones
    <3>2. Bit(p[1]) = 0
      BY <2>2 DEF Bit
    <3>. QED
      BY <1>1, <1>2, <3>1, <3>2
  <2>. QED
    BY <2>1, <2>2
<1>q. \A i \in 1 .. L : q[i] = IF i < L THEN p[i + 1] ELSE b
  OBVIOUS
<1>5. /\ IsFiniteSet(Ones(q, L))
      /\ Cardinality(Ones(q, L)) = Cardinality(U) + Bit(b)
  <2>1. CASE b
    <3>1. Ones(q, L) = U \cup {L} /\ L \notin U
      <4>1. \A i \in 1 .. L : q[i] <=> (i < L /\ p[i + 1]) \/ i = L
        BY <1>q, <2>1
      <4>. QED
        BY <4>1 DEF Ones
    <3>2. IsFiniteSet(U \cup {L}) /\ Cardinality(U \cup {L}) = Cardinality(U) + 1
      BY Zenon, <1>1, <3>1, FS_AddElement
    <3>3. Bit(b) = 1
      BY <2>1 DEF Bit
    <3>. QED
      BY Zenon, <3>1, <3>2, <3>3
  <2>2. CASE ~b
    <3>1. Ones(q, L) = U
      <4>1. \A i \in 1 .. L : q[i] <=> (i < L /\ p[i + 1])
        BY <1>q, <2>2
      <4>. QED
        BY <4>1 DEF Ones
    <3>2. Cardinality(U) + Bit(b) = Cardinality(U)
      BY <1>2, <2>2 DEF Bit
    <3>. QED
      BY <1>1, <3>1, <3>2, Zenon
  <2>. QED
    BY <2>1, <2>2
<1>. QED
  BY <1>2, <1>3, <1>4, <1>5 DEF Bit
-----------------------------------------------------------------------------
(* The reads in flight towards the scratchpad: the PHY stages holding a   *)
(* rddata_en and the registered write enable.  A READ on the bus is not   *)
(* counted yet; reads_mod counts it on the same edge that puts it into    *)
(* the PHY.                                                               *)
InFlight == Cardinality(Ones(rd_pipe, ReadLatency)) + Bit(sp_we)

(* The scratchpad agrees with the READs issued once the reads in flight   *)
(* have landed: the cursor plus the reads in flight is the count issued,  *)
(* modulo the depth, and the count has reached the depth exactly when the *)
(* cursor has wrapped or will wrap with the reads in flight.             *)
CountInv ==
  /\ sp_counter \in 0 .. ScratchpadDepth - 1
  /\ reads_mod = (sp_counter + InFlight) % ScratchpadDepth
  /\ reads_over = (sp_overflow \/ sp_counter + InFlight >= ScratchpadDepth)

(* The state an edge in WAIT-DFI leaves behind: both counts reset. *)
CountsReset ==
  /\ sp_counter = 0 /\ ~sp_overflow /\ ~sp_we
  /\ reads_mod = 0 /\ ~reads_over

(* The inductive invariant behind ReadsCounted.  Leaving READY hands the  *)
(* bus back (wants_dfi is low there), so WAIT-DFI starts with the switch  *)
(* at the controller and lasts at least two edges, each resetting the     *)
(* scratchpad while the PHY pipe drains; a READ of the last run is at     *)
(* most in stage 2 on entry, and at most in stage 1 once the switch has   *)
(* handed over, so it lands during a reset.                               *)
ReadsInv ==
  /\ OwnInv
  /\ fsm = "WAIT-DFI" /\ ~DfiReady => \A i \in 3 .. ReadLatency : ~rd_pipe[i]
  /\ fsm = "WAIT-DFI" /\ DfiReady => \A i \in 2 .. ReadLatency : ~rd_pipe[i]
  /\ fsm # "WAIT-DFI" => CountInv
  /\ fsm = "WAIT-DFI" => CountInv \/ CountsReset

(* One more READ counted modulo D: the remainder of n + 1, and whether    *)
(* n + 1 has reached D, follow from the remainder of n and whether n has. *)
LEMMA CountArith ==
  ASSUME NEW D \in Nat \ {0}, NEW n \in Nat, NEW b \in BOOLEAN,
         NEW ov \in BOOLEAN
  PROVE  /\ (IF b THEN ((n % D) + 1) % D ELSE n % D) = (n + Bit(b)) % D
         /\ ((ov \/ n >= D) \/ (b /\ n % D = D - 1)) = (ov \/ n + Bit(b) >= D)
<1>1. CASE ~b
  <2>1. n + Bit(b) = n
    BY <1>1 DEF Bit
  <2>. QED
    BY <1>1, <2>1
<1>2. CASE b
  <2>1. n + Bit(b) = n + 1
    BY <1>2 DEF Bit
  <2>2. ((n % D) + 1) % D = (n + 1) % D
    <3>1. n \in Int /\ 1 \in Int
      OBVIOUS
    <3>. QED
      BY Zenon, <3>1, ModShift
  <2>3. (n >= D \/ n % D = D - 1) <=> n + 1 >= D
    <3>1. CASE n < D
      <4>1. n \in 0 .. D - 1
        BY <3>1
      <4>2. n % D = n
        BY Zenon, <4>1, ModSmall
      <4>. QED
        BY <3>1, <4>2
    <3>2. CASE n >= D
      BY <3>2
    <3>. QED
      BY <3>1, <3>2
  <2>. QED
    BY Zenon, <1>2, <2>1, <2>2, <2>3
<1>. QED
  BY <1>1, <1>2

(* The depth of the scratchpad fits its cursor: migen's                   *)
(* Signal(max=depth-1) can hold depth - 1 (false for depths 2^k + 1).     *)
CursorFits == ScratchpadDepth <= 2^CounterWidth

(* An edge outside WAIT-DFI keeps CountInv: the PHY pipe shifts the READ  *)
(* on the bus in and its bottom stage into the write enable, and the      *)
(* cursor advances by the write enable of this cycle.                     *)
LEMMA CountStep ==
  ASSUME CursorFits, TypeOK, CountInv, fsm # "WAIT-DFI",
         NEW j \in BOOLEAN, NEW e \in BOOLEAN, NEW m \in BOOLEAN,
         NEW u \in BOOLEAN, Cycle(j, e, m, u)
  PROVE  CountInv'
<1> DEFINE D == ScratchpadDepth
           L == ReadLatency
           P == Cardinality(Ones(rd_pipe, L))
<1>1. PICK B \in BOOLEAN : B <=> BusHasRead
  <2>1. CASE BusHasRead
    BY Zenon, <2>1
  <2>2. CASE ~BusHasRead
    BY Zenon, <2>2
  <2>. QED
    BY Zenon, <2>1, <2>2
<1>2. /\ D \in Nat \ {0} /\ 2^CounterWidth \in Nat \ {0} /\ L \in Nat \ {0}
      /\ rd_pipe \in [1 .. L -> BOOLEAN]
      /\ sp_counter \in 0 .. D - 1 /\ sp_we \in BOOLEAN /\ sp_overflow \in BOOLEAN
  BY ScratchpadAssumption, PayloadExecutorAssumption
  DEF TypeOK, ScratchpadTypeOK, CountInv
<1>3. /\ rd_pipe' = [i \in 1 .. L |-> IF i < L THEN rd_pipe[i + 1] ELSE B]
      /\ ScratchpadStep(FALSE, rd_pipe[1])
      /\ reads_mod' = IF B THEN (reads_mod + 1) % D ELSE reads_mod
      /\ reads_over' = (reads_over \/ (B /\ reads_mod = D - 1))
  BY Zenon, <1>1 DEF Cycle
<1>4. PICK w \in {0, 1}, b \in {0, 1} : w = Bit(sp_we) /\ b = Bit(B)
  <2>1. Bit(sp_we) \in {0, 1} /\ Bit(B) \in {0, 1}
    BY <1>2 DEF Bit
  <2>. QED
    BY Zenon, <2>1
<1>5. PICK p \in Nat : /\ InFlight = p + w
                      /\ InFlight' = p + b
  <2>1. /\ IsFiniteSet(Ones(rd_pipe, L))
        /\ Cardinality(Ones(rd_pipe', L)) + Bit(rd_pipe[1]) = P + Bit(B)
    <3>1. /\ L \in Nat \ {0} /\ rd_pipe \in [1 .. L -> BOOLEAN] /\ B \in BOOLEAN
          /\ rd_pipe' = [i \in 1 .. L |-> IF i < L THEN rd_pipe[i + 1] ELSE B]
      BY <1>1, <1>2, <1>3
    <3>. QED
      BY Zenon, <3>1, PipeShift
  <2>2. P \in Nat
    BY <2>1, FS_CardinalityType
  <2>3. sp_we' = rd_pipe[1]
    BY <1>3 DEF ScratchpadStep
  <2>4. /\ InFlight = P + w
        /\ InFlight' = P + b
    BY Zenon, <1>4, <2>1, <2>3 DEF InFlight
  <2>. QED
    BY Zenon, <2>2, <2>4
<1>6. PICK k \in Nat : k = sp_counter + InFlight /\ k = sp_counter + p + w
  BY <1>2, <1>5
<1>7. /\ reads_mod' = (k + b) % D
      /\ reads_over' = (sp_overflow \/ k + b >= D)
  <2>1. reads_mod = k % D /\ reads_over = (sp_overflow \/ k >= D)
    BY Zenon, <1>6 DEF CountInv
  <2>2. /\ (IF B THEN ((k % D) + 1) % D ELSE k % D) = (k + Bit(B)) % D
        /\ ((sp_overflow \/ k >= D) \/ (B /\ k % D = D - 1))
             = (sp_overflow \/ k + Bit(B) >= D)
    BY Zenon, <1>1, <1>2, CountArith
  <2>. QED
    BY Zenon, <1>3, <1>4, <2>1, <2>2
<1>8. CASE sp_we /\ sp_counter = D - 1
  <2>1. sp_counter' = 0 /\ sp_overflow' = TRUE
    BY <1>3, <1>8 DEF ScratchpadStep
  <2>2. w = 1
    BY <1>4, <1>8 DEF Bit
  <2>3. k + b = (p + b) + 1 * D /\ k + b >= D
    <3>1. D \in Nat /\ sp_counter = D - 1 /\ k = sp_counter + p + w
      BY <1>2, <1>6, <1>8
    <3>. QED
      BY <2>2, <3>1
  <2>4. reads_mod' = (0 + InFlight') % D
    <3>1. ((p + b) + 1 * D) % D = (p + b) % D
      <4>1. p + b \in Int /\ 1 \in Int
        BY <1>4, <1>5
      <4>. QED
        BY Zenon, <1>2, <4>1, ModPeriod
    <3>2. 0 + InFlight' = p + b
      BY <1>4, <1>5
    <3>. QED
      BY Zenon, <1>7, <2>3, <3>1, <3>2
  <2>5. reads_over' = (sp_overflow' \/ 0 + InFlight' >= D)
    BY Zenon, <1>7, <2>1, <2>3
  <2>6. sp_counter' \in 0 .. D - 1
    BY <1>2, <2>1
  <2>. QED
    BY Zenon, <2>1, <2>4, <2>5, <2>6 DEF CountInv
<1>9. CASE ~(sp_we /\ sp_counter = D - 1)
  <2>1. /\ sp_counter' = sp_counter + w
        /\ sp_counter' \in 0 .. D - 1
        /\ sp_overflow' = sp_overflow
    <3>1. CASE sp_we
      <4>1. sp_counter + 1 \in 0 .. D - 1 /\ sp_counter + 1 \in 0 .. 2^CounterWidth - 1
        BY <1>2, <1>9, <3>1 DEF CursorFits
      <4>2. sp_counter' = (sp_counter + 1) % 2^CounterWidth
            /\ sp_overflow' = sp_overflow
        BY <1>3, <1>9, <3>1 DEF ScratchpadStep
      <4>3. (sp_counter + 1) % 2^CounterWidth = sp_counter + 1
        BY Zenon, <1>2, <4>1, ModSmall
      <4>4. w = 1
        BY <1>4, <3>1 DEF Bit
      <4>. QED
        BY <4>1, <4>2, <4>3, <4>4
    <3>2. CASE ~sp_we
      <4>1. sp_counter' = sp_counter /\ sp_overflow' = sp_overflow
        BY <1>3, <3>2 DEF ScratchpadStep
      <4>2. w = 0
        BY <1>4, <3>2 DEF Bit
      <4>. QED
        BY <1>2, <4>1, <4>2
    <3>. QED
      BY <3>1, <3>2
  <2>2. sp_counter' + InFlight' = k + b
    BY <1>2, <1>5, <1>6, <2>1
  <2>. QED
    BY Zenon, <1>7, <2>1, <2>2 DEF CountInv
<1>. QED
  BY <1>8, <1>9

(* A pipe with no stage set holds no read. *)
LEMMA NoneOnes ==
  ASSUME NEW L \in Nat, NEW f, \A i \in 1 .. L : ~f[i]
  PROVE  Cardinality(Ones(f, L)) = 0
<1>1. Ones(f, L) = {}
  BY DEF Ones
<1>. QED
  BY <1>1, FS_EmptySet

(* An executor with an empty bus issues no READ. *)
LEMMA QuietBus ==
  ASSUME OwnInv, fsm \notin {"RUN", "IDLE"}
  PROVE  ~BusHasRead
BY DEF OwnInv, BusHasRead, NoCmd

(* ReadsInv holds after reset: nothing is counted and nothing in flight. *)
LEMMA ReadsInit == Init => ReadsInv
<1>. SUFFICES ASSUME Init PROVE ReadsInv
  OBVIOUS
<1>1. OwnInv
  BY OwnInit
<1>2. Cardinality(Ones(rd_pipe, ReadLatency)) = 0
  BY PayloadExecutorAssumption, NoneOnes DEF Init
<1>3. InFlight = 0
  BY <1>2 DEF Init, ScratchpadInit, InFlight, Bit
<1>4. CountInv
  <2>1. ScratchpadDepth \in Nat \ {0} /\ 0 \in 0 .. ScratchpadDepth - 1
    BY ScratchpadAssumption
  <2>2. 0 % ScratchpadDepth = 0
    BY Zenon, <2>1, ModSmall
  <2>3. sp_counter + InFlight = 0 /\ sp_counter = 0
    BY <1>3 DEF Init, ScratchpadInit
  <2>4. reads_mod = (sp_counter + InFlight) % ScratchpadDepth
    BY Zenon, <2>2, <2>3 DEF Init
  <2>5. reads_over = (sp_overflow \/ sp_counter + InFlight >= ScratchpadDepth)
    <3>1. ~(sp_counter + InFlight >= ScratchpadDepth)
      BY <2>1, <2>3
    <3>. QED
      BY Zenon, <3>1 DEF Init, ScratchpadInit
  <2>. QED
    BY Zenon, <2>1, <2>3, <2>4, <2>5 DEF CountInv
<1>. QED
  BY <1>1, <1>4 DEF Init, ReadsInv

(* Where ReadsInv holds, ReadsCounted does: with nothing in flight the    *)
(* cursor is the count issued and the overflow flag whether it wrapped.   *)
LEMMA ReadsSafe == ReadsInv => ReadsCounted
<1>. SUFFICES ASSUME ReadsInv, ~ReadsInFlight
              PROVE  sp_counter = reads_mod /\ sp_overflow = reads_over
  BY DEF ReadsCounted
<1>0. sp_overflow \in BOOLEAN /\ reads_over \in BOOLEAN
  BY DEF ReadsInv, OwnInv, TypeOK, ScratchpadTypeOK
<1>1. InFlight = 0
  <2>1. ~sp_we /\ \A i \in 1 .. ReadLatency : ~rd_pipe[i]
    BY DEF ReadsInFlight
  <2>2. Cardinality(Ones(rd_pipe, ReadLatency)) = 0
    BY <2>1, PayloadExecutorAssumption, NoneOnes
  <2>. QED
    BY <2>1, <2>2 DEF InFlight, Bit
<1>2. CASE CountInv
  <2>1. sp_counter \in 0 .. ScratchpadDepth - 1
    BY <1>2 DEF CountInv
  <2>2. sp_counter % ScratchpadDepth = sp_counter
    <3>1. ScratchpadDepth \in Nat \ {0}
      BY ScratchpadAssumption
    <3>. QED
      BY Zenon, <2>1, <3>1, ModSmall
  <2>3. sp_counter + InFlight = sp_counter /\ ~(sp_counter + InFlight >= ScratchpadDepth)
    BY <1>1, <2>1, ScratchpadAssumption
  <2>. QED
    BY Zenon, <1>0, <1>2, <2>2, <2>3 DEF CountInv
<1>3. CASE CountsReset
  BY Zenon, <1>0, <1>3 DEF CountsReset
<1>. QED
  BY <1>2, <1>3 DEF ReadsInv

(* ReadsInv is preserved by every clock edge when the PHY latency is at   *)
(* most 3: the edge from READY to WAIT-DFI hands the bus back and shifts  *)
(* the PHY with an empty bus, leaving no READ in stage 3 or above; each   *)
(* WAIT-DFI edge resets the counts and moves the READs down a stage;      *)
(* every other edge keeps CountInv by CountStep.                          *)
LEMMA ReadsStep ==
  ASSUME CursorFits, ReadLatency <= 3
  PROVE  ReadsInv /\ [Next]_vars => ReadsInv'
<1>. SUFFICES ASSUME ReadsInv, [Next]_vars PROVE ReadsInv'
  OBVIOUS
<1>0. OwnInv'
  BY OwnStep DEF ReadsInv
<1>1. CASE UNCHANGED vars
  BY <1>0, <1>1 DEF vars, execVars, switchVars, scratchpadVars, ReadsInv,
     CountInv, CountsReset, InFlight, DfiReady
<1>2. CASE Next
  <2>. DEFINE L == ReadLatency
  <2>. PICK mcr \in McRefresh, upd \in BOOLEAN :
           \/ Start(mcr, upd) \/ WaitDfi(mcr, upd)
           \/ Ready(mcr, upd) \/ RunTerminate(mcr, upd) \/ RunLoopJump(mcr, upd)
           \/ RunLoopExit(mcr, upd) \/ RunCommand(mcr, upd)
           \/ Idle(mcr, upd) \/ Bubble(mcr, upd)
    BY Zenon, <1>2 DEF Next, ExecEdge
  <2>0. mcr \in BOOLEAN /\ L \in Nat \ {0} /\ TypeOK
    BY Zenon, PayloadExecutorAssumption DEF McRefresh, ReadsInv, OwnInv
  <2>1. PICK j \in BOOLEAN, e \in BOOLEAN : Cycle(j, e, mcr, upd)
    BY Zenon DEF Start, WaitDfi, Ready, RunTerminate, RunLoopJump,
       RunLoopExit, RunCommand, Idle, Bubble
  <2>2. CASE Start(mcr, upd)
    <3>1. fsm = "READY" /\ fsm' = "WAIT-DFI"
      BY <2>2 DEF Start
    <3>2. CountInv'
      <4>1. CountInv
        BY <3>1 DEF ReadsInv
      <4>. QED
        BY Zenon, <2>0, <2>1, <3>1, <4>1, CountStep
    <3>3. ~DfiReady'
      <4>1. wants_dfi = FALSE /\ switch_state \in {MC, PE}
        BY Zenon, <3>1 DEF ReadsInv, OwnInv, TypeOK, SwitchTypeOK
      <4>. QED
        BY <2>1, <4>1 DEF Cycle, SwitchStep, HandOver, HandBack, DfiReady, MC, PE
    <3>4. \A i \in 3 .. L : ~rd_pipe'[i]
      <4>1. ~BusHasRead
        BY <3>1, QuietBus DEF ReadsInv
      <4>2. rd_pipe' = [i \in 1 .. L |-> IF i < L THEN rd_pipe[i + 1] ELSE BusHasRead]
        BY Zenon, <2>1 DEF Cycle
      <4>3. \A i \in 3 .. L : i = L
        BY <2>0
      <4>. QED
        BY <2>0, <4>1, <4>2, <4>3
    <3>. QED
      BY Zenon, <1>0, <3>1, <3>2, <3>3, <3>4 DEF ReadsInv
  <2>3. CASE WaitDfi(mcr, upd)
    <3>1. fsm = "WAIT-DFI"
      BY <2>3 DEF WaitDfi
    <3>2. ~BusHasRead
      BY <3>1, QuietBus DEF ReadsInv
    <3>3. /\ sp_counter' = 0 /\ sp_overflow' = FALSE /\ sp_we' = FALSE
          /\ reads_mod' = 0 /\ reads_over' = FALSE
      BY <2>1, <3>1 DEF Cycle, ScratchpadStep
    <3>4. \A i \in 1 .. L : rd_pipe'[i] <=> (i < L /\ rd_pipe[i + 1])
      <4>1. rd_pipe' = [i \in 1 .. L |-> IF i < L THEN rd_pipe[i + 1] ELSE BusHasRead]
        BY Zenon, <2>1 DEF Cycle
      <4>. QED
        BY <2>0, <3>2, <4>1
    <3>5. CASE DfiReady
      <4>1. fsm' = "BUBBLE"
        BY <2>3, <3>5 DEF WaitDfi
      <4>2. \A i \in 1 .. L : ~rd_pipe'[i]
        <5>1. \A i \in 2 .. L : ~rd_pipe[i]
          BY <3>1, <3>5 DEF ReadsInv
        <5>. QED
          BY <2>0, <3>4, <5>1
      <4>3. InFlight' = 0
        <5>1. Cardinality(Ones(rd_pipe', L)) = 0
          BY <2>0, <4>2, NoneOnes
        <5>. QED
          BY <3>3, <5>1 DEF InFlight, Bit
      <4>4. CountInv'
        <5>1. ScratchpadDepth \in Nat \ {0} /\ 0 \in 0 .. ScratchpadDepth - 1
          BY ScratchpadAssumption
        <5>2. 0 % ScratchpadDepth = 0
          BY Zenon, <5>1, ModSmall
        <5>3. sp_counter' + InFlight' = 0
          BY <3>3, <4>3
        <5>4. ~(sp_counter' + InFlight' >= ScratchpadDepth)
          BY <5>1, <5>3
        <5>. QED
          BY Zenon, <3>3, <5>1, <5>2, <5>3, <5>4 DEF CountInv
      <4>. QED
        BY Zenon, <1>0, <4>1, <4>4 DEF ReadsInv
    <3>6. CASE ~DfiReady
      <4>1. fsm' = "WAIT-DFI"
        BY <2>3, <3>1, <3>6 DEF WaitDfi
      <4>2. \A i \in 2 .. L : ~rd_pipe'[i]
        <5>1. \A i \in 3 .. L : ~rd_pipe[i]
          BY <3>1, <3>6 DEF ReadsInv
        <5>. QED
          BY <2>0, <3>4, <5>1
      <4>3. CountsReset'
        BY <3>3 DEF CountsReset
      <4>4. \A i \in 3 .. L : ~rd_pipe'[i]
        BY <4>2
      <4>. QED
        BY Zenon, <1>0, <4>1, <4>2, <4>3, <4>4 DEF ReadsInv
    <3>. QED
      BY <3>5, <3>6
  <2>4. CASE ~Start(mcr, upd) /\ ~WaitDfi(mcr, upd)
    <3>1. fsm # "WAIT-DFI" /\ fsm' # "WAIT-DFI"
      BY Zenon, <2>4 DEF Ready, RunTerminate, RunLoopJump, RunLoopExit, RunCommand,
         Idle, Bubble, CountDown
    <3>2. CountInv
      BY <3>1 DEF ReadsInv
    <3>3. CountInv'
      BY Zenon, <2>0, <2>1, <3>1, <3>2, CountStep
    <3>. QED
      BY Zenon, <1>0, <3>1, <3>3 DEF ReadsInv
  <2>. QED
    BY <2>2, <2>3, <2>4
<1>. QED
  BY <1>1, <1>2

(* Read count (the read_count and overflow CSRs of the scratchpad): once  *)
(* the reads issued have landed, the cursor is the count of READs since   *)
(* the last start modulo the depth, and overflow says whether it reached  *)
(* the depth -- for every depth the cursor can hold and every PHY latency *)
(* up to 3.  MC_PayloadExecutor checks it on a small instance; a latency  *)
(* of 4 breaks it (a READ of the last run lands after WAIT-DFI).          *)
THEOREM ReadsCountedHolds ==
  ASSUME CursorFits, ReadLatency <= 3
  PROVE  Spec => []ReadsCounted
<1>1. ReadsInv /\ [Next]_vars => ReadsInv'
  BY ReadsStep
<1>. QED
  BY <1>1, ReadsInit, ReadsSafe, PTL DEF Spec

(* Hand-back (HandBackAtEnd): the switch returns the bus to the           *)
(* controller only on an edge taken in READY, since it waits for          *)
(* wants_dfi to drop and wants_dfi is high in every other state (OwnInv); *)
(* READY sends nothing, so no command is registered for the cycle the     *)
(* controller owns the bus again.                                         *)
THEOREM HandBackOnlyAtEnd == Spec => HandBackAtEnd
<1> DEFINE Back == switch_state = PE /\ switch_state' = MC =>
                     /\ fsm = "READY"
                     /\ \A i \in Phases : bus'[i] = NoCmd
<1>1. OwnInv /\ [Next]_vars => [Back]_vars
  <2>. SUFFICES ASSUME OwnInv, [Next]_vars,
                       switch_state = PE, switch_state' = MC
                PROVE  fsm = "READY" /\ \A i \in Phases : bus'[i] = NoCmd
    OBVIOUS
  <2>1. CASE UNCHANGED vars
    BY <2>1 DEF vars, switchVars, MC, PE
  <2>2. CASE Next
    <3>. PICK mcr \in McRefresh, upd \in BOOLEAN :
             \/ Start(mcr, upd) \/ Ready(mcr, upd) \/ WaitDfi(mcr, upd)
             \/ RunTerminate(mcr, upd) \/ RunLoopJump(mcr, upd)
             \/ RunLoopExit(mcr, upd) \/ RunCommand(mcr, upd)
             \/ Idle(mcr, upd) \/ Bubble(mcr, upd)
      BY Zenon, <2>2 DEF Next, ExecEdge
    <3>1. PICK j \in BOOLEAN, e \in BOOLEAN : Cycle(j, e, mcr, upd)
      BY Zenon DEF Start, WaitDfi, Ready, RunTerminate, RunLoopJump,
         RunLoopExit, RunCommand, Idle, Bubble
    <3>2. ~wants_dfi
      BY <3>1 DEF Cycle, SwitchStep, HandOver, HandBack, MC, PE
    <3>3. fsm = "READY"
      BY Zenon, <3>2 DEF OwnInv, TypeOK
    <3>4. Start(mcr, upd) \/ Ready(mcr, upd)
      BY <3>3 DEF WaitDfi, RunTerminate, RunLoopJump, RunLoopExit,
         RunCommand, Idle, Bubble
    <3>5. mcr \in BOOLEAN
      BY Zenon DEF McRefresh
    <3>. QED
      BY Zenon, <3>3, <3>4, <3>5, NoExecNoCmd DEF Start, Ready
  <2>. QED
    BY <2>1, <2>2
<1>. QED
  BY <1>1, OwnInit, OwnStep, PTL DEF Spec, HandBackAtEnd
=============================================================================
