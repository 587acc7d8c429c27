# TLA+ verification of the payload executor

This directory holds a TLA+ model of the rowhammer-tester payload executor
(`src/rowhammer_tester/gateware/payload_executor.py`). The executor is a
micro-sequencer that takes the DRAM command bus over from the LiteDRAM memory
controller, replays a program of DRAM commands with exact cycle timing, and
captures READ data in a scratchpad. The directory also holds TLC
configurations that model-check the model, and TLAPS proofs about it.

## 1. The system

The design is synchronous migen hardware, so one clock edge updates every
register at once. The model follows that: **one TLA+ step is one clock
edge**. Each action is one state of the executor FSM, or one branch of its
RUN state, conjoined with what every other component does in that cycle
(`Cycle`).

| Part | Code | What it does |
|------|------|--------------|
| A. Decoder / Encoder | `OpCode`, `Decoder` (23-141), `Encoder` (144-265) | 32-bit instruction format. The op code bits are `ras,cas,we`. STOP is a NOOP with timeslice 0. A LOOP has count and jump fields. |
| B. Scratchpad | `Scratchpad` (269-299) | A write cursor that advances on each registered `rddata_valid`, wraps at `depth-1` and sets a sticky overflow. It is reset by the executor in WAIT-DFI. |
| C. Fetcher | `Fetcher` (378-416) | `program_counter` and `program_counter_old`. While stalled, `mem_addr` is the old counter. `next_addr` is `pc+1` or `pc-jump-2`, truncated to the address width. `reset_pc` acts only while stalled. |
| D. Refresh counter | `RefreshCounter` (361-375) | Counts refresh commands (`cs_n=0,cas_n=0,ras_n=0,we_n=1`) on DFI master phase 0. |
| E. Bus switch | `DFISwitch` (419-503) | The MEMORY-CONTROLLER / PAYLOAD-EXECUTION FSM. Handover is optionally gated on the refresh with ordinal `at_refresh`, tested as `at_refresh == counter + 1`. `refresh_count` is latched on MC→PE or on `refresh_update`. |
| F. Command emitter | `DFIExecutor` (302-348) | Registers the decoded command on phase `rdphase` (for READ) or phase 0. NOOP deselects every rank. |
| G. Executor FSM | `PayloadExecutor` (506-688) | READY → WAIT-DFI → BUBBLE → RUN ⇄ IDLE/BUBBLE → READY. It also holds `loop_counter`, `idle_counter`, the instruction register behind the synchronous read port, and the `exec_start`/`exec_stop` cycle counters. |

How the parts interact: the host writes a program and strobes `start`.
READY then raises `wants_dfi` and goes to WAIT-DFI, which holds the
scratchpad in reset. The switch hands the bus over, possibly only on the
right refresh, and raises `dfi_ready`. BUBBLE lets the two-stage fetch
pipeline fill. In RUN the decoder output drives the emitter, the fetcher's
`jump` and `stall`, and the FSM. READ data comes back from the PHY
`ReadLatency` cycles later and goes into the scratchpad. STOP or the end of
memory drops `wants_dfi`, and the switch hands the bus back.

The difficult behaviours are these:
- the three-way coupling FSM → fetcher → read port → instruction register
  → decoder → FSM, with a two-cycle lag;
- hand-back racing the last registered command;
- the off-by-one of `refresh_matches`;
- PHY read latency against the scratchpad reset;
- counters that wrap at their migen width;
- state (loop_counter) that survives from one run to the next;
- the status snapshots, which the host's start write and the FSM update
  independently.

## 2. Modules

| Module | Models | State | Actions / operators |
|--------|--------|-------|---------------------|
| `Fetcher` | C | `program_counter`, `program_counter_old` | `MemAddr`, `NextAddr`, `FetcherStep` (the three branches of the sync block) |
| `RefreshCounter` | D, op-code bits of A | `refresh_counter` | `OpCode`, `CAS/RAS/WE`, `IsRefreshCommand`, `RefreshCounterStep` |
| `DFISwitch` | E | `switch_state`, `mc_ongoing_d`, `refresh_count`, `at_refresh` | `RefreshMatches`, `HandOver`, `HandBack`, `McToPe`, `SwitchStep` |
| `Scratchpad` | B | `sp_counter`, `sp_overflow`, `sp_we` | `CounterWidth` (migen `bits_for(depth-2)`), `ScratchpadStep` |
| `PayloadExecutor` | F, G, the decoder, the composition | `fsm`, `mem`, `dat` (read port), `instruction`, `loop_counter`, `idle_counter`, `wants_dfi`, `bus`, `rd_pipe` (PHY), plus the auxiliary `reads_mod`/`reads_over` | `Ready`, `Start`, `WaitDfi`, `RunTerminate`, `RunLoopJump`, `RunLoopExit`, `RunCommand`, `Idle`, `Bubble`; `ExecEdge` (every edge but a start); `Spec`, `FairSpec` |
| `ExecStatus` | G's status sync block (535-549), the `start` strobe (721) | adds `cycle_counter`, `exec_start`, `exec_stop`, and the auxiliary `exec_cycles`, `payload_cycles` | `StatusStep`, `StartRun`, `Clock` |
| `PayloadISA` | what the executor promises, one instruction per step | `phase`, `prog`, `apc`, `aloop`, `await`, `issued` | `Request`, `Grant`, `Wait`, `Finish`, `Repeat`, `LeaveLoop`, `Issue` |
| `PayloadExecutorISA` | the refinement mapping | | `AbsPhase`, `AbsPc`, `AbsWait`, `Issued`; instances `ISA`, `ISALastWord`, `ISALoopSpan` |
| `MC_PayloadExecutor`, `MC_LoopCarry`, `MC_ExecStatus` | TLC instances | | the payloads checked, and the cycle bound |
| `PayloadExecutor_proofs`, `PayloadExecutorISA_proofs`, `ExecStatus_proofs` | TLAPS proofs | | see section 5 |

The data is abstracted as follows:
- An instruction word is a record of its decoded fields (`op, ts, count,
  jump, addr`). The bit packing belongs to the planned codec module.
- A phase output is the op code and address of the command, or `NoCmd`.
- The PHY is a shift register of `rddata_en` that is `ReadLatency` long.
- The scratchpad listens on `dfii.ext_dfi` (lines 425, 552). The model gives
  it the PHY's `rddata_valid` whatever the switch state. LiteDRAM's
  `DFIInjector`, which connects `ext_dfi` to the PHY, is not in this
  repository. If it drives `ext_dfi`'s `rddata_valid` only while
  `ext_dfi_sel` is high, then the hardware drops a read whose data returns
  after the hand-back, and the model counts it. In the core payloads every
  read lands while the executor still holds the bus, so the core run sees no
  difference. The late_reads finding holds either way, since its read lands
  after the next handover. `ReadsCountedHolds` is a statement about the
  ungated connection.
- The memory controller is the environment. While it owns the bus, it may put
  a refresh on phase 0 in any cycle.
- The host may strobe `refresh_update` in any cycle and `start` in READY.
  In `ExecStatus` with `HostRestarts = TRUE` it may also strobe `start` while
  the FSM runs: the FSM ignores it, the status block does not.
- `at_refresh` is any value at reset and is constant afterwards.
- The payload memory holds one program per behaviour from a small set.
  The code lets the host write it at any time; the model does not.

All address arithmetic is modulo `2^AddrBits`, and the memory depth is
`2^AddrBits`. `loop_counter` and the refresh counter wrap at their widths.
The scratchpad cursor has the width migen gives `Signal(max=depth-1)`.
The 64-bit cycle counter is a natural number: 2^64 cycles are never reached.

**The abstract specification.** `PayloadISA` executes a program one word at
a time: READY → WAIT (bus requested) → RUN. In RUN with no wait left, a run
ends at the end address or a STOP that is not a LOOP with iterations left;
a LOOP with iterations left jumps back `jump + LoopSpanExtra` words, counts,
and waits `Delay` cycles for the pipeline; a finished LOOP clears the
counter; any other word issues its command and waits `max(ts,1) - 1`
cycles. `EndAddress` and `LoopSpanExtra` are the two readings the code and
the spec disagree on. `PayloadExecutorISA` maps the hardware onto it:
- RUN and IDLE decode the word `PIPELINE_DELAY` behind `pc`;
- BUBBLE decodes `pc + idle_counter - 1` once it has counted down;
- IDLE and BUBBLE still wait `idle_counter + 1` cycles;
- `issued` is the command the emitter registered on any phase.

## 3. Runs

| Run | Config | Spec | Expect | Checks |
|-----|--------|------|--------|--------|
| core | `MC_PayloadExecutor.cfg` | `Spec` | pass | `TypeOK`, `ExecutorOwnsBus`, `FetchCoherent`, `HandoverAligned`, `ReadsCounted` |
| liveness | `MC_Liveness.cfg` | `FairSpec` | pass | `RunCompletes`, `BusReturned`, `HandBackAtEnd` |
| refinement | `MC_Refinement.cfg` | `Spec` | pass | `ImplementsISA` |
| exec_status | `MC_ExecStatus.cfg` | `StatusSpec` | pass | `ExecSpan` |
| loop_carry | `MC_LoopCarry.cfg` | `Spec` | violation | `LoopStartsFresh` |
| scratchpad_depth5 | `MC_ScratchpadDepth5.cfg` | `Spec` | violation | `ReadsCounted` |
| late_reads | `MC_LateReads.cfg` | `Spec` | violation | `ReadsCounted` |
| last_word | `MC_LastWord.cfg` | `Spec` | violation | `ExecutesLastWord` |
| loop_span | `MC_LoopSpan.cfg` | `Spec` | violation | `LoopRepeatsJPlusOne` |
| host_restart | `MC_HostRestart.cfg` | `StatusSpec` | violation | `ExecSpan` |
| span_payload | `MC_SpanPayload.cfg` | `StatusSpec` | violation | `SpanIsPayloadTime` |

The properties:
- **ExecutorOwnsBus.** RUN, IDLE and BUBBLE occur only while the switch
  selects the executor, and so does every registered command. No command is
  lost at the hand-back, and none reaches the controller's bus.
- **FetchCoherent.** In RUN and IDLE the instruction register holds
  `mem[pc-2]`. The stall/old-pc logic and the jump arithmetic never skip,
  repeat or replace a word.
- **HandoverAligned.** On the first cycle after a gated handover, the refresh
  counter equals `at_refresh`.
- **ReadsCounted.** Whenever no read is in flight, `read_count` and
  `overflow` equal the number of READs issued since start, modulo the depth,
  and whether that number reached the depth.
- **RunCompletes.** Every run that has requested the bus while the refresh
  it waits for is still ahead returns to READY. That refresh is still ahead
  when gating is off, when `at_refresh` is 0, or when `at_refresh` exceeds the
  refresh counter (`AwaitedRefreshAhead`). The claim never needs the counter
  to wrap. A past ordinal is excluded (see Fairness).
- **BusReturned.** Whenever the executor holds the bus, it hands it back.
- **HandBackAtEnd** (an action property). The switch returns the bus only on
  an edge taken in READY, after the run has ended, and the executor registers
  no command for the cycle the controller owns the bus again.
- **ImplementsISA.** Every behaviour of the executor is a behaviour of
  `PayloadISA` under the mapping: the program issues exactly the commands
  its words say, with the spacing their timeslices say, and a LOOP jumps
  back until `loop_counter` reaches its count. Because `loop_counter` carries
  over from one run to the next, the body runs `count + 1` times only when the
  counter starts at 0 (see loop_carry).
- **ExecSpan.** Once a run has ended, `exec_stop - exec_start` is the number
  of cycles `executing` was asserted in it.

Bounds:
- 4-word memory, so jumps, wraps and the end-of-memory test all occur;
- 2 phases, with READs on phase 1;
- 2-bit refresh counter, so `at_refresh` takes values 0-3 and the counter
  wraps;
- 4-word scratchpad, so one program issues 6 READs and overflows it;
- PHY latency 2 (late_reads: 4, with an extra payload of one READ and then
  STOP, the shortest run whose READ is still in the PHY at the next start);
- for the status runs, the cycle counter is bounded at 30 by a state
  constraint (`CycleBound`). Within it every payload completes a run and
  begins executing a second one, so the snapshots are zeroed and re-latched.

The five payloads take every FSM branch:
- long and 0/1 timeslices;
- a LOOP that jumps and a LOOP that exits;
- a LOOP on the last word, where the end-of-memory test is overridden;
- a REF issued by the executor itself, which the refresh counter sees;
- a program without STOP.

The core, liveness and refinement runs each explore about 2,400 distinct
states; exec_status about 66,000. Each property has a mutant of the code
that TLC finds violated (PROJECT.json "mutants"):
- `next_addr` without truncation breaks TypeOK;
- `mem_addr` not held while stalled breaks FetchCoherent;
- `refresh_matches` without the +1 breaks HandoverAligned;
- a wrap test at `depth` breaks ReadsCounted;
- WAIT-DFI that skips `dfi_ready` breaks ExecutorOwnsBus;
- an idle countdown that never decrements breaks RunCompletes;
- a terminate that keeps `wants_dfi` breaks BusReturned;
- a hand-back that does not wait for `wants_dfi` to drop breaks
  HandBackAtEnd;
- a LOOP exit that keeps `loop_counter` breaks ImplementsISA;
- `exec_stop` latched without the +1 breaks ExecSpan.

**Fairness.** `FairSpec` assumes weak fairness of the clock (any edge
other than a start: the clock never stops) and of a controller refresh
while the controller owns the bus (LiteDRAM's refresher issues a REF every
tREFI). The host is never obliged to start. `RunCompletes` depends on the
refresh fairness: a gated handover waits for the refresh with ordinal
`at_refresh`. The hardware counter is 64 bits wide (lines 430-436), so an
ordinal that has already passed never comes again, and the executor waits
in WAIT-DFI for good. Examples are a second run that reuses `at_refresh`,
and an `at_refresh` below the current count. The CSR description
(lines 484-486) and spec section 7 say this. The model's counter is 2 bits
wide and wraps, which would let such a run finish after a few refreshes. So
`RunCompletes` asks for termination only when the awaited refresh is still
ahead (`AwaitedRefreshAhead`). In that case the handover comes before the
counter could wrap, and the small counter behaves like the 64-bit one. The
case of a past ordinal is listed among the hazards in `PROJECT.json`, and
no run checks it: a wrapping
counter of model size cannot show a wait that lasts forever.

## 4. Findings

- **loop_carry.** The terminate test comes before the LOOP branches. When the
  last word of memory is a LOOP, the end-of-memory test fires in the cycle
  that LOOP finishes. The branch that clears `loop_counter` is skipped, and
  the run ends with `loop_counter = count`. The next run of the same
  well-formed payload ends its loop at once and runs the body once fewer.
  The comment at lines 641-642 and the spec (section 4.G) say the counter is
  cleared.
- **scratchpad_depth5.** `Signal(max=depth-1)` is `bits_for(depth-2)` bits
  wide. For depth 5 (or any `2^k+1`) the cursor wraps silently at 4, overflow
  is never set, and word 4 is never written. The spec says it wraps at
  capacity and sets overflow.
- **late_reads.** WAIT-DFI resets the scratchpad but does not wait for reads
  in flight. Leaving READY hands the bus back, so WAIT-DFI lasts at least two
  edges, and a READ of the previous run lands inside that reset only if the
  PHY read latency is at most 3 (proved: `ReadsCountedHolds`). With a latency
  of 4, a READ followed at once by STOP, and a restart right after `ready`,
  the READ lands after the reset and is counted in the new run. The five core
  payloads need a latency of 5 to show it. The spec does not say what happens
  to reads in flight. A host restart through the CSR bus is normally slower
  than that.
- **last_word.** `mem_addr == PIPELINE_DELAY-1` fires while the word at
  address `depth-1` is decoded, so a program without STOP ends without
  executing its last word. The comment at line 621 says the run ends "after
  executing the whole program". The refinement holds with `EndAddress =
  Depth-1` and fails with `Depth`.
- **loop_span.** A LOOP with jump J goes back J words (the fetcher's
  `pc - jump - 2` less the pipeline delay). The spec (section 6, S3) says it
  repeats J+1. The refinement holds with `LoopSpanExtra = 0` and fails with 1.
- **host_restart.** A `start` write while the executor runs is ignored by the
  FSM but zeroes `exec_start` and `exec_stop`. In the terminating cycle this
  leaves `exec_start = 0`, and the host reads a span of 10 cycles for a run
  of 7.
- **span_payload.** `executing` is high in RUN, IDLE and BUBBLE, so the span
  counts the first pipeline bubble and the terminating STOP cycle. The spec's
  scenario S1 (one ACT of timeslice 4) says the span is 4; the code gives 7.

## 5. Proofs

Every theorem holds for every value of the constants that satisfies the
assumptions.

`PayloadExecutor_proofs`:
- **TypeCorrect**: `Spec => []TypeOK`. It rests on the component lemmas
  `FetcherStepTypeOK`, `ScratchpadStepTypeOK`, `SwitchStepTypeOK`,
  `CycleTypeOK` (the registers every cycle updates) and `WordFields` (the
  field ranges of every word the read port can return), with one case per
  action.
- **BusOwnership**: `Spec => []ExecutorOwnsBus`. `ExecutorOwnsBus` is not
  inductive by itself, so the proof uses `OwnInv`, which adds three facts:
  - `wants_dfi` is high exactly outside READY;
  - the executing states hold the bus;
  - a registered command implies RUN or IDLE.

  The first fact is what stops the switch from handing back while the FSM
  runs (lemma `SwitchHolds`). `OwnInit` and `OwnStep` are its two halves.

`PayloadExecutorISA_proofs`:
- **FetchCoherence**: `Spec => []FetchCoherent`, through `PipelineInv`. In
  RUN and IDLE the read port holds `mem[pc-1]` as well as the instruction
  `mem[pc-2]`; IDLE has `program_counter_old = pc-1`, which is what the
  stalled read port re-reads; BUBBLE has `idle_counter < PIPELINE_DELAY`
  and, at 0, the read port at `mem[pc-1]`; WAIT-DFI has `pc = 0`. Each
  conjunct is needed for the next cycle's instruction.
- **ExecutorImplementsISA**: `Spec => ImplementsISA`. The initial states map
  to `ISA!Init`. With `OwnInv /\ PipelineInv` every edge maps to one ISA
  step: Start to Request, WAIT-DFI with `dfi_ready` to Grant, RUN's branches
  to Finish, Repeat, LeaveLoop and Issue (lemma `RunDecode`), and IDLE and
  BUBBLE count-downs to Wait; every other edge is a stutter. The address
  arithmetic modulo a symbolic depth rests on the lemmas `ModDiv`,
  `ModUnique`, `ModEqual`, `ModPeriod` and `ModShift`.

`ExecStatus_proofs`:
- **ExecSpanHolds**: if the host writes `start` only in READY
  (`HostRestarts = FALSE`), `StatusSpec => []ExecSpan`. `SpanInv` adds:
  the snapshots are zero in WAIT-DFI; in the first executing cycle nothing is
  latched yet; afterwards `exec_start >= 1` and `exec_stop = cycle_counter`;
  and the cycle counter is past 0 once a run has begun, so `exec_start = 0`
  means "not latched". The host_restart run shows that the hypothesis is
  needed.

`DataPath_proofs`:
- **HandoverAlignment**: `Spec => []HandoverAligned`. Lemma `AlignedStep`
  shows that any switch step ending in the first cycle of PAYLOAD-EXECUTION
  was a gated handover: `refresh` was high and `at_refresh =
  refresh_counter + 1`. That same edge increments the counter, and since
  `at_refresh` is a counter value the increment does not wrap (`ModSmall`).
  The invariant is therefore inductive given `TypeOK`.
- **ReadsCountedHolds**: if the depth fits the cursor (`CursorFits`:
  `depth <= 2^width`) and `ReadLatency <= 3`, then `Spec =>
  []ReadsCounted`. The inductive invariant `ReadsInv` is TLC-checked at
  latencies 1, 2 and 3. It adds `OwnInv` and `CountInv`. `CountInv` says
  that the cursor plus the reads in flight (`InFlight`: PHY stages set plus
  the write enable) equals `reads_mod` modulo the depth, and that the
  overflow flag or that sum reaching the depth is `reads_over`. It holds
  outside WAIT-DFI. In WAIT-DFI, `ReadsInv` says `CountInv` holds or both
  counts are reset. It also says no READ is in PHY stage 3 or above, or in
  stage 2 or above once the switch has handed over. The proof has these parts:
  - Lemma `PipeShift` (by a bijection between stage sets) shows that a PHY
    shift adds the READ on the bus and removes the bottom stage.
  - Lemma `CountStep` then preserves `CountInv` on every non-WAIT-DFI edge,
    with the wrap case through `ModPeriod` and `CountArith`.
  - `wants_dfi` is low in READY, so the start edge sends the switch back to
    the controller, and WAIT-DFI has at least two resetting edges.
  - The start edge shifts the PHY with an empty bus. With `ReadLatency <= 3`
    this leaves every READ of the last run in stage 2 or below.
  - Each WAIT-DFI edge moves such a READ down a stage, so it leaves stage 1
    during a reset, and nothing is in flight when BUBBLE begins.

  Both hypotheses are necessary. The scratchpad_depth5 run breaks the first
  and the late_reads run breaks the second, at latency 4.
- **HandBackOnlyAtEnd**: `Spec => HandBackAtEnd`, from `OwnInv`. The switch
  leaves PAYLOAD-EXECUTION only when `wants_dfi` is low, which is only in
  READY. READY's edges pass `exec = 0`, so no command is registered
  (`NoExecNoCmd`).

The assumptions include `2^w \in Nat \ {0}` for each width, a depth of at
least 2, and that migen's `bits_for` (a CHOOSE) yields a positive width. The
provers cannot derive exponentiation facts by induction. TLC evaluates these
assumptions on every run.

The following stay with TLC:
- RunCompletes and BusReturned: liveness under fairness, and the ENABLED it
  needs, are out of the prover's reach;
- ReadsCounted at latencies above 3: there it is false, and the late_reads run
  shows it;
- the violated properties of the finding runs.

Leaves that the SMT backend cannot close within its default time carry an
explicit `Zenon`, so the proofs do not depend on the order of the fallback.

## 6. Not modelled, and the plan

- **Codec** (Encoder, and the Decoder's bit slicing). Planned: a `Codec`
  module with encode/decode by div/mod, checked for round trips over bounded
  fields. It will also cover the timeslice expansion into trailing NOOPs.
- **Further proofs.** LoopStartsFresh under the hypothesis that the last word
  of memory is not a LOOP, and the action-level spacing of commands in the
  ISA.
- Not modelled, and why:
  - the DDR5 refresh rule;
  - the refresher reset pulse and the SyncableRefresher, which are external;
  - the CSR transport (the `start` strobe itself is modelled);
  - payload writes during execution;
  - the third-party LiteDRAM PHY, simulation and test files, which are
    outside the executor.
