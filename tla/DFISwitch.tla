------------------------------ MODULE DFISwitch ------------------------------
(***************************************************************************)
(* The DFI switch (class DFISwitch): the two-state FSM that hands the DFI  *)
(* command bus from the memory controller to the payload executor and     *)
(* back, optionally only on the cycle of a refresh command with a given   *)
(* ordinal, together with its refresh counter and the CSR logic of        *)
(* add_csrs (the latched refresh_count, at_refresh, refresh_update).      *)
(***************************************************************************)
EXTENDS RefreshCounter

CONSTANT WithRefresh   \* the with_refresh argument of DFISwitch

ASSUME DFISwitchAssumption == WithRefresh \in BOOLEAN

VARIABLES
  switch_state,    \* DFISwitch.fsm
  mc_ongoing_d,    \* mc_ongoing delayed by one cycle (add_csrs)
  refresh_count,   \* _refresh_count.status, the latched counter
  at_refresh       \* at_refresh, driven by the _at_refresh CSR storage

switchVars == <<switch_state, mc_ongoing_d, refresh_counter, refresh_count,
                at_refresh>>

MC == "MEMORY-CONTROLLER"
PE == "PAYLOAD-EXECUTION"

SwitchTypeOK ==
  /\ switch_state \in {MC, PE}
  /\ mc_ongoing_d \in BOOLEAN
  /\ refresh_counter \in RefreshValues
  /\ refresh_count \in RefreshValues
  /\ at_refresh \in RefreshValues

\* After reset the FSM is in MEMORY-CONTROLLER and every register is 0;
\* at_refresh holds whatever the host has written to its CSR before the
\* first start.
SwitchInit ==
  /\ switch_state = MC
  /\ mc_ongoing_d = FALSE
  /\ RefreshCounterInit
  /\ refresh_count = 0
  /\ at_refresh \in RefreshValues

\* dfi_ready and ext_dfi_sel are asserted combinationally in PAYLOAD-EXECUTION.
DfiReady == switch_state = PE

\* Mutant: the +1 for the counter's one-cycle lag is dropped.
RefreshMatchesNoLag ==
  at_refresh = 0 \/ at_refresh = refresh_counter

\* refresh_matches: the counter is updated one cycle after the refresh, so
\* the test is against counter + 1 (computed one bit wider: it never wraps).
RefreshMatches ==
  at_refresh = 0 \/ at_refresh = refresh_counter + 1

\* MEMORY-CONTROLLER -> PAYLOAD-EXECUTION
HandOver(wants_dfi, refresh) ==
  /\ switch_state = MC
  /\ wants_dfi
  /\ ~WithRefresh \/ (refresh /\ RefreshMatches)

\* Mutant: the hand-back does not wait for wants_dfi to drop.
HandBackUnguarded(wants_dfi) ==
  switch_state = PE

\* PAYLOAD-EXECUTION -> MEMORY-CONTROLLER (pulsing the refresher reset)
HandBack(wants_dfi) ==
  /\ switch_state = PE
  /\ ~wants_dfi

\* mc_to_pe: the first cycle in PAYLOAD-EXECUTION after MEMORY-CONTROLLER.
McToPe == mc_ongoing_d /\ switch_state = PE

\* One clock edge of the switch, its refresh counter and its CSR logic.
\* `refresh` is the refresh decode of DFI master phase 0 in this cycle and
\* `refresh_update` the strobe of the refresh_update CSR.
SwitchStep(wants_dfi, refresh, refresh_update) ==
  /\ switch_state' = IF HandOver(wants_dfi, refresh) THEN PE
                     ELSE IF HandBack(wants_dfi) THEN MC
                     ELSE switch_state
  /\ mc_ongoing_d' = (switch_state = MC)
  /\ RefreshCounterStep(refresh)
  /\ refresh_count' = IF McToPe \/ refresh_update THEN refresh_counter
                                                  ELSE refresh_count
  /\ UNCHANGED at_refresh
=============================================================================
