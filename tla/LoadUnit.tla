------------------------------ MODULE LoadUnit ------------------------------
(***************************************************************************)
(* The load unit (cva6/core/load_unit.sv): the control of a load, from the *)
(* request queue to the memory port and back.  A load whose page offset    *)
(* matches a pending store waits; any other requests the memory port, and  *)
(* leaves the queue in the cycle it is granted; its data arrives in the    *)
(* next cycle.  No load raises an exception in this build (no MMU).        *)
(* Alignment and sign extension of the data are left out: an address       *)
(* stands for the aligned double word that page offsets are compared by.   *)
(***************************************************************************)
EXTENDS Integers

CONSTANT TransId

VARIABLES
    ld_state,       \* state_q
    load_data       \* load_data_q: transaction id of the load being served

unitVars == <<ld_state, load_data>>

Init == ld_state = "IDLE" /\ load_data = 0

\* load_control.  match: page_offset_matches_i.
RequestAnyway(valid_i, match) ==
    \/ ld_state \in {"IDLE", "SEND_TAG"} /\ valid_i
    \/ ld_state \in {"WAIT_GNT", "WAIT_PAGE_OFFSET"}

data_req(valid_i, match) ==
    \/ ld_state \in {"IDLE", "SEND_TAG"} /\ valid_i /\ ~match
    \/ ld_state = "WAIT_GNT"

pop_ld_o(valid_i, match, gnt) == data_req(valid_i, match) /\ gnt

state_d(valid_i, match, gnt, flush_i) ==
    IF flush_i THEN "WAIT_FLUSH"
    ELSE IF data_req(valid_i, match) THEN IF gnt THEN "SEND_TAG" ELSE "WAIT_GNT"
    ELSE IF ld_state \in {"IDLE", "SEND_TAG"} /\ valid_i THEN "WAIT_PAGE_OFFSET"
    ELSE IF ld_state = "WAIT_PAGE_OFFSET" THEN IF match THEN ld_state ELSE "WAIT_GNT"
    ELSE "IDLE"

\* rvalid_output: a load killed by a flush stays silent.
valid_o(data_rvalid) == data_rvalid /\ ld_state # "WAIT_FLUSH"

\* The registers.
Latch(valid_i, tid, match, gnt, flush_i) ==
    /\ ld_state' = state_d(valid_i, match, gnt, flush_i)
    /\ load_data' = IF pop_ld_o(valid_i, match, gnt) THEN tid ELSE load_data
=============================================================================
