----------------------------- MODULE StoreUnit -----------------------------
(***************************************************************************)
(* The store unit (cva6/core/store_unit.sv) and the store buffer inside    *)
(* it.  A store leaves the request queue when the buffer signals room      *)
(* (pop_st_o), spends one cycle in VALID_STORE, where it is written back   *)
(* to the scoreboard and posted to the buffer, and is then speculative     *)
(* until it retires.  Room is signalled one cycle before it is used.       *)
(*                                                                         *)
(* The build has no MMU: every address translates at once (dtlb_hit = 1)   *)
(* and raises no exception (mmu_exception = 0), so that WAIT_TRANSLATION   *)
(* is never entered.  Atomic operations and their buffer are left out.     *)
(*                                                                         *)
(* The unit holds the buffer: its state and processes are those of module  *)
(* StoreBuffer, and the names Unit... are the two together.                *)
(***************************************************************************)
EXTENDS StoreBuffer

CONSTANT TransId            \* transaction ids of the scoreboard

ASSUME TransIdAssumption == 0 \in TransId

VARIABLES
    st_state,               \* state_q
    st_q,                   \* st_data_q, st_be_q and the translated address
    st_trans_id             \* trans_id_q

unitVars == <<st_state, st_q, st_trans_id>>
storeUnitVars == <<unitVars, bufferVars>>

UnitInit ==
    /\ st_state = "IDLE"
    /\ st_q = ResetStore
    /\ st_trans_id = 0
    /\ BufferInit

-----------------------------------------------------------------------------
\* Outputs and signals of store_control.
st_ready(commit_i) == ready_o(commit_i)
valid_o == st_state = "VALID_STORE"
st_valid_without_flush == st_state = "VALID_STORE"
st_valid(flush_i) == st_state = "VALID_STORE" /\ ~flush_i
AcceptAlways(valid_i, commit_i) == valid_i /\ st_state \in {"IDLE", "VALID_STORE"}

pop_st_o(valid_i, commit_i) ==
    /\ valid_i
    /\ st_state \in {"IDLE", "VALID_STORE"}
    /\ st_ready(commit_i)

\* state_d: a store that finds no room waits in WAIT_STORE_READY until there
\* is room and is then presented again in IDLE; a flush returns to IDLE.
state_d(valid_i, commit_i, flush_i) ==
    CASE flush_i -> "IDLE"
      [] ~flush_i /\ st_state = "WAIT_STORE_READY" ->
             IF st_ready(commit_i) THEN "IDLE" ELSE "WAIT_STORE_READY"
      [] ~flush_i /\ st_state # "WAIT_STORE_READY" ->
             IF ~valid_i THEN "IDLE"
             ELSE IF pop_st_o(valid_i, commit_i) THEN "VALID_STORE"
             ELSE "WAIT_STORE_READY"

\* Load and store units share the page offset comparison: the pending stores
\* and the one being posted in this cycle.
PostingIgnored == Pending

PossibleMatches ==
    Pending \union (IF st_valid_without_flush THEN {st_q} ELSE {})

\* One clock edge: valid_i, st and tid come from the request queue.  The
\* payload registers latch every cycle in the code; what they hold is used in
\* VALID_STORE only, so the model resets them otherwise.
UnitLatch(valid_i, st, tid, commit_i, flush_i, data_gnt) ==
    /\ st_state' = state_d(valid_i, commit_i, flush_i)
    /\ st_q' = IF state_d(valid_i, commit_i, flush_i) = "VALID_STORE" THEN st ELSE ResetStore
    /\ st_trans_id' = IF state_d(valid_i, commit_i, flush_i) = "VALID_STORE" THEN tid ELSE 0
    /\ CoreIf(st_valid(flush_i), st_q, commit_i, flush_i)
    /\ StoreIf(commit_i, data_gnt)

\* The environment retires only stores that were posted, when the commit queue
\* has room, and not in a cycle with a flush.
UnitCycle(valid_i, st, tid, commit_i, flush_i, data_gnt) ==
    /\ commit_and_flush(commit_i, flush_i)
    /\ speculative_buffer_underflow(commit_i)
    /\ commit_buffer_overflow(commit_i)
    /\ UnitLatch(valid_i, st, tid, commit_i, flush_i, data_gnt)

UnitNext == \E valid_i, commit_i, flush_i, data_gnt \in BOOLEAN, st \in Store, tid \in TransId :
            UnitCycle(valid_i, st, tid, commit_i, flush_i, data_gnt)

UnitSpec == UnitInit /\ [][UnitNext]_storeUnitVars

-----------------------------------------------------------------------------
\* A store accepted on the strength of last cycle's ready finds room when it
\* is posted: the buffer is never offered more than it can hold (the ready_o
\* of store_buffer.sv line 90 against the assertion of its line 307).
RoomWhenPosted ==
    speculative_status_cnt + (IF st_state = "VALID_STORE" THEN 1 ELSE 0) <= DEPTH_SPEC

\* The inductive invariant; it needs the count of the buffer, not its entries.
UnitInv ==
    /\ st_state \in {"IDLE", "VALID_STORE", "WAIT_STORE_READY"}
    /\ st_q \in Store
    /\ speculative_status_cnt \in 0..DEPTH_SPEC
    /\ RoomWhenPosted

\* With this unit in front of it the store buffer behaves as specified in
\* StoreBuffer, whose overflow assumption is thereby discharged.
BufferSpec == StoreBufferSpec
=============================================================================
