-------------------------------- MODULE LSU --------------------------------
(***************************************************************************)
(* The load-store unit (cva6/core/load_store_unit.sv): the two-entry       *)
(* request queue lsu_bypass, the load unit, the store unit with its        *)
(* buffer, and the single-port memory ord_sram that they share.            *)
(*                                                                         *)
(* One step is one clock edge.  Combinational signals are operators of the *)
(* inputs of the cycle: lsu_valid_i and req from the issue stage, commit_i *)
(* and flush_i from the commit stage and the controller.                   *)
(***************************************************************************)
EXTENDS Integers

CONSTANTS Addr, Data, ResetStore, DEPTH_SPEC, DEPTH_COMMIT, TransId

Store == [addr : Addr, data : Data]
Req == [fu : {"LOAD", "STORE"}, st : Store, tid : TransId]
NoReq == [fu |-> "NONE", st |-> ResetStore, tid |-> 0]

VARIABLES
    lsu_mem, lsu_read_pointer, lsu_write_pointer, lsu_status_cnt,   \* lsu_bypass
    ld_state, load_data,                                            \* load_unit
    st_state, st_q, st_trans_id,                                    \* store_unit
    speculative_queue, speculative_read_pointer, speculative_write_pointer,
    speculative_status_cnt,
    commit_queue, commit_read_pointer, commit_write_pointer, commit_status_cnt,
    ram, raddr, ld_serve_prev,      \* ord_sram and the arbiter in front of it
    load_pipe                       \* output register of the load unit

LU == INSTANCE LoadUnit
SU == INSTANCE StoreUnit

bypassVars == <<lsu_mem, lsu_read_pointer, lsu_write_pointer, lsu_status_cnt>>
memVars == <<ram, raddr, ld_serve_prev, load_pipe>>
vars == <<bypassVars, LU!unitVars, SU!storeUnitVars, memVars>>

\* Reset; the memory itself is not reset.
Init ==
    /\ lsu_mem = [i \in 0..1 |-> [valid |-> FALSE, req |-> NoReq]]
    /\ lsu_read_pointer = 0 /\ lsu_write_pointer = 0 /\ lsu_status_cnt = 0
    /\ LU!Init
    /\ SU!UnitInit
    /\ ram \in [Addr -> Data]
    /\ raddr = ResetStore.addr
    /\ ld_serve_prev = FALSE
    /\ load_pipe = [valid |-> FALSE, tid |-> 0, data |-> ResetStore.data]

-----------------------------------------------------------------------------
\* lsu_bypass: the request at the head of the queue, or the incoming one when
\* the queue is empty.
lsu_ready_o == lsu_status_cnt = 0
lsu_ctrl(lsu_valid_i, req) ==
    IF lsu_status_cnt = 0 THEN [valid |-> lsu_valid_i, req |-> req]
                          ELSE lsu_mem[lsu_read_pointer]

\* which_op: the head goes to the unit of its kind.
ld_valid_i(ctrl) == ctrl.valid /\ ctrl.req.fu = "LOAD"
st_valid_i(ctrl) == ctrl.valid /\ ctrl.req.fu = "STORE"

\* The address checker, on the page offset of the head.
page_offset_matches(ctrl) == \E s \in SU!PossibleMatches : s.addr = ctrl.req.st.addr

\* The arbiter: a load that does not match a pending store goes first.
ld_data_req(ctrl) == LU!data_req(ld_valid_i(ctrl), page_offset_matches(ctrl))
st_data_req == SU!data_req_o

LoadFirst(ctrl) == ~ld_valid_i(ctrl)

sel_lsu(ctrl) == ~ld_data_req(ctrl) \/ page_offset_matches(ctrl)

pop_ld(ctrl) == LU!pop_ld_o(ld_valid_i(ctrl), page_offset_matches(ctrl), ~sel_lsu(ctrl))
pop_st(ctrl, commit_i) == SU!pop_st_o(st_valid_i(ctrl), commit_i)

\* Write back of a load, through its output register; of a store, at once.
load_valid_o == load_pipe.valid
store_valid_o == SU!valid_o
store_trans_id_o == st_trans_id

\* The registers of lsu_bypass.  Popping through both ports in one cycle
\* clears the queue.
Bypass(lsu_valid_i, req, ld, st, flush_i) ==
    LET pushed == IF lsu_valid_i
                  THEN [lsu_mem EXCEPT ![lsu_write_pointer] = [valid |-> TRUE, req |-> req]]
                  ELSE lsu_mem
        popped == IF ld \/ st THEN [pushed EXCEPT ![lsu_read_pointer].valid = FALSE] ELSE pushed
        pops == (IF ld THEN 1 ELSE 0) + (IF st THEN 1 ELSE 0)
        push == IF lsu_valid_i THEN 1 ELSE 0
    IN  /\ lsu_mem' = IF flush_i \/ (ld /\ st)
                      THEN [i \in 0..1 |-> [valid |-> FALSE, req |-> NoReq]] ELSE popped
        /\ lsu_write_pointer' = IF flush_i THEN 0 ELSE (lsu_write_pointer + push) % 2
        /\ lsu_read_pointer' = IF flush_i THEN 0 ELSE (lsu_read_pointer + pops) % 2
        /\ lsu_status_cnt' = IF flush_i THEN 0 ELSE (lsu_status_cnt + push - pops) % 4

\* ord_sram: one access per cycle; a read is answered in the next cycle from
\* the array as it then is.
Sram(ctrl) ==
    /\ ram' = IF sel_lsu(ctrl) /\ st_data_req
              THEN [ram EXCEPT ![SU!CommitHead.addr] = SU!CommitHead.data] ELSE ram
    /\ raddr' = IF sel_lsu(ctrl) THEN raddr ELSE ctrl.req.st.addr
    /\ ld_serve_prev' = ~sel_lsu(ctrl)

\* The output register of the load unit (NR_LOAD_PIPE_REGS = 1); it is not
\* cleared by a flush.  What it holds while not valid is not used.
LoadPipe ==
    load_pipe' = IF LU!valid_o(ld_serve_prev)
                 THEN [valid |-> TRUE, tid |-> load_data, data |-> ram[raddr]]
                 ELSE [valid |-> FALSE, tid |-> 0, data |-> ResetStore.data]

Latch(lsu_valid_i, req, commit_i, flush_i) ==
    LET ctrl == lsu_ctrl(lsu_valid_i, req)
    IN  /\ Bypass(lsu_valid_i, req, pop_ld(ctrl), pop_st(ctrl, commit_i), flush_i)
        /\ LU!Latch(ld_valid_i(ctrl), ctrl.req.tid, page_offset_matches(ctrl),
                    ~sel_lsu(ctrl), flush_i)
        /\ SU!UnitLatch(st_valid_i(ctrl), ctrl.req.st, ctrl.req.tid, commit_i, flush_i,
                    sel_lsu(ctrl))
        /\ Sram(ctrl)
        /\ LoadPipe
=============================================================================
