------------------------------ MODULE Backend ------------------------------
(***************************************************************************)
(* The back end of the core around memory instructions: the issue stage    *)
(* (issue_read_operands.sv), the scoreboard, the load-store unit, the CSR  *)
(* buffer, the commit stage (commit_stage.sv) and the flush control        *)
(* (controller.sv), composed as in issue_stage.sv, ex_stage.sv and         *)
(* ariane.sv.                                                              *)
(*                                                                         *)
(* The instruction stream is free: in every cycle the decoder offers any   *)
(* instruction or none, which also stands for operand and write-after-     *)
(* write stalls and for what a misprediction drops before issue.  Memory   *)
(* instructions and fences are modelled (a fence is an instruction of the  *)
(* CSR unit), and instructions that carry an exception from the decoder.   *)
(***************************************************************************)
EXTENDS Integers, FiniteSets

CONSTANTS Addr, Data, ResetStore, DEPTH_SPEC, DEPTH_COMMIT, NR_ENTRIES, NR_COMMIT_PORTS,
          Instr         \* records [fu, st, ex]

ASSUME CommitPortsAssumption == NR_COMMIT_PORTS = 2
ASSUME EntriesAssumption == NR_ENTRIES \in Nat /\ NR_ENTRIES >= 2
ASSUME DepthsAssumption == DEPTH_SPEC \in Nat \ {0} /\ DEPTH_COMMIT \in Nat \ {0}
ASSUME InstrsAssumption ==
    /\ ResetStore \in [addr : Addr, data : Data]
    /\ Instr \subseteq [fu : {"LOAD", "STORE", "CSR"}, st : [addr : Addr, data : Data],
                        ex : BOOLEAN]

TransId == 0..NR_ENTRIES-1
Faulty == {i \in Instr : i.ex}
NoUnit == {}
ResetInstr == [fu |-> "NONE", st |-> ResetStore, ex |-> FALSE]

VARIABLES
    mem, issue_cnt, issue_pointer, commit_pointer,                  \* scoreboard
    lsu_valid, csr_valid, fu_data,                                  \* issue registers
    csr_reg_valid,                                                  \* csr_buffer
    lsu_mem, lsu_read_pointer, lsu_write_pointer, lsu_status_cnt,
    ld_state, load_data, st_state, st_q, st_trans_id,
    speculative_queue, speculative_read_pointer, speculative_write_pointer,
    speculative_status_cnt,
    commit_queue, commit_read_pointer, commit_write_pointer, commit_status_cnt,
    ram, raddr, ld_serve_prev, load_pipe

Sb == INSTANCE Scoreboard WITH Instr <- Instr \union {ResetInstr}
L == INSTANCE LSU

issueVars == <<lsu_valid, csr_valid, fu_data, csr_reg_valid>>
vars == <<Sb!vars, issueVars, L!vars>>

Init ==
    /\ Sb!Init
    /\ lsu_valid = FALSE /\ csr_valid = FALSE /\ fu_data = L!NoReq
    /\ csr_reg_valid = FALSE
    /\ L!Init

-----------------------------------------------------------------------------
\* commit_stage: port 0 retires the oldest instruction; a store needs room in
\* the commit queue, a fence an empty one.  wbuffer_empty stands for
\* dcache_commit_wbuffer_empty, which nothing drives once the cache is
\* removed.
Oldest == Sb!commit_instr(0)
Retirable == Sb!commit_instr_valid(0) /\ ~Oldest.ex

FenceIgnoresStores(wbuffer_empty) ==
    /\ Retirable
    /\ Oldest.fu = "STORE" => L!SU!commit_ready_o

commit_ack0(wbuffer_empty) ==
    /\ Retirable
    /\ Oldest.fu = "STORE" => L!SU!commit_ready_o
    /\ Oldest.fu = "CSR" => L!SU!no_st_pending_o /\ wbuffer_empty

CommitDespiteException ==
    Sb!commit_instr_valid(0) /\ Oldest.fu = "STORE" /\ L!SU!commit_ready_o

commit_lsu == Retirable /\ Oldest.fu = "STORE" /\ L!SU!commit_ready_o
commit_csr == Retirable /\ Oldest.fu = "CSR"

\* Port 1 retires a finished load behind it.
commit_ack1(wbuffer_empty) ==
    /\ commit_ack0(wbuffer_empty)
    /\ Sb!commit_instr_valid(1)
    /\ Oldest.fu # "CSR"
    /\ ~Sb!commit_instr(1).ex
    /\ Sb!commit_instr(1).fu = "LOAD"

num_commit(wbuffer_empty) ==
    IF commit_ack1(wbuffer_empty) THEN 2 ELSE IF commit_ack0(wbuffer_empty) THEN 1 ELSE 0

\* exception_handling and flush_ctrl: a retiring fence and an exception flush
\* the whole pipeline.
exception_valid == Sb!commit_instr_valid(0) /\ Oldest.ex
flush(wbuffer_empty) == exception_valid \/ (commit_ack0(wbuffer_empty) /\ Oldest.fu = "CSR")

-----------------------------------------------------------------------------
\* unit_busy and issue_scoreboard: an instruction with an exception needs no
\* unit.
csr_ready == commit_csr \/ ~(csr_reg_valid \/ csr_valid)

IgnoreBusy(instr) == ~Sb!issue_full

issue_ack(instr) ==
    /\ ~Sb!issue_full
    /\ \/ instr.ex
       \/ instr.fu \in {"LOAD", "STORE"} /\ L!lsu_ready_o
       \/ instr.fu = "CSR" /\ csr_ready

\* The valid and data registers towards the units; a flush clears the valids.
IssueRegs(issue, instr, flush_i) ==
    LET start == issue /\ ~instr.ex /\ ~flush_i
        isLsu == instr.fu \in {"LOAD", "STORE"}
    IN  /\ lsu_valid' = (start /\ isLsu)
        /\ csr_valid' = (start /\ ~isLsu)
        /\ fu_data' = IF start
                      THEN [fu |-> instr.fu, st |-> instr.st, tid |-> issue_pointer]
                      ELSE L!NoReq

\* csr_buffer, and write back of the fixed latency units in the same cycle.
CsrBuffer(flush_i) ==
    csr_reg_valid' = (~flush_i /\ (csr_valid \/ (csr_reg_valid /\ ~commit_csr)))

\* The write back ports: load, store and fixed latency units.
wb_ids ==
    (IF L!load_valid_o THEN {load_pipe.tid} ELSE {})
    \union (IF L!store_valid_o THEN {L!store_trans_id_o} ELSE {})
    \union (IF csr_valid THEN {fu_data.tid} ELSE {})

\* The request the issue register shows the load-store unit.
lsu_req == IF lsu_valid THEN fu_data ELSE L!NoReq

Cycle(issue, instr, wbuffer_empty) ==
    LET flush_i == flush(wbuffer_empty)
    IN  /\ issue => issue_ack(instr)
        /\ Sb!Latch(issue, instr, wb_ids, num_commit(wbuffer_empty), flush_i)
        /\ IssueRegs(issue, instr, flush_i)
        /\ CsrBuffer(flush_i)
        /\ L!Latch(lsu_valid, lsu_req, commit_lsu, flush_i)

Next == \E issue, wbuffer_empty \in BOOLEAN, instr \in Instr :
            Cycle(issue, instr, wbuffer_empty)

Spec == Init /\ [][Next]_vars

-----------------------------------------------------------------------------
\* What the units see in this cycle.
ctrl == L!lsu_ctrl(lsu_valid, lsu_req)
InFlight == {i \in TransId : mem[i].issued}
Age(i) == Sb!Dist(commit_pointer[0], i, NR_ENTRIES)
Older(i) == {j \in InFlight : Age(j) < Age(i)}

\* Every behaviour of the composed design satisfies what its files hand to the
\* property checker as assumptions (the FVT blocks of store_buffer.sv and
\* scoreboard.sv), so that they rule out no behaviour of the core: retire and
\* flush exclude each other, the queues neither overflow nor underflow, and no
\* two units write back the same instruction in one cycle.
AssumptionsHold ==
    \A wbuffer_empty \in BOOLEAN :
        LET flush_i == flush(wbuffer_empty)
        IN  /\ L!SU!commit_and_flush(commit_lsu, flush_i)
            /\ L!SU!speculative_buffer_overflow(L!SU!st_valid(flush_i))
            /\ L!SU!speculative_buffer_underflow(commit_lsu)
            /\ L!SU!commit_buffer_overflow(commit_lsu)
            /\ Sb!commit_ack_valid(num_commit(wbuffer_empty))
            /\ Cardinality(wb_ids) = (IF L!load_valid_o THEN 1 ELSE 0)
                   + (IF L!store_valid_o THEN 1 ELSE 0) + (IF csr_valid THEN 1 ELSE 0)

\* The value a load must return: the data of the youngest older store to its
\* address that is in flight, else of the youngest retired one that is not yet
\* in memory, else what the memory holds.
InFlightStores(i) == {j \in Older(i) : /\ mem[j].instr.fu = "STORE" /\ ~mem[j].instr.ex
                                       /\ mem[j].instr.st.addr = mem[i].instr.st.addr}
RetiredStores(addr) == {n \in 0..commit_status_cnt-1 :
    commit_queue[L!SU!Wrap(commit_read_pointer, n, DEPTH_COMMIT)].st.addr = addr}
Expected(i) ==
    LET addr == mem[i].instr.st.addr
    IN  IF InFlightStores(i) # {}
        THEN mem[CHOOSE j \in InFlightStores(i) :
                     \A k \in InFlightStores(i) : Age(k) <= Age(j)].instr.st.data
        ELSE IF RetiredStores(addr) # {}
        THEN commit_queue[L!SU!Wrap(commit_read_pointer,
                 CHOOSE n \in RetiredStores(addr) : \A m \in RetiredStores(addr) : m <= n,
                 DEPTH_COMMIT)].st.data
        ELSE ram[addr]

\* A load that writes back to an instruction in flight writes back to the load
\* it belongs to, once, with the value of the youngest older store: the address
\* check against the store buffer, the arbiter and the wait states of the load
\* unit together, and the output register a flush does not clear.
LoadsReadLatestStore ==
    load_pipe.valid /\ mem[load_pipe.tid].issued =>
        /\ mem[load_pipe.tid].instr.fu = "LOAD" /\ ~mem[load_pipe.tid].instr.ex
        /\ ~mem[load_pipe.tid].valid
        /\ load_pipe.data = Expected(load_pipe.tid)

\* The stores the commit stage will retire are those of the speculative queue,
\* in the same order: the pulse commit_lsu carries no address, so the oldest
\* entry of the queue must be the store that retires.
FinishedStores == {i \in InFlight : mem[i].valid /\ mem[i].instr.fu = "STORE" /\ ~mem[i].instr.ex}
CommitsOwnStore ==
    /\ Cardinality(FinishedStores) = speculative_status_cnt
    /\ \A i \in FinishedStores :
           LET n == Cardinality({j \in FinishedStores : Age(j) < Age(i)})
           IN  speculative_queue[L!SU!Wrap(speculative_read_pointer, n, DEPTH_SPEC)].st
                   = mem[i].instr.st

\* The two-entry request queue never overflows although it accepts a request
\* whenever it is empty and learns late that the head could not leave; and
\* load and store never leave it in the same cycle.
BypassRoom ==
    /\ lsu_status_cnt + (IF lsu_valid THEN 1 ELSE 0) <= 2
    /\ \A commit_i \in BOOLEAN : ~(L!pop_ld(ctrl) /\ L!pop_st(ctrl, commit_i))

\* A load that requests memory never matches a pending store, also when it
\* comes out of WAIT_PAGE_OFFSET: the first alternative of sel_lsu and the
\* transition of the load unit from IDLE to WAIT_GNT never happen.
RequestsNeverMatch == L!ld_data_req(ctrl) => ~L!page_offset_matches(ctrl)

\* After a fence retires, no store is pending anywhere: the retired ones are in
\* memory (no_st_pending looks at the commit queue only) and the younger ones
\* that were already posted are gone with the flush.
FenceRetires == Retirable /\ Oldest.fu = "CSR" /\ ~mem'[commit_pointer[0]].issued
FenceDrains ==
    [][FenceRetires => /\ L!SU!store_buffer_empty_o'
                       /\ st_state' # "VALID_STORE" /\ ~lsu_valid' /\ lsu_status_cnt' = 0]_vars

-----------------------------------------------------------------------------
(***************************************************************************)
(* The inductive invariant behind these properties: where the instructions *)
(* in flight are, and in which order.                                      *)
(***************************************************************************)

\* The requests not yet taken by a unit, oldest first: those of the queue, then
\* the one in the issue register.
Waits == lsu_status_cnt + (IF lsu_valid THEN 1 ELSE 0)
Waiting(k) == IF k < lsu_status_cnt THEN lsu_mem[(lsu_read_pointer + k) % 2].req ELSE fu_data

BypassInv ==
    /\ lsu_mem \in [0..1 -> [valid : BOOLEAN, req : L!Req \union {L!NoReq}]]
    /\ lsu_read_pointer \in 0..1 /\ lsu_write_pointer \in 0..1 /\ lsu_status_cnt \in 0..2
    /\ lsu_valid \in BOOLEAN
    /\ Waits <= 2
    /\ lsu_write_pointer = (lsu_read_pointer + lsu_status_cnt) % 2
    /\ \A k \in 0..1 : lsu_mem[(lsu_read_pointer + k) % 2].valid <=> k < lsu_status_cnt

\* A request belongs to an instruction in flight that is not finished.
Unfinished(r) ==
    /\ r.tid \in InFlight /\ ~mem[r.tid].valid /\ ~mem[r.tid].instr.ex
    /\ mem[r.tid].instr.fu = r.fu /\ mem[r.tid].instr.st = r.st

\* The issue registers hold the youngest instruction; requests wait in program
\* order.
WaitingInv ==
    /\ fu_data \in [fu : {"LOAD", "STORE", "CSR", "NONE"}, st : L!Store, tid : TransId]
    /\ csr_valid \in BOOLEAN /\ ~(lsu_valid /\ csr_valid)
    /\ lsu_valid \/ csr_valid => Unfinished(fu_data) /\ Age(fu_data.tid) = issue_cnt - 1
    /\ lsu_valid => fu_data.fu \in {"LOAD", "STORE"}
    /\ csr_valid => fu_data.fu = "CSR"
    /\ \A k \in 0..Waits-1 : Unfinished(Waiting(k)) /\ Waiting(k).fu \in {"LOAD", "STORE"}
    /\ Waits = 2 => Age(Waiting(0).tid) < Age(Waiting(1).tid)

\* Instruction i is older than every waiting request.
AheadOfWaiting(i) == \A k \in 0..Waits-1 : Age(i) < Age(Waiting(k).tid)

\* Stores finish in program order: finished ones, then the one being posted,
\* then those that wait, and there are no others.
Posting == [fu |-> "STORE", st |-> st_q, tid |-> st_trans_id]
StoresInOrder ==
    /\ st_state \in {"IDLE", "VALID_STORE", "WAIT_STORE_READY"}
    /\ st_q \in L!Store
    /\ speculative_status_cnt + (IF st_state = "VALID_STORE" THEN 1 ELSE 0) <= DEPTH_SPEC
    /\ st_state = "VALID_STORE" =>
           /\ Unfinished(Posting) /\ AheadOfWaiting(st_trans_id)
           /\ \A i \in FinishedStores : Age(i) < Age(st_trans_id)
    /\ \A i \in FinishedStores : AheadOfWaiting(i)
    /\ \A i \in InFlight :
           mem[i].instr.fu = "STORE" /\ ~mem[i].instr.ex /\ ~mem[i].valid =>
               \/ st_state = "VALID_STORE" /\ i = st_trans_id
               \/ \E k \in 0..Waits-1 : i = Waiting(k).tid

\* A load that waits is at the head of the queue, and once it may request memory it
\* matches no pending store.
WaitingLoad ==
    /\ ld_state \in {"IDLE", "WAIT_GNT", "SEND_TAG", "WAIT_PAGE_OFFSET", "WAIT_FLUSH"}
    /\ ld_state \in {"WAIT_GNT", "WAIT_PAGE_OFFSET"} =>
           lsu_status_cnt > 0 /\ Waiting(0).fu = "LOAD"
    /\ ld_state = "WAIT_GNT" =>
           \A s \in L!SU!PossibleMatches : s.addr # Waiting(0).st.addr

\* No store that load i would have to see is anywhere but in memory.
NoStoreAhead(i) ==
    /\ InFlightStores(i) = {}
    /\ \A j \in 0..DEPTH_COMMIT-1 :
           commit_queue[j].valid => commit_queue[j].st.addr # mem[i].instr.st.addr

\* A load on its way from memory: unfinished, older than all that wait.
Served(i, addr) ==
    /\ i \in InFlight /\ ~mem[i].valid /\ ~mem[i].instr.ex
    /\ mem[i].instr.fu = "LOAD" /\ mem[i].instr.st.addr = addr
    /\ AheadOfWaiting(i) /\ NoStoreAhead(i)

\* After a flush the unit is in WAIT_FLUSH for one cycle, in which nothing is in
\* flight and an answer from memory belongs to no one.
LoadsServed ==
    /\ load_data \in TransId /\ load_pipe.tid \in TransId
    /\ ram \in [Addr -> Data] /\ raddr \in Addr
    /\ ld_serve_prev \in BOOLEAN /\ load_pipe.valid \in BOOLEAN
    /\ ld_state = "WAIT_FLUSH" => issue_cnt = 0
    /\ ld_serve_prev /\ ld_state # "WAIT_FLUSH" => Served(load_data, raddr)
    /\ load_pipe.valid /\ ld_state # "WAIT_FLUSH" =>
           /\ Served(load_pipe.tid, mem[load_pipe.tid].instr.st.addr)
           /\ load_pipe.data = ram[mem[load_pipe.tid].instr.st.addr]
           /\ ld_serve_prev => load_pipe.tid # load_data

Inv == /\ Sb!Inv /\ L!SU!BufferInv /\ BypassInv /\ WaitingInv
       /\ StoresInOrder /\ CommitsOwnStore /\ WaitingLoad /\ LoadsServed
=============================================================================
