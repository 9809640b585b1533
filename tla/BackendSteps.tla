---------------------------- MODULE BackendSteps -----------------------------
(***************************************************************************)
(* What one cycle does to the parts of the back end, from a state that     *)
(* satisfies Inv: the ages of the scoreboard's entries, the request queue, *)
(* the stores on their way to the buffer, the loads and the memory.  Each  *)
(* lemma is about one conjunct of Inv or one unit; BackendProofs puts them *)
(* together.                                                               *)
(***************************************************************************)
EXTENDS Backend, TLAPS

-----------------------------------------------------------------------------
(***************************************************************************)
(* The scoreboard.                                                         *)
(***************************************************************************)

\* What the invariant of the scoreboard says of ages.
LEMMA Ages ==
  ASSUME Sb!Inv
  PROVE  /\ mem \in [TransId -> [issued : BOOLEAN, valid : BOOLEAN, instr : Instr \union {ResetInstr}]]
         /\ issue_cnt \in TransId /\ issue_pointer \in TransId
         /\ commit_pointer \in [0..1 -> TransId]
         /\ \A i \in TransId : Age(i) \in 0..NR_ENTRIES-1
         /\ \A i \in TransId : i \in InFlight <=> Age(i) < issue_cnt
         /\ \A i \in TransId : mem[i].valid => i \in InFlight
         /\ \A i, j \in TransId : Age(i) = Age(j) => i = j
         /\ Age(commit_pointer[0]) = 0
         /\ Age(issue_pointer) = issue_cnt
         /\ issue_cnt # 0 => Age(commit_pointer[1]) = 1
  <1> USE EntriesAssumption, CommitPortsAssumption DEF TransId
  <1>1. /\ mem \in [TransId -> [issued : BOOLEAN, valid : BOOLEAN, instr : Instr \union {ResetInstr}]]
        /\ issue_cnt \in TransId /\ issue_pointer \in TransId
        /\ commit_pointer \in [0..1 -> TransId]
    BY DEF Sb!Inv, Sb!TypeOK, Sb!Id, Sb!Port, Sb!Entry
  <1>2. commit_pointer[0] \in TransId /\ commit_pointer[1] \in TransId
    BY <1>1
  <1>3. \A i \in TransId : Age(i) \in 0..NR_ENTRIES-1
    BY <1>2 DEF Age, Sb!Dist
  <1>4. \A i \in TransId : i \in InFlight <=> Age(i) < issue_cnt
    BY DEF Sb!Inv, Sb!IssueWindow, Sb!Id, InFlight, Age
  <1>5. \A i \in TransId : mem[i].valid => i \in InFlight
    BY DEF Sb!Inv, Sb!IssueWindow, Sb!Id, InFlight
  <1>6. \A i, j \in TransId : Age(i) = Age(j) => i = j
    BY <1>2 DEF Age, Sb!Dist
  <1>7. Age(commit_pointer[0]) = 0
    BY <1>2 DEF Age, Sb!Dist
  <1>8. Age(issue_pointer) = issue_cnt
    <2>1. issue_pointer = Sb!Wrap(commit_pointer[0], issue_cnt, NR_ENTRIES)
      BY DEF Sb!Inv, Sb!IssueWindow
    <2> QED BY <2>1, <1>1, <1>2 DEF Age, Sb!Dist, Sb!Wrap
  <1>9. issue_cnt # 0 => Age(commit_pointer[1]) = 1
    <2>1. issue_cnt # 0 => commit_pointer[1] = Sb!Wrap(commit_pointer[0], 1, NR_ENTRIES)
      BY DEF Sb!Inv, Sb!PortsConsecutive, Sb!Port
    <2> QED BY <2>1, <1>2 DEF Age, Sb!Dist, Sb!Wrap
  <1> QED BY <1>1, <1>3, <1>4, <1>5, <1>6, <1>7, <1>8, <1>9

\* The commit stage acknowledges finished instructions only, and a retiring
\* store excludes a flush.
LEMMA CommitStage ==
  ASSUME NEW w \in BOOLEAN
  PROVE  /\ num_commit(w) \in 0..2
         /\ Sb!commit_ack_valid(num_commit(w))
         /\ num_commit(w) >= 1 => mem[commit_pointer[0]].valid
         /\ num_commit(w) = 2 => /\ mem[commit_pointer[1]].valid
                                 /\ mem[commit_pointer[1]].instr.fu = "LOAD"
         /\ num_commit(w) >= 1 /\ Oldest.fu = "STORE" => commit_lsu
         /\ commit_lsu => /\ num_commit(w) >= 1 /\ ~flush(w)
                          /\ mem[commit_pointer[0]].valid /\ ~Oldest.ex /\ Oldest.fu = "STORE"
                          /\ commit_status_cnt < DEPTH_COMMIT
         /\ flush(w) \in BOOLEAN /\ commit_lsu \in BOOLEAN
  <1>1. num_commit(w) \in 0..2
    BY DEF num_commit
  <1>2. num_commit(w) >= 1 => commit_ack0(w)
    BY DEF num_commit, commit_ack1
  <1>3. num_commit(w) = 2 => commit_ack1(w)
    BY DEF num_commit
  <1>4. commit_ack0(w) => num_commit(w) >= 1
    BY DEF num_commit
  <1>5. Sb!commit_ack_valid(num_commit(w))
    <2>1. \A k \in 0..num_commit(w)-1 : (k = 0 /\ num_commit(w) >= 1) \/ (k = 1 /\ num_commit(w) = 2)
      BY <1>1
    <2> QED BY <2>1, <1>2, <1>3 DEF Sb!commit_ack_valid, commit_ack0, commit_ack1, Retirable
  <1>6. commit_lsu => commit_ack0(w) /\ ~flush(w)
    BY DEF commit_lsu, commit_ack0, flush, exception_valid, Retirable
  <1> QED BY <1>1, <1>2, <1>3, <1>4, <1>5, <1>6
          DEF commit_ack0, commit_ack1, commit_lsu, Retirable, Oldest, flush, exception_valid,
              Sb!commit_instr_valid, Sb!commit_instr, L!SU!commit_ready_o

\* Units write back to entries of the scoreboard.
LEMMA WriteBackIds ==
  ASSUME Inv
  PROVE  wb_ids \in SUBSET TransId
  BY DEF Inv, LoadsServed, WaitingInv, StoresInOrder, Unfinished, Posting, InFlight, wb_ids,
         L!load_valid_o, L!store_valid_o, L!store_trans_id_o, L!SU!valid_o

\* One cycle seen by the instructions in flight: a flush drops them all;
\* otherwise the num_commit oldest leave, the others keep their instruction,
\* finish when they are written back, and grow older by num_commit.
ScoreboardStep(issue, instr, w) ==
  /\ Sb!Inv'
  /\ num_commit(w) <= issue_cnt
  /\ flush(w) => issue_cnt' = 0
  /\ ~flush(w) =>
       /\ issue_cnt' = issue_cnt - num_commit(w) + (IF issue THEN 1 ELSE 0)
       /\ \A i \in TransId :
            i \in InFlight' <=> /\ i \in InFlight \/ (issue /\ i = issue_pointer)
                                /\ Age(i) >= num_commit(w)
       /\ \A i \in TransId : Age(i) >= num_commit(w) => Age(i)' = Age(i) - num_commit(w)
       /\ \A i \in InFlight : Age(i) >= num_commit(w) =>
            /\ mem'[i].instr = mem[i].instr
            /\ mem'[i].valid <=> mem[i].valid \/ i \in wb_ids
       /\ issue => /\ mem'[issue_pointer].instr = instr
                   /\ mem'[issue_pointer].valid <=> instr.ex

\* An instruction that is not finished does not leave, unless all are flushed.
LEMMA Survives ==
  ASSUME Inv, NEW issue \in BOOLEAN, NEW instr \in Instr, NEW w \in BOOLEAN,
         Cycle(issue, instr, w), ScoreboardStep(issue, instr, w), ~flush(w),
         NEW i \in InFlight, ~mem[i].valid
  PROVE  /\ i \in TransId /\ i \in InFlight'
         /\ Age(i) >= num_commit(w) /\ Age(i)' = Age(i) - num_commit(w)
         /\ mem'[i].instr = mem[i].instr
         /\ mem'[i].valid <=> i \in wb_ids
  <1>a. Sb!Inv
    BY DEF Inv
  <1>1. i \in TransId
    BY DEF InFlight
  <1>2. Age(i) >= num_commit(w)
    <2>1. Age(i) \in Nat /\ Age(i) < issue_cnt /\ issue_cnt \in Nat
      BY <1>a, <1>1, Ages, EntriesAssumption DEF TransId
    <2>2. /\ num_commit(w) \in 0..2
          /\ num_commit(w) >= 1 => mem[commit_pointer[0]].valid
          /\ num_commit(w) = 2 => mem[commit_pointer[1]].valid
      BY CommitStage
    <2>3. commit_pointer[0] \in TransId /\ commit_pointer[1] \in TransId
      BY <1>a, Ages
    <2>4. Age(commit_pointer[0]) = 0 /\ Age(commit_pointer[1]) = 1
      BY <1>a, Ages, <2>1
    <2>5. num_commit(w) >= 1 => i # commit_pointer[0]
      BY <2>2
    <2>6. num_commit(w) = 2 => i # commit_pointer[1]
      BY <2>2
    <2>7. \A j \in TransId : Age(i) = Age(j) => i = j
      BY <1>a, <1>1, Ages
    <2> QED BY <2>1, <2>2, <2>3, <2>4, <2>5, <2>6, <2>7
  <1> QED BY <1>1, <1>2 DEF ScoreboardStep

-----------------------------------------------------------------------------
(***************************************************************************)
(* The request queue.                                                      *)
(***************************************************************************)

\* The units see the oldest waiting request; at most one of them takes it.
LEMMA HeadOfQueue ==
  ASSUME Inv
  PROVE  /\ Waits \in 0..2
         /\ ctrl.valid <=> Waits > 0
         /\ Waits > 0 => ctrl.req = Waiting(0) /\ ctrl.req.fu \in {"LOAD", "STORE"}
         /\ L!ld_data_req(ctrl) => ctrl.valid /\ ctrl.req.fu = "LOAD"
         /\ L!pop_ld(ctrl) => L!ld_data_req(ctrl)
         /\ \A c \in BOOLEAN : L!pop_st(ctrl, c) => ctrl.valid /\ ctrl.req.fu = "STORE"
  <1>1. Waits \in 0..2
    BY DEF Inv, BypassInv, Waits
  <1>2. ctrl.valid <=> Waits > 0
    <2>1. CASE lsu_status_cnt = 0
      BY <2>1 DEF ctrl, L!lsu_ctrl, Waits, Inv, BypassInv
    <2>2. CASE lsu_status_cnt # 0
      <3>1. lsu_mem[(lsu_read_pointer + 0) % 2].valid
        BY <2>2 DEF Inv, BypassInv
      <3>2. (lsu_read_pointer + 0) % 2 = lsu_read_pointer
        BY DEF Inv, BypassInv
      <3> QED BY <2>2, <3>1, <3>2 DEF ctrl, L!lsu_ctrl, Waits, Inv, BypassInv
    <2> QED BY <2>1, <2>2
  <1>3. ASSUME Waits > 0 PROVE ctrl.req = Waiting(0)
    <2>1. CASE lsu_status_cnt = 0
      BY <2>1, <1>3 DEF ctrl, L!lsu_ctrl, Waits, Waiting, lsu_req
    <2>2. CASE lsu_status_cnt # 0
      <3>1. (lsu_read_pointer + 0) % 2 = lsu_read_pointer /\ 0 < lsu_status_cnt
        BY <2>2 DEF Inv, BypassInv
      <3> QED BY <2>2, <3>1 DEF ctrl, L!lsu_ctrl, Waiting
    <2> QED BY <2>1, <2>2
  <1>4. ASSUME Waits > 0 PROVE Waiting(0).fu \in {"LOAD", "STORE"}
    BY <1>1, <1>4 DEF Inv, WaitingInv
  <1>5. ASSUME L!ld_data_req(ctrl) PROVE ctrl.valid /\ ctrl.req.fu = "LOAD"
    <2>1. CASE ld_state = "WAIT_GNT"
      <3>1. Waits > 0 /\ Waiting(0).fu = "LOAD"
        BY <2>1 DEF Inv, WaitingLoad, BypassInv, Waits
      <3> QED BY <3>1, <1>2, <1>3
    <2>2. CASE ld_state # "WAIT_GNT"
      BY <2>2, <1>5 DEF L!ld_data_req, L!LU!data_req, L!ld_valid_i
    <2> QED BY <2>1, <2>2
  <1>6. L!pop_ld(ctrl) => L!ld_data_req(ctrl)
    BY DEF L!pop_ld, L!LU!pop_ld_o, L!ld_data_req
  <1>7. \A c \in BOOLEAN : L!pop_st(ctrl, c) => ctrl.valid /\ ctrl.req.fu = "STORE"
    BY DEF L!pop_st, L!SU!pop_st_o, L!st_valid_i
  <1> QED BY <1>1, <1>2, <1>3, <1>4, <1>5, <1>6, <1>7

\* The number of requests that leave the queue in this cycle.
Pops == IF L!pop_ld(ctrl) \/ L!pop_st(ctrl, commit_lsu) THEN 1 ELSE 0

\* The registers of the queue after a cycle without flush: the issued request
\* is written behind the others, the oldest is invalidated when it is taken.
LEMMA QueueRegisters ==
  ASSUME Inv, NEW issue \in BOOLEAN, NEW instr \in Instr, NEW w \in BOOLEAN,
         Cycle(issue, instr, w), ~flush(w)
  PROVE  LET pushed == IF lsu_valid
                       THEN [lsu_mem EXCEPT ![lsu_write_pointer] = [valid |-> TRUE, req |-> fu_data]]
                       ELSE lsu_mem
         IN  /\ Pops <= Waits
             /\ lsu_mem' = IF Pops = 1 THEN [pushed EXCEPT ![lsu_read_pointer].valid = FALSE]
                                       ELSE pushed
             /\ lsu_write_pointer' = (lsu_write_pointer + (IF lsu_valid THEN 1 ELSE 0)) % 2
             /\ lsu_read_pointer' = (lsu_read_pointer + Pops) % 2
             /\ lsu_status_cnt' = Waits - Pops
  <1>1. L!Bypass(lsu_valid, lsu_req, L!pop_ld(ctrl), L!pop_st(ctrl, commit_lsu), flush(w))
    BY DEF Cycle, L!Latch, ctrl
  <1>2. /\ Waits \in 0..2
        /\ ctrl.valid <=> Waits > 0
        /\ L!pop_ld(ctrl) => ctrl.valid /\ ctrl.req.fu = "LOAD"
        /\ L!pop_st(ctrl, commit_lsu) => ctrl.valid /\ ctrl.req.fu = "STORE"
    BY HeadOfQueue, CommitStage
  <1>3. ~(L!pop_ld(ctrl) /\ L!pop_st(ctrl, commit_lsu)) /\ Pops <= Waits
    BY <1>2 DEF Pops
  <1>4. lsu_status_cnt \in 0..2 /\ lsu_valid \in BOOLEAN
    BY DEF Inv, BypassInv
  <1>5. lsu_valid => lsu_req = fu_data
    BY DEF lsu_req
  <1>6. lsu_status_cnt' = (lsu_status_cnt + (IF lsu_valid THEN 1 ELSE 0) - Pops) % 4
    BY <1>1, <1>3 DEF L!Bypass, Pops
  <1>7. lsu_status_cnt' = Waits - Pops
    <2>1. Waits - Pops \in 0..2
      BY <1>2, <1>3 DEF Pops
    <2> QED BY <1>4, <1>6, <2>1 DEF Waits, Pops
  <1>8. /\ lsu_write_pointer' = (lsu_write_pointer + (IF lsu_valid THEN 1 ELSE 0)) % 2
        /\ lsu_read_pointer' = (lsu_read_pointer + Pops) % 2
    BY <1>1, <1>3 DEF L!Bypass, Pops
  <1> DEFINE pushed == IF lsu_valid
                       THEN [lsu_mem EXCEPT ![lsu_write_pointer] = [valid |-> TRUE, req |-> fu_data]]
                       ELSE lsu_mem
  <1>9. lsu_mem' = IF Pops = 1 THEN [pushed EXCEPT ![lsu_read_pointer].valid = FALSE] ELSE pushed
    <2>1. Pops = 1 <=> L!pop_ld(ctrl) \/ L!pop_st(ctrl, commit_lsu)
      BY DEF Pops
    <2>2. CASE lsu_valid
      BY <1>1, <1>3, <1>5, <2>1, <2>2 DEF L!Bypass
    <2>3. CASE ~lsu_valid
      BY <1>1, <1>3, <2>1, <2>3 DEF L!Bypass
    <2> QED BY <2>2, <2>3, Zenon
  <1> QED BY <1>3, <1>7, <1>8, <1>9

\* The waiting requests form a queue: a cycle takes the oldest or none, and
\* appends the one that was issued; the queue of two has room for it.
LEMMA QueueStep ==
  ASSUME Inv, NEW issue \in BOOLEAN, NEW instr \in Instr, NEW w \in BOOLEAN,
         Cycle(issue, instr, w), ~flush(w)
  PROVE  /\ BypassInv'
         /\ Pops \in 0..1 /\ Pops <= Waits
         /\ lsu_status_cnt' = Waits - Pops
         /\ Waits' = Waits - Pops + (IF lsu_valid' THEN 1 ELSE 0)
         /\ \A k \in 0..Waits'-1 :
              Waiting(k)' = IF k + Pops < Waits THEN Waiting(k + Pops) ELSE fu_data'
  <1> DEFINE pushed == IF lsu_valid
                       THEN [lsu_mem EXCEPT ![lsu_write_pointer] = [valid |-> TRUE, req |-> fu_data]]
                       ELSE lsu_mem
             Q == L!Req \union {L!NoReq}
  <1>1. /\ Pops <= Waits
        /\ lsu_mem' = IF Pops = 1 THEN [pushed EXCEPT ![lsu_read_pointer].valid = FALSE]
                                  ELSE pushed
        /\ lsu_write_pointer' = (lsu_write_pointer + (IF lsu_valid THEN 1 ELSE 0)) % 2
        /\ lsu_read_pointer' = (lsu_read_pointer + Pops) % 2
        /\ lsu_status_cnt' = Waits - Pops
    BY QueueRegisters, Zenon
  <1>2. /\ lsu_mem \in [0..1 -> [valid : BOOLEAN, req : Q]]
        /\ lsu_read_pointer \in 0..1 /\ lsu_write_pointer \in 0..1 /\ lsu_status_cnt \in 0..2
        /\ lsu_valid \in BOOLEAN /\ Waits <= 2
        /\ lsu_write_pointer = (lsu_read_pointer + lsu_status_cnt) % 2
        /\ \A k \in 0..1 : lsu_mem[(lsu_read_pointer + k) % 2].valid <=> k < lsu_status_cnt
    BY DEF Inv, BypassInv
  <1>3. lsu_valid => fu_data \in Q
    BY DEF Inv, WaitingInv, L!Req
  <1>4. Pops \in 0..1 /\ Waits = lsu_status_cnt + (IF lsu_valid THEN 1 ELSE 0)
    BY DEF Pops, Waits
  <1>5. /\ lsu_valid' \in BOOLEAN
        /\ lsu_valid' => lsu_status_cnt = 0
    BY Zenon DEF Cycle, IssueRegs, issue_ack, L!lsu_ready_o
  <1>6. Waits' = Waits - Pops + (IF lsu_valid' THEN 1 ELSE 0)
    BY <1>1 DEF Waits
  <1> HIDE DEF Q
  <1>7. pushed \in [0..1 -> [valid : BOOLEAN, req : Q]]
    BY <1>2, <1>3
  <1>8. lsu_mem' \in [0..1 -> [valid : BOOLEAN, req : Q]]
    <2>1. CASE Pops = 1
      <3>1. lsu_mem' = [pushed EXCEPT ![lsu_read_pointer].valid = FALSE]
        BY <1>1, <2>1
      <3> HIDE DEF pushed
      <3> QED BY <3>1, <1>2, <1>7, Zenon
    <2>2. CASE Pops # 1
      BY <1>1, <1>7, <2>2
    <2> QED BY <2>1, <2>2
  <1>9. /\ \A i \in 0..1 : lsu_mem'[i].valid <=> pushed[i].valid /\ ~(Pops = 1 /\ i = lsu_read_pointer)
        /\ \A i \in 0..1 : lsu_mem'[i].req = pushed[i].req
    BY <1>1, <1>2, <1>7
  <1>10. /\ \A i \in 0..1 : pushed[i].valid <=> lsu_mem[i].valid \/ (lsu_valid /\ i = lsu_write_pointer)
         /\ \A i \in 0..1 : pushed[i].req = IF lsu_valid /\ i = lsu_write_pointer THEN fu_data
                                                                                 ELSE lsu_mem[i].req
    BY <1>2
  <1> HIDE DEF pushed
  <1>11. /\ \A i \in 0..1 : lsu_mem'[i].valid <=> /\ lsu_mem[i].valid \/ (lsu_valid /\ i = lsu_write_pointer)
                                                  /\ ~(Pops = 1 /\ i = lsu_read_pointer)
         /\ \A i \in 0..1 : lsu_mem'[i].req = IF lsu_valid /\ i = lsu_write_pointer THEN fu_data
                                                                                  ELSE lsu_mem[i].req
    BY <1>9, <1>10
  <1>12. /\ lsu_read_pointer' \in 0..1 /\ lsu_write_pointer' \in 0..1
         /\ lsu_write_pointer' = (lsu_read_pointer' + lsu_status_cnt') % 2
    BY <1>1, <1>2, <1>4
  <1>13. \A k \in 0..1 : lsu_mem'[(lsu_read_pointer' + k) % 2].valid <=> k < lsu_status_cnt'
    BY <1>1, <1>2, <1>4, <1>11
  <1>14. BypassInv'
    <2>1. lsu_status_cnt' \in 0..2 /\ Waits' <= 2
      BY <1>1, <1>2, <1>4, <1>5, <1>6
    <2> QED BY <2>1, <1>5, <1>8, <1>12, <1>13, Zenon DEF BypassInv, Q
  <1>15. ASSUME NEW k \in 0..Waits'-1
         PROVE  Waiting(k)' = IF k + Pops < Waits THEN Waiting(k + Pops) ELSE fu_data'
    <2>1. k \in 0..1 /\ k + Pops \in 0..2
      BY <1>1, <1>2, <1>4, <1>5, <1>6
    <2>2. k < lsu_status_cnt' <=> k + Pops < Waits
      BY <1>1, <1>2, <1>4, <2>1
    <2>3. Waiting(k)' = IF k < lsu_status_cnt' THEN lsu_mem'[(lsu_read_pointer' + k) % 2].req
                                               ELSE fu_data'
      BY DEF Waiting
    <2>4. CASE k + Pops < Waits
      <3> DEFINE i == (lsu_read_pointer' + k) % 2
      <3>1. i = (lsu_read_pointer + (k + Pops)) % 2 /\ i \in 0..1
        <4>1. CASE Pops = 0
          BY <4>1, <1>1, <1>2, <2>1
        <4>2. CASE Pops = 1
          <5>1. k = 0
            BY <4>2, <2>1, <2>4, <1>2, <1>4
          <5> QED BY <4>2, <5>1, <1>1, <1>2
        <4> QED BY <4>1, <4>2, <1>4
      <3>2. k + Pops < lsu_status_cnt => ~(lsu_valid /\ i = lsu_write_pointer)
        BY <3>1, <1>2, <1>4, <2>1
      <3>3. ~(k + Pops < lsu_status_cnt) => (lsu_valid /\ i = lsu_write_pointer)
        BY <3>1, <2>4, <1>2, <1>4, <2>1
      <3>4. lsu_mem'[i].req = IF k + Pops < lsu_status_cnt THEN lsu_mem[i].req ELSE fu_data
        BY <3>1, <3>2, <3>3, <1>11
      <3> QED BY <3>1, <3>4, <2>2, <2>3, <2>4 DEF Waiting
    <2> QED BY <2>2, <2>3, <2>4
  <1> QED BY <1>1, <1>4, <1>6, <1>14, <1>15

-----------------------------------------------------------------------------
(***************************************************************************)
(* Instructions that wait.                                                 *)
(***************************************************************************)

\* No unit writes back an instruction whose request still waits.
LEMMA WaitingNotWritten ==
  ASSUME Inv, NEW k \in 0..Waits-1
  PROVE  Waiting(k).tid \notin wb_ids
  <1> DEFINE i == Waiting(k).tid
  <1>1. i \in InFlight /\ mem[i].instr.fu \in {"LOAD", "STORE"}
    BY DEF Inv, WaitingInv, Unfinished
  <1>2. load_pipe.valid => i # load_pipe.tid
    <2>1. issue_cnt # 0
      BY <1>1, Ages DEF Inv, InFlight, TransId
    <2>2. load_pipe.valid => load_pipe.tid \in TransId /\ Age(load_pipe.tid) < Age(i)
      BY <2>1 DEF Inv, LoadsServed, Served, AheadOfWaiting
    <2>3. \A j \in TransId : Age(j) \in Int
      BY Ages, EntriesAssumption DEF Inv
    <2> QED BY <2>2, <2>3
  <1>3. st_state = "VALID_STORE" => i # st_trans_id
    <2>1. st_state = "VALID_STORE" => st_trans_id \in TransId /\ Age(st_trans_id) < Age(i)
      BY DEF Inv, StoresInOrder, AheadOfWaiting, Unfinished, Posting, InFlight
    <2>2. \A j \in TransId : Age(j) \in Int
      BY Ages, EntriesAssumption DEF Inv
    <2> QED BY <2>1, <2>2
  <1>4. csr_valid => i # fu_data.tid
    BY <1>1 DEF Inv, WaitingInv, Unfinished
  <1> QED BY <1>2, <1>3, <1>4
          DEF wb_ids, L!load_valid_o, L!store_valid_o, L!store_trans_id_o, L!SU!valid_o

\* An instruction that is issued to a unit is the youngest one.
LEMMA IssuedYoungest ==
  ASSUME Inv, NEW issue \in BOOLEAN, NEW instr \in Instr, NEW w \in BOOLEAN,
         Cycle(issue, instr, w), ScoreboardStep(issue, instr, w), ~flush(w)
  PROVE  /\ fu_data' \in [fu : {"LOAD", "STORE", "CSR", "NONE"}, st : L!Store, tid : TransId]
         /\ csr_valid' \in BOOLEAN /\ lsu_valid' \in BOOLEAN /\ ~(lsu_valid' /\ csr_valid')
         /\ lsu_valid' \/ csr_valid' =>
              /\ Unfinished(fu_data)' /\ Age(fu_data.tid)' = issue_cnt - num_commit(w)
              /\ issue_cnt' = issue_cnt - num_commit(w) + 1
         /\ lsu_valid' => fu_data'.fu \in {"LOAD", "STORE"}
         /\ csr_valid' => fu_data'.fu = "CSR"
  <1> DEFINE start == issue /\ ~instr.ex
             isLsu == instr.fu \in {"LOAD", "STORE"}
  <1>1. /\ lsu_valid' <=> start /\ isLsu
        /\ csr_valid' <=> start /\ ~isLsu
        /\ lsu_valid' \in BOOLEAN /\ csr_valid' \in BOOLEAN
        /\ fu_data' = IF start THEN [fu |-> instr.fu, st |-> instr.st, tid |-> issue_pointer]
                               ELSE L!NoReq
    BY Zenon DEF Cycle, IssueRegs
  <1>2. instr.fu \in {"LOAD", "STORE", "CSR"} /\ instr.st \in L!Store /\ instr.ex \in BOOLEAN
    BY InstrsAssumption DEF L!Store, TransId
  <1>a. Sb!Inv
    BY DEF Inv
  <1>3. issue_pointer \in TransId /\ Age(issue_pointer) = issue_cnt /\ issue_cnt \in Nat
    BY <1>a, Ages DEF TransId
  <1>4. fu_data' \in [fu : {"LOAD", "STORE", "CSR", "NONE"}, st : L!Store, tid : TransId]
    <2>1. L!NoReq \in [fu : {"LOAD", "STORE", "CSR", "NONE"}, st : L!Store, tid : TransId]
      BY InstrsAssumption, EntriesAssumption DEF L!NoReq, L!Store, TransId
    <2>2. [fu |-> instr.fu, st |-> instr.st, tid |-> issue_pointer]
             \in [fu : {"LOAD", "STORE", "CSR", "NONE"}, st : L!Store, tid : TransId]
      BY <1>2, <1>3
    <2> QED BY <1>1, <2>1, <2>2
  <1>5. ASSUME start
        PROVE  /\ Unfinished(fu_data)' /\ Age(fu_data.tid)' = issue_cnt - num_commit(w)
               /\ issue_cnt' = issue_cnt - num_commit(w) + 1
    <2>1. PICK t \in TransId : t = issue_pointer
      BY <1>3
    <2>2. fu_data'.tid = t /\ fu_data'.fu = instr.fu /\ fu_data'.st = instr.st
      BY <1>1, <1>5, <2>1
    <2>3. num_commit(w) <= issue_cnt /\ num_commit(w) \in Nat
      BY CommitStage DEF ScoreboardStep
    <2>4. t \in InFlight' /\ Age(t)' = issue_cnt - num_commit(w)
      BY <1>5, <1>3, <2>1, <2>3 DEF ScoreboardStep
    <2>5. mem'[t].instr = instr /\ ~mem'[t].valid
      BY <1>5, <2>1 DEF ScoreboardStep
    <2>6. issue_cnt' = issue_cnt - num_commit(w) + 1
      BY <1>5 DEF ScoreboardStep
    <2> QED BY <1>5, <2>2, <2>4, <2>5, <2>6 DEF Unfinished, Age
  <1> QED BY <1>1, <1>2, <1>4, <1>5

\* The waiting requests after a cycle: where they come from, and their ages.
LEMMA NextWaiting ==
  ASSUME Inv, NEW issue \in BOOLEAN, NEW instr \in Instr, NEW w \in BOOLEAN,
         Cycle(issue, instr, w), ScoreboardStep(issue, instr, w), ~flush(w),
         NEW k \in 0..Waits'-1
  PROVE  /\ Waiting(k).tid' \in TransId
         /\ Unfinished(Waiting(k))' /\ Waiting(k)'.fu \in {"LOAD", "STORE"}
         /\ k + Pops < Waits =>
              /\ k + Pops \in 0..Waits-1
              /\ Waiting(k)' = Waiting(k + Pops)
              /\ Age(Waiting(k).tid)' = Age(Waiting(k + Pops).tid) - num_commit(w)
         /\ ~(k + Pops < Waits) =>
              /\ Waiting(k)' = fu_data' /\ lsu_valid' /\ issue
              /\ Age(Waiting(k).tid)' = issue_cnt - num_commit(w)
  <1>1. /\ Pops \in 0..1 /\ Pops <= Waits /\ Waits \in 0..2
        /\ Waits' = Waits - Pops + (IF lsu_valid' THEN 1 ELSE 0)
        /\ Waiting(k)' = IF k + Pops < Waits THEN Waiting(k + Pops) ELSE fu_data'
    BY QueueStep, HeadOfQueue
  <1>2. CASE k + Pops < Waits
    <2>1. k + Pops \in 0..Waits-1
      BY <1>1, <1>2
    <2>2. PICK r : r = Waiting(k + Pops)
      OBVIOUS
    <2>3. /\ r.tid \in InFlight /\ ~mem[r.tid].valid /\ ~mem[r.tid].instr.ex
          /\ mem[r.tid].instr.fu = r.fu /\ mem[r.tid].instr.st = r.st
          /\ r.fu \in {"LOAD", "STORE"}
      BY <2>1, <2>2 DEF Inv, WaitingInv, Unfinished
    <2>4. r.tid \notin wb_ids
      BY <2>1, <2>2, WaitingNotWritten
    <2>5. /\ r.tid \in TransId /\ r.tid \in InFlight'
          /\ Age(r.tid)' = Age(r.tid) - num_commit(w)
          /\ mem'[r.tid].instr = mem[r.tid].instr /\ ~mem'[r.tid].valid
      BY <2>3, <2>4, Survives
    <2>6. Waiting(k)' = r
      BY <1>1, <1>2, <2>2
    <2> QED BY <1>2, <2>1, <2>2, <2>3, <2>5, <2>6 DEF Unfinished, Age
  <1>3. CASE ~(k + Pops < Waits)
    <2>1. lsu_valid' /\ Waiting(k)' = fu_data'
      BY <1>1, <1>3
    <2>2. issue
      BY <2>1 DEF Cycle, IssueRegs
    <2>3. /\ Unfinished(fu_data)' /\ Age(fu_data.tid)' = issue_cnt - num_commit(w)
          /\ fu_data'.fu \in {"LOAD", "STORE"} /\ fu_data'.tid \in TransId
      BY <2>1, IssuedYoungest
    <2> QED BY <1>3, <2>1, <2>2, <2>3 DEF Unfinished, Age
  <1> QED BY <1>2, <1>3

\* Requests keep waiting in program order.
LEMMA WaitingStep ==
  ASSUME Inv, NEW issue \in BOOLEAN, NEW instr \in Instr, NEW w \in BOOLEAN,
         Cycle(issue, instr, w), ScoreboardStep(issue, instr, w), ~flush(w)
  PROVE  WaitingInv'
  <1>1. \A k \in 0..Waits'-1 : Unfinished(Waiting(k))' /\ Waiting(k)'.fu \in {"LOAD", "STORE"}
    BY NextWaiting
  <1>2. issue_cnt \in Int /\ num_commit(w) \in Int
    BY Ages, CommitStage DEF Inv, TransId
  <1>3. lsu_valid' \/ csr_valid' => Unfinished(fu_data)' /\ Age(fu_data.tid)' = issue_cnt' - 1
    BY <1>2, IssuedYoungest
  <1>4. ASSUME Waits' = 2 PROVE Age(Waiting(0).tid)' < Age(Waiting(1).tid)'
    <2> USE <1>4
    <2>1. 0 \in 0..Waits'-1 /\ 1 \in 0..Waits'-1 /\ Waits \in 0..2 /\ Pops \in 0..1
      BY HeadOfQueue, QueueStep
    <2>2. \A k \in 0..Waits-1 : /\ Age(Waiting(k).tid) \in Int
                                /\ Age(Waiting(k).tid) < issue_cnt
      <3>1. \A k \in 0..Waits-1 : Waiting(k).tid \in InFlight
        BY DEF Inv, WaitingInv, Unfinished
      <3> QED BY <3>1, Ages, EntriesAssumption DEF Inv, InFlight
    <2>3. CASE 1 + Pops < Waits
      <3>1. Pops = 0 /\ Waits = 2
        BY <2>1, <2>3
      <3>2. Age(Waiting(0).tid) < Age(Waiting(1).tid)
        BY <3>1 DEF Inv, WaitingInv
      <3>3. /\ Age(Waiting(0).tid)' = Age(Waiting(0 + Pops).tid) - num_commit(w)
            /\ Age(Waiting(1).tid)' = Age(Waiting(1 + Pops).tid) - num_commit(w)
        BY <2>1, <2>3, <3>1, NextWaiting
      <3>4. 0 + Pops = 0 /\ 1 + Pops = 1 /\ 0 \in 0..Waits-1 /\ 1 \in 0..Waits-1
        BY <3>1
      <3> QED BY <3>2, <3>3, <3>4, <2>2, <1>2
    <2>4. CASE ~(1 + Pops < Waits)
      <3>1. Age(Waiting(1).tid)' = issue_cnt - num_commit(w)
        BY <2>1, <2>4, NextWaiting
      <3>2. 0 + Pops < Waits /\ 0 + Pops \in 0..Waits-1
        <4>1. Waits' = Waits - Pops + (IF lsu_valid' THEN 1 ELSE 0)
          BY QueueStep
        <4> QED BY <4>1, <2>1
      <3>3. Age(Waiting(0).tid)' = Age(Waiting(0 + Pops).tid) - num_commit(w)
        BY <2>1, <3>2, NextWaiting
      <3> QED BY <3>1, <3>2, <3>3, <2>2, <1>2
    <2> QED BY <2>3, <2>4
  <1> QED BY <1>1, <1>3, <1>4, IssuedYoungest DEF WaitingInv

\* What is ahead of the waiting requests stays ahead of them, and a request
\* that is taken is then ahead of the others.
LEMMA AheadStep ==
  ASSUME Inv, NEW issue \in BOOLEAN, NEW instr \in Instr, NEW w \in BOOLEAN,
         Cycle(issue, instr, w), ScoreboardStep(issue, instr, w), ~flush(w),
         NEW i \in InFlight, Age(i) >= num_commit(w),
         AheadOfWaiting(i) \/ (Pops = 1 /\ i = Waiting(0).tid)
  PROVE  AheadOfWaiting(i)'
  <1> SUFFICES ASSUME NEW k \in 0..Waits'-1
               PROVE  Age(i)' < Age(Waiting(k).tid)'
    BY DEF AheadOfWaiting
  <1>1. issue_cnt \in Int /\ num_commit(w) \in Int /\ Age(i) \in Int /\ Age(i) < issue_cnt
    BY Ages, CommitStage, EntriesAssumption DEF Inv, TransId, InFlight
  <1>2. Age(i)' = Age(i) - num_commit(w)
    BY DEF ScoreboardStep, InFlight
  <1>3. CASE k + Pops < Waits
    <2>1. /\ k + Pops \in 0..Waits-1
          /\ Age(Waiting(k).tid)' = Age(Waiting(k + Pops).tid) - num_commit(w)
      BY <1>3, NextWaiting
    <2>2. Waiting(k + Pops).tid \in TransId /\ Age(Waiting(k + Pops).tid) \in Int
      <3>1. Waiting(k + Pops).tid \in InFlight
        BY <2>1, Zenon DEF Inv, WaitingInv, Unfinished
      <3> QED BY <3>1, Ages, EntriesAssumption DEF Inv, InFlight
    <2>3. Age(i) < Age(Waiting(k + Pops).tid)
      <3>1. CASE AheadOfWaiting(i)
        BY <2>1, <3>1 DEF AheadOfWaiting
      <3>2. CASE Pops = 1 /\ i = Waiting(0).tid
        <4>1. Waits \in 0..2
          BY HeadOfQueue
        <4>2. k + Pops = 1 /\ Waits = 2
          BY <4>1, <2>1, <3>2
        <4> QED BY <3>2, <4>2 DEF Inv, WaitingInv
      <3> QED BY <3>1, <3>2
    <2> QED BY <1>1, <1>2, <2>1, <2>2, <2>3
  <1>4. CASE ~(k + Pops < Waits)
    <2>1. Age(Waiting(k).tid)' = issue_cnt - num_commit(w)
      BY <1>4, NextWaiting
    <2> QED BY <1>1, <1>2, <2>1
  <1> QED BY <1>3, <1>4

\* A flush empties the request queue and the issue registers.
LEMMA FlushStep ==
  ASSUME Inv, NEW issue \in BOOLEAN, NEW instr \in Instr, NEW w \in BOOLEAN,
         Cycle(issue, instr, w), ScoreboardStep(issue, instr, w), flush(w)
  PROVE  /\ BypassInv' /\ WaitingInv'
         /\ Waits' = 0 /\ InFlight' = {} /\ lsu_valid' = FALSE
  <1>1. L!Bypass(lsu_valid, lsu_req, L!pop_ld(ctrl), L!pop_st(ctrl, commit_lsu), flush(w))
    BY DEF Cycle, L!Latch, ctrl
  <1>2. /\ lsu_mem' = [i \in 0..1 |-> [valid |-> FALSE, req |-> L!NoReq]]
        /\ lsu_write_pointer' = 0 /\ lsu_read_pointer' = 0 /\ lsu_status_cnt' = 0
    BY <1>1, Zenon DEF L!Bypass
  <1>3. lsu_valid' = FALSE /\ csr_valid' = FALSE /\ fu_data' = L!NoReq
    BY Zenon DEF Cycle, IssueRegs
  <1>4. Waits' = 0
    BY <1>2, <1>3 DEF Waits
  <1>5. BypassInv'
    <2>1. lsu_mem' \in [0..1 -> [valid : BOOLEAN, req : L!Req \union {L!NoReq}]]
      BY <1>2
    <2>2. \A k \in 0..1 : /\ lsu_mem'[(lsu_read_pointer' + k) % 2].valid = FALSE
                          /\ ~(k < lsu_status_cnt')
      BY <1>2
    <2>3. lsu_write_pointer' = (lsu_read_pointer' + lsu_status_cnt') % 2
      BY <1>2
    <2>4. \A k \in 0..1 : lsu_mem'[(lsu_read_pointer' + k) % 2].valid <=> k < lsu_status_cnt'
      BY <2>2
    <2>5. /\ lsu_read_pointer' \in 0..1 /\ lsu_write_pointer' \in 0..1 /\ lsu_status_cnt' \in 0..2
          /\ Waits' <= 2
      BY <1>2, <1>4
    <2>6. lsu_valid' \in BOOLEAN
      BY <1>3, Zenon
    <2> QED BY <2>1, <2>3, <2>4, <2>5, <2>6, Zenon DEF BypassInv
  <1>6. InFlight' = {}
    <2>1. Sb!Inv' /\ issue_cnt' = 0
      BY DEF ScoreboardStep
    <2>2. ASSUME NEW i \in TransId PROVE ~mem'[i].issued
      <3>1. commit_pointer'[0] \in 0..NR_ENTRIES-1
        BY <2>1, CommitPortsAssumption DEF Sb!Inv, Sb!TypeOK, Sb!Id, Sb!Port
      <3>2. mem'[i].issued => Sb!Dist(commit_pointer'[0], i, NR_ENTRIES) < 0
        BY <2>1 DEF Sb!Inv, Sb!IssueWindow, Sb!Id, TransId
      <3>3. i \in 0..NR_ENTRIES-1 /\ NR_ENTRIES \in Nat
        BY EntriesAssumption DEF TransId
      <3>4. Sb!Dist(commit_pointer'[0], i, NR_ENTRIES) >= 0
        BY <3>1, <3>3 DEF Sb!Dist
      <3>5. Sb!Dist(commit_pointer'[0], i, NR_ENTRIES) \in Int
        BY <3>1, <3>3 DEF Sb!Dist
      <3> QED BY <3>2, <3>4, <3>5
    <2> QED BY <2>2 DEF InFlight
  <1>7. WaitingInv'
    <2>1. L!NoReq \in [fu : {"LOAD", "STORE", "CSR", "NONE"}, st : L!Store, tid : TransId]
      BY InstrsAssumption, EntriesAssumption DEF L!NoReq, L!Store, TransId
    <2>2. ~lsu_valid' /\ ~csr_valid' /\ csr_valid' \in BOOLEAN
      BY <1>3, Zenon
    <2>3. 0..Waits'-1 = {} /\ Waits' # 2
      BY <1>4
    <2> QED BY <1>3, <2>1, <2>2, <2>3 DEF WaitingInv
  <1> QED BY <1>3, <1>4, <1>5, <1>6, <1>7

-----------------------------------------------------------------------------
(***************************************************************************)
(* Stores.                                                                 *)
(***************************************************************************)

\* An instruction in flight is written back by the unit of its kind.
LEMMA WrittenByItsUnit ==
  ASSUME Inv, NEW i \in InFlight, i \in wb_ids
  PROVE  \/ load_pipe.valid /\ i = load_pipe.tid /\ mem[i].instr.fu = "LOAD"
         \/ st_state = "VALID_STORE" /\ i = st_trans_id /\ mem[i].instr.fu = "STORE"
         \/ csr_valid /\ i = fu_data.tid /\ mem[i].instr.fu = "CSR"
  <1>1. issue_cnt # 0
    BY Ages DEF Inv, InFlight, TransId
  <1>2. load_pipe.valid => mem[load_pipe.tid].instr.fu = "LOAD"
    BY <1>1 DEF Inv, LoadsServed, Served
  <1>3. st_state = "VALID_STORE" => mem[st_trans_id].instr.fu = "STORE"
    BY DEF Inv, StoresInOrder, Unfinished, Posting
  <1>4. csr_valid => mem[fu_data.tid].instr.fu = "CSR"
    BY DEF Inv, WaitingInv, Unfinished
  <1> QED BY <1>2, <1>3, <1>4
          DEF wb_ids, L!load_valid_o, L!store_valid_o, L!store_trans_id_o, L!SU!valid_o

\* The state of the store unit after a cycle: it posts the store it takes.
LEMMA StoreUnitStep ==
  ASSUME Inv, NEW issue \in BOOLEAN, NEW instr \in Instr, NEW w \in BOOLEAN,
         Cycle(issue, instr, w)
  PROVE  /\ st_state' \in {"IDLE", "VALID_STORE", "WAIT_STORE_READY"}
         /\ st_q' \in L!Store
         /\ st_state' = "VALID_STORE" <=> L!pop_st(ctrl, commit_lsu) /\ ~flush(w)
         /\ st_state' = "VALID_STORE" =>
              /\ Waits > 0 /\ Waiting(0).fu = "STORE" /\ ctrl.valid
              /\ st_q' = Waiting(0).st /\ st_trans_id' = Waiting(0).tid
  <1> DEFINE d == L!SU!state_d(L!st_valid_i(ctrl), commit_lsu, flush(w))
  <1>1. /\ st_state' = d
        /\ st_q' = IF d = "VALID_STORE" THEN ctrl.req.st ELSE ResetStore
        /\ st_trans_id' = IF d = "VALID_STORE" THEN ctrl.req.tid ELSE 0
    BY Zenon DEF Cycle, L!Latch, L!SU!UnitLatch, ctrl
  <1>2. /\ d \in {"IDLE", "VALID_STORE", "WAIT_STORE_READY"}
        /\ d = "VALID_STORE" <=> L!pop_st(ctrl, commit_lsu) /\ ~flush(w)
    <2>1. CASE flush(w)
      BY <2>1 DEF L!SU!state_d
    <2>2. CASE ~flush(w) /\ st_state = "WAIT_STORE_READY"
      BY <2>2 DEF L!SU!state_d, L!pop_st, L!SU!pop_st_o
    <2>3. CASE ~flush(w) /\ st_state # "WAIT_STORE_READY"
      BY <2>3 DEF L!SU!state_d, L!pop_st, L!SU!pop_st_o
    <2> QED BY <2>1, <2>2, <2>3
  <1> HIDE DEF d
  <1>3. commit_lsu \in BOOLEAN
    BY CommitStage
  <1>4. d = "VALID_STORE" => /\ Waits > 0 /\ ctrl.req = Waiting(0) /\ ctrl.valid
                             /\ Waiting(0).fu = "STORE"
    BY <1>2, <1>3, HeadOfQueue
  <1>5. d = "VALID_STORE" => Waiting(0).st \in L!Store
    <2>1. d = "VALID_STORE" => 0 \in 0..Waits-1
      BY <1>4, HeadOfQueue
    <2>2. d = "VALID_STORE" => Unfinished(Waiting(0))
      BY <2>1 DEF Inv, WaitingInv
    <2>3. \A i \in TransId : mem[i].instr \in Instr \union {ResetInstr}
      BY Ages DEF Inv
    <2>4. \A x \in Instr \union {ResetInstr} : x.st \in L!Store
      BY InstrsAssumption DEF L!Store, ResetInstr
    <2> QED BY <2>2, <2>3, <2>4 DEF Unfinished, InFlight
  <1>6. ResetStore \in L!Store
    BY InstrsAssumption DEF L!Store, TransId
  <1> QED BY <1>1, <1>2, <1>4, <1>5, <1>6

\* The count of the speculative queue, and room for the store to be posted.
LEMMA RoomStep ==
  ASSUME Inv, NEW issue \in BOOLEAN, NEW instr \in Instr, NEW w \in BOOLEAN,
         Cycle(issue, instr, w)
  PROVE  /\ speculative_status_cnt' =
              IF flush(w) THEN 0
              ELSE speculative_status_cnt + (IF st_state = "VALID_STORE" THEN 1 ELSE 0)
                                          - (IF commit_lsu THEN 1 ELSE 0)
         /\ speculative_status_cnt' + (IF st_state' = "VALID_STORE" THEN 1 ELSE 0) <= DEPTH_SPEC
  <1>1. speculative_status_cnt' =
          IF flush(w) THEN 0
          ELSE speculative_status_cnt + (IF st_state = "VALID_STORE" THEN 1 ELSE 0)
                                      - (IF commit_lsu THEN 1 ELSE 0)
    BY Zenon DEF Cycle, L!Latch, L!SU!UnitLatch, L!SU!CoreIf, L!SU!speculative_status_cnt_n,
           L!SU!st_valid
  <1>2. st_state' = "VALID_STORE" => ~flush(w) /\ (speculative_status_cnt < DEPTH_SPEC - 1 \/ commit_lsu)
    BY StoreUnitStep DEF L!pop_st, L!SU!pop_st_o, L!SU!st_ready, L!SU!ready_o
  <1>3. /\ speculative_status_cnt \in Nat /\ DEPTH_SPEC \in Nat \ {0}
        /\ speculative_status_cnt + (IF st_state = "VALID_STORE" THEN 1 ELSE 0) <= DEPTH_SPEC
    BY DepthsAssumption DEF Inv, StoresInOrder, L!SU!BufferInv, L!SU!BufferTypeOK
  <1> QED BY <1>1, <1>2, <1>3

\* The finished stores after a cycle: the retiring one leaves, the posted one
\* joins.
LEMMA FinishedStep ==
  ASSUME Inv, NEW issue \in BOOLEAN, NEW instr \in Instr, NEW w \in BOOLEAN,
         Cycle(issue, instr, w), ScoreboardStep(issue, instr, w), ~flush(w)
  PROVE  /\ commit_lsu => commit_pointer[0] \in FinishedStores
         /\ \A i \in FinishedStores : Age(i) >= num_commit(w) <=> ~(commit_lsu /\ i = commit_pointer[0])
         /\ \A i \in TransId :
              i \in FinishedStores' <=> \/ i \in FinishedStores /\ Age(i) >= num_commit(w)
                                        \/ st_state = "VALID_STORE" /\ i = st_trans_id
         /\ \A i \in FinishedStores' : /\ i \in InFlight /\ Age(i) >= num_commit(w)
                                       /\ mem'[i].instr = mem[i].instr
  <1>a. Sb!Inv
    BY DEF Inv
  <1>1. /\ commit_pointer[0] \in TransId /\ commit_pointer[1] \in TransId
        /\ Age(commit_pointer[0]) = 0
        /\ \A i \in TransId : Age(i) \in Nat
        /\ \A i, j \in TransId : Age(i) = Age(j) => i = j
        /\ issue_cnt \in Nat /\ (issue_cnt # 0 => Age(commit_pointer[1]) = 1)
        /\ \A i \in TransId : mem[i].valid => i \in InFlight
        /\ \A i \in InFlight : Age(i) < issue_cnt
    BY <1>a, Ages, EntriesAssumption DEF TransId, InFlight
  <1>2. /\ num_commit(w) \in 0..2
        /\ num_commit(w) = 2 => mem[commit_pointer[1]].instr.fu = "LOAD"
        /\ num_commit(w) >= 1 /\ mem[commit_pointer[0]].instr.fu = "STORE" => commit_lsu
        /\ commit_lsu => /\ num_commit(w) >= 1
                         /\ mem[commit_pointer[0]].valid /\ ~mem[commit_pointer[0]].instr.ex
                         /\ mem[commit_pointer[0]].instr.fu = "STORE"
    BY CommitStage DEF Oldest, Sb!commit_instr
  <1>3. commit_lsu => commit_pointer[0] \in FinishedStores
    BY <1>1, <1>2 DEF FinishedStores
  <1>4. ASSUME NEW i \in FinishedStores
        PROVE  Age(i) >= num_commit(w) <=> ~(commit_lsu /\ i = commit_pointer[0])
    <2>1. i \in TransId /\ i \in InFlight /\ mem[i].instr.fu = "STORE"
      BY DEF FinishedStores, InFlight
    <2>2. issue_cnt # 0
      BY <1>1, <2>1
    <2>3. num_commit(w) = 2 => Age(i) # 1
      BY <1>1, <1>2, <2>1, <2>2
    <2>4. Age(i) = 0 <=> i = commit_pointer[0]
      BY <1>1, <2>1
    <2>5. Age(i) \in Nat
      BY <1>1, <2>1
    <2> QED BY <1>2, <2>1, <2>3, <2>4, <2>5
  <1>5. ASSUME NEW i \in TransId, i \in FinishedStores'
        PROVE  /\ i \in InFlight /\ Age(i) >= num_commit(w) /\ mem'[i].instr = mem[i].instr
               /\ \/ i \in FinishedStores
                  \/ st_state = "VALID_STORE" /\ i = st_trans_id
    <2>1. i \in InFlight' /\ mem'[i].valid /\ mem'[i].instr.fu = "STORE" /\ ~mem'[i].instr.ex
      BY <1>5 DEF FinishedStores
    <2>2. i \in InFlight
      BY <2>1 DEF ScoreboardStep
    <2>3. /\ Age(i) >= num_commit(w) /\ mem'[i].instr = mem[i].instr
          /\ mem[i].valid \/ i \in wb_ids
      BY <2>1, <2>2 DEF ScoreboardStep
    <2> QED BY <2>1, <2>2, <2>3, WrittenByItsUnit DEF FinishedStores
  <1>6. ASSUME NEW i \in FinishedStores, Age(i) >= num_commit(w)
        PROVE  i \in FinishedStores'
    BY <1>6 DEF FinishedStores, ScoreboardStep, InFlight
  <1>7. ASSUME st_state = "VALID_STORE"
        PROVE  st_trans_id \in FinishedStores'
    <2>1. PICK t \in InFlight : /\ t = st_trans_id /\ ~mem[t].valid /\ ~mem[t].instr.ex
                                /\ mem[t].instr.fu = "STORE"
      BY <1>7 DEF Inv, StoresInOrder, Unfinished, Posting
    <2>2. t \in wb_ids
      BY <1>7, <2>1 DEF wb_ids, L!store_valid_o, L!store_trans_id_o, L!SU!valid_o
    <2>3. t \in InFlight' /\ mem'[t].instr = mem[t].instr /\ mem'[t].valid
      BY <2>1, <2>2, Survives
    <2> QED BY <2>1, <2>3 DEF FinishedStores
  <1>8. \A i \in FinishedStores' : i \in TransId
    BY DEF FinishedStores, InFlight
  <1> QED BY <1>3, <1>4, <1>5, <1>6, <1>7, <1>8

\* Stores keep finishing in program order.
LEMMA StoresStep ==
  ASSUME Inv, NEW issue \in BOOLEAN, NEW instr \in Instr, NEW w \in BOOLEAN,
         Cycle(issue, instr, w), ScoreboardStep(issue, instr, w), ~flush(w)
  PROVE  StoresInOrder'
  <1>a. Sb!Inv
    BY DEF Inv
  <1>1. /\ issue_cnt \in Int /\ num_commit(w) \in Int
        /\ \A i \in TransId : Age(i) \in Int
        /\ \A i \in InFlight : i \in TransId /\ Age(i) < issue_cnt
    BY <1>a, Ages, CommitStage, EntriesAssumption DEF TransId, InFlight
  <1>2. \A i \in InFlight : Age(i) >= num_commit(w) => Age(i)' = Age(i) - num_commit(w)
    BY <1>1 DEF ScoreboardStep
  <1>3. ASSUME NEW i \in FinishedStores'
        PROVE  i \in InFlight /\ Age(i) >= num_commit(w) /\ AheadOfWaiting(i)
    <2>1. /\ i \in InFlight /\ Age(i) >= num_commit(w)
          /\ i \in FinishedStores \/ (st_state = "VALID_STORE" /\ i = st_trans_id)
      <3>1. i \in TransId
        BY DEF FinishedStores, InFlight
      <3> QED BY <3>1, FinishedStep
    <2> QED BY <2>1 DEF Inv, StoresInOrder
  <1>4. \A i \in FinishedStores' : AheadOfWaiting(i)'
    BY <1>3, AheadStep
  <1>5. ASSUME st_state' = "VALID_STORE"
        PROVE  /\ Unfinished(Posting)' /\ AheadOfWaiting(st_trans_id)'
               /\ \A i \in FinishedStores' : Age(i)' < Age(st_trans_id)'
    <2>1. /\ Waits > 0 /\ Waiting(0).fu = "STORE" /\ L!pop_st(ctrl, commit_lsu)
          /\ st_q' = Waiting(0).st /\ st_trans_id' = Waiting(0).tid
      BY <1>5, StoreUnitStep
    <2>2. 0 \in 0..Waits-1 /\ Pops = 1
      BY <2>1, HeadOfQueue DEF Pops
    <2>3. PICK t : t = Waiting(0).tid
      OBVIOUS
    <2>4. /\ t \in InFlight /\ ~mem[t].valid /\ ~mem[t].instr.ex
          /\ mem[t].instr.fu = "STORE" /\ mem[t].instr.st = Waiting(0).st
      BY <2>1, <2>2, <2>3 DEF Inv, WaitingInv, Unfinished
    <2>5. t \notin wb_ids
      BY <2>2, <2>3, WaitingNotWritten
    <2>6. /\ t \in InFlight' /\ Age(t) >= num_commit(w) /\ Age(t)' = Age(t) - num_commit(w)
          /\ mem'[t].instr = mem[t].instr /\ ~mem'[t].valid
      BY <2>4, <2>5, Survives
    <2>7. AheadOfWaiting(t)'
      BY <2>2, <2>3, <2>4, <2>6, AheadStep
    <2>8. ASSUME NEW i \in FinishedStores' PROVE Age(i)' < Age(t)'
      <3>1. Age(i) < Age(t)
        BY <1>3, <2>2, <2>3 DEF AheadOfWaiting
      <3> QED BY <1>1, <1>2, <1>3, <2>4, <2>6, <3>1
    <2>9. st_trans_id' = t
      BY <2>1, <2>3
    <2> QED BY <2>1, <2>4, <2>6, <2>7, <2>8, <2>9
            DEF Unfinished, Posting, AheadOfWaiting, Age
  <1>6. ASSUME NEW i \in InFlight', mem'[i].instr.fu = "STORE", ~mem'[i].instr.ex, ~mem'[i].valid
        PROVE  \/ st_state' = "VALID_STORE" /\ i = st_trans_id'
               \/ \E k \in 0..Waits'-1 : i = Waiting(k).tid'
    <2>1. /\ Pops \in 0..1 /\ Pops <= Waits /\ Waits \in 0..2
          /\ Waits' = Waits - Pops + (IF lsu_valid' THEN 1 ELSE 0)
          /\ \A k \in 0..Waits'-1 :
               Waiting(k)' = IF k + Pops < Waits THEN Waiting(k + Pops) ELSE fu_data'
      BY QueueStep, HeadOfQueue
    <2>2. i \in TransId
      BY DEF InFlight
    <2>3. CASE i \in InFlight
      <3>1. /\ mem'[i].instr = mem[i].instr /\ ~mem[i].valid /\ i \notin wb_ids
        BY <1>6, <2>2, <2>3 DEF ScoreboardStep
      <3>2. ~(st_state = "VALID_STORE" /\ i = st_trans_id)
        BY <3>1 DEF wb_ids, L!store_valid_o, L!store_trans_id_o, L!SU!valid_o
      <3>3. PICK k \in 0..Waits-1 : i = Waiting(k).tid
        BY <1>6, <2>3, <3>1, <3>2 DEF Inv, StoresInOrder
      <3>4. CASE k >= Pops
        <4>1. PICK j \in 0..Waits'-1 : j + Pops = k /\ k < Waits
          <5>1. k - Pops \in 0..Waits'-1 /\ (k - Pops) + Pops = k /\ k < Waits
            BY <2>1, <3>4
          <5> QED BY <5>1
        <4>2. Waiting(j)' = Waiting(k)
          BY <2>1, <4>1
        <4> QED BY <3>3, <4>2
      <3>5. CASE ~(k >= Pops)
        <4>1. k = 0 /\ Pops = 1 /\ Waits > 0
          BY <2>1, <3>5
        <4>2. Waiting(0).fu = "STORE"
          BY <1>6, <3>1, <3>3, <4>1 DEF Inv, WaitingInv, Unfinished
        <4>3. ~L!pop_ld(ctrl)
          BY <4>1, <4>2, HeadOfQueue
        <4>4. st_state' = "VALID_STORE"
          BY <4>1, <4>3, StoreUnitStep DEF Pops
        <4> QED BY <3>3, <4>1, <4>4, StoreUnitStep
      <3> QED BY <3>4, <3>5
    <2>4. CASE i \notin InFlight
      <3>1. issue /\ i = issue_pointer
        BY <2>2, <2>4 DEF ScoreboardStep
      <3>2. instr.fu = "STORE" /\ ~instr.ex
        BY <1>6, <3>1 DEF ScoreboardStep
      <3>3. lsu_valid' /\ fu_data'.tid = i
        BY <3>1, <3>2, Zenon DEF Cycle, IssueRegs
      <3>4. PICK k \in 0..Waits'-1 : ~(k + Pops < Waits)
        <4>1. Waits'-1 \in 0..Waits'-1 /\ ~((Waits'-1) + Pops < Waits)
          BY <2>1, <3>3
        <4> QED BY <4>1
      <3>5. Waiting(k)' = fu_data'
        BY <2>1, <3>4
      <3> QED BY <3>3, <3>5
    <2> QED BY <2>3, <2>4
  <1> QED BY <1>4, <1>5, <1>6, StoreUnitStep, RoomStep DEF StoresInOrder

-----------------------------------------------------------------------------
(***************************************************************************)
(* Loads.                                                                  *)
(***************************************************************************)

\* What the commit pulse moves to the commit queue is the retiring store, and
\* every finished store is in the speculative queue.  Both follow from
\* CommitsOwnStore, below.
StoresInBuffer ==
  /\ commit_lsu => speculative_queue[speculative_read_pointer].st = Oldest.st
  /\ \A i \in FinishedStores : mem[i].instr.st \in L!SU!Pending

\* A load that requests memory never matches a pending store.
LEMMA InvRequestsNeverMatch ==
  ASSUME Inv
  PROVE  RequestsNeverMatch
  <1> SUFFICES ASSUME L!ld_data_req(ctrl) PROVE ~L!page_offset_matches(ctrl)
    BY DEF RequestsNeverMatch
  <1>1. CASE ld_state = "WAIT_GNT"
    <2>1. ctrl.req = Waiting(0)
      BY HeadOfQueue
    <2> QED BY <1>1, <2>1 DEF Inv, WaitingLoad, L!page_offset_matches
  <1>2. CASE ld_state # "WAIT_GNT"
    BY <1>2 DEF L!ld_data_req, L!LU!data_req
  <1> QED BY <1>1, <1>2

\* The memory port goes to a load exactly when one requests it, and the load
\* then leaves the queue.
LEMMA Grant ==
  ASSUME Inv
  PROVE  /\ ~L!sel_lsu(ctrl) <=> L!ld_data_req(ctrl)
         /\ L!pop_ld(ctrl) <=> L!ld_data_req(ctrl)
         /\ L!ld_data_req(ctrl) =>
              /\ Waits > 0 /\ 0 \in 0..Waits-1 /\ Pops = 1
              /\ ctrl.req = Waiting(0) /\ Waiting(0).fu = "LOAD"
              /\ ~L!page_offset_matches(ctrl)
         /\ ~L!ld_data_req(ctrl) /\ ctrl.valid /\ ctrl.req.fu = "LOAD" => Pops = 0
  <1>1. L!ld_data_req(ctrl) => ~L!page_offset_matches(ctrl)
    BY InvRequestsNeverMatch DEF RequestsNeverMatch
  <1>2. /\ ~L!sel_lsu(ctrl) <=> L!ld_data_req(ctrl)
        /\ L!pop_ld(ctrl) <=> L!ld_data_req(ctrl)
    BY <1>1 DEF L!sel_lsu, L!pop_ld, L!LU!pop_ld_o, L!ld_data_req
  <1>3. L!ld_data_req(ctrl) => /\ Waits > 0 /\ 0 \in 0..Waits-1
                               /\ ctrl.req = Waiting(0) /\ Waiting(0).fu = "LOAD"
    BY HeadOfQueue
  <1>4. L!ld_data_req(ctrl) => Pops = 1
    BY <1>2 DEF Pops
  <1>5. ~L!ld_data_req(ctrl) /\ ctrl.valid /\ ctrl.req.fu = "LOAD" => Pops = 0
    <2>1. L!pop_st(ctrl, commit_lsu) => ctrl.req.fu = "STORE"
      BY HeadOfQueue, CommitStage, Zenon
    <2> QED BY <1>2, <2>1 DEF Pops
  <1> QED BY <1>1, <1>2, <1>3, <1>4, <1>5

\* A valid entry of a queue of the buffer was there or has just moved there.
LEMMA EntriesStep ==
  ASSUME Inv, NEW issue \in BOOLEAN, NEW instr \in Instr, NEW w \in BOOLEAN,
         Cycle(issue, instr, w)
  PROVE  /\ \A j \in 0..DEPTH_COMMIT-1 : commit_queue'[j].valid =>
              \/ commit_queue[j].valid /\ commit_queue'[j].st = commit_queue[j].st
              \/ /\ commit_lsu /\ speculative_queue[speculative_read_pointer].valid
                 /\ commit_queue'[j].st = speculative_queue[speculative_read_pointer].st
         /\ \A j \in 0..DEPTH_SPEC-1 : speculative_queue'[j].valid =>
              \/ speculative_queue[j].valid /\ speculative_queue'[j].st = speculative_queue[j].st
              \/ st_state = "VALID_STORE" /\ speculative_queue'[j].st = st_q
  <1> USE DepthsAssumption
  <1>t. /\ speculative_queue \in [0..DEPTH_SPEC-1 -> [st : L!Store, valid : BOOLEAN]]
        /\ commit_queue \in [0..DEPTH_COMMIT-1 -> [st : L!Store, valid : BOOLEAN]]
        /\ speculative_read_pointer \in 0..DEPTH_SPEC-1
        /\ speculative_write_pointer \in 0..DEPTH_SPEC-1
        /\ commit_read_pointer \in 0..DEPTH_COMMIT-1
        /\ commit_write_pointer \in 0..DEPTH_COMMIT-1
        /\ st_q \in L!Store
    BY DEF Inv, L!SU!BufferInv, L!SU!BufferTypeOK, L!SU!QueueEntry, StoresInOrder
  <1>1. ASSUME NEW j \in 0..DEPTH_COMMIT-1, commit_queue'[j].valid
        PROVE  \/ commit_queue[j].valid /\ commit_queue'[j].st = commit_queue[j].st
               \/ /\ commit_lsu /\ speculative_queue[speculative_read_pointer].valid
                  /\ commit_queue'[j].st = speculative_queue[speculative_read_pointer].st
    <2> DEFINE g == L!sel_lsu(ctrl)
               E == L!SU!Evicted(g)
    <2>1. commit_queue' = IF commit_lsu
                          THEN [E EXCEPT ![commit_write_pointer] =
                                    speculative_queue[speculative_read_pointer]]
                          ELSE E
      BY Zenon DEF Cycle, L!Latch, L!SU!UnitLatch, L!SU!StoreIf, L!SU!commit_queue_n, ctrl
    <2>2. /\ E \in [0..DEPTH_COMMIT-1 -> [st : L!Store, valid : BOOLEAN]]
          /\ E[j].st = commit_queue[j].st
          /\ E[j].valid => commit_queue[j].valid
      <3>1. CASE L!SU!pop(g)
        BY <1>t, <3>1, Zenon DEF L!SU!Evicted
      <3>2. CASE ~L!SU!pop(g)
        BY <1>t, <3>2 DEF L!SU!Evicted
      <3> QED BY <3>1, <3>2
    <2> HIDE DEF E
    <2> QED BY <1>1, <1>t, <2>1, <2>2
  <1>2. ASSUME NEW j \in 0..DEPTH_SPEC-1, speculative_queue'[j].valid
        PROVE  \/ speculative_queue[j].valid /\ speculative_queue'[j].st = speculative_queue[j].st
               \/ st_state = "VALID_STORE" /\ speculative_queue'[j].st = st_q
    <2> DEFINE v == L!SU!st_valid(flush(w))
               P == L!SU!Pushed(v, st_q)
               R == L!SU!Retired(v, st_q, commit_lsu)
    <2>1. speculative_queue' = IF flush(w)
                               THEN [i \in 0..DEPTH_SPEC-1 |-> [R[i] EXCEPT !.valid = FALSE]]
                               ELSE R
      BY DEF Cycle, L!Latch, L!SU!UnitLatch, L!SU!CoreIf, L!SU!speculative_queue_n
    <2>2. /\ P \in [0..DEPTH_SPEC-1 -> [st : L!Store, valid : BOOLEAN]]
          /\ \/ P[j] = speculative_queue[j]
             \/ st_state = "VALID_STORE" /\ P[j].st = st_q
      BY <1>t DEF L!SU!Pushed, L!SU!st_valid
    <2>3. R = IF commit_lsu THEN [P EXCEPT ![speculative_read_pointer].valid = FALSE] ELSE P
      BY DEF L!SU!Retired
    <2> HIDE DEF P
    <2>4. /\ R \in [0..DEPTH_SPEC-1 -> [st : L!Store, valid : BOOLEAN]]
          /\ R[j].st = P[j].st /\ (R[j].valid => P[j].valid)
      <3>1. CASE commit_lsu
        <4>1. R = [P EXCEPT ![speculative_read_pointer].valid = FALSE]
          BY <2>3, <3>1
        <4> HIDE DEF R
        <4> QED BY <1>t, <2>2, <4>1, Zenon
      <3>2. CASE ~commit_lsu
        BY <2>2, <2>3, <3>2
      <3> QED BY <3>1, <3>2
    <2> HIDE DEF R
    <2>5. ~flush(w)
      <3>1. flush(w) => speculative_queue'[j] = [R[j] EXCEPT !.valid = FALSE]
        BY <2>1
      <3>2. R[j] \in [st : L!Store, valid : BOOLEAN]
        BY <2>4
      <3> QED BY <1>2, <3>1, <3>2
    <2> QED BY <1>2, <2>1, <2>2, <2>4, <2>5
  <1> QED BY <1>1, <1>2

\* Without a store newly taken by the store unit no new match appears.
LEMMA MatchesStep ==
  ASSUME Inv, NEW issue \in BOOLEAN, NEW instr \in Instr, NEW w \in BOOLEAN,
         Cycle(issue, instr, w), st_state' # "VALID_STORE"
  PROVE  L!SU!PossibleMatches' \subseteq L!SU!PossibleMatches
  <1>1. speculative_read_pointer \in 0..DEPTH_SPEC-1
    BY DEF Inv, L!SU!BufferInv, L!SU!BufferTypeOK
  <1>2. \A j \in 0..DEPTH_COMMIT-1 : commit_queue'[j].valid =>
             commit_queue'[j].st \in L!SU!PossibleMatches
    BY <1>1, EntriesStep DEF L!SU!PossibleMatches, L!SU!Pending
  <1>3. \A j \in 0..DEPTH_SPEC-1 : speculative_queue'[j].valid =>
             speculative_queue'[j].st \in L!SU!PossibleMatches
    BY EntriesStep DEF L!SU!PossibleMatches, L!SU!Pending, L!SU!st_valid_without_flush
  <1> QED BY <1>2, <1>3 DEF L!SU!PossibleMatches, L!SU!Pending, L!SU!st_valid_without_flush

\* A load that matches no pending store has no store ahead of it that is not
\* in memory: an older store is finished, being posted, or would have to wait
\* behind the load.
LEMMA NoMatchNoStore ==
  ASSUME Inv, StoresInBuffer, NEW i, i = Waiting(0).tid, Waits > 0,
         \A s \in L!SU!PossibleMatches : s.addr # Waiting(0).st.addr
  PROVE  NoStoreAhead(i)
  <1>1. 0 \in 0..Waits-1 /\ Waits \in 0..2
    BY HeadOfQueue
  <1>2. i \in InFlight /\ mem[i].instr.st = Waiting(0).st
    BY <1>1 DEF Inv, WaitingInv, Unfinished
  <1>3. \A j \in 0..DEPTH_COMMIT-1 :
           commit_queue[j].valid => commit_queue[j].st.addr # mem[i].instr.st.addr
    BY <1>2 DEF L!SU!PossibleMatches, L!SU!Pending
  <1>4. ASSUME NEW j \in InFlightStores(i) PROVE FALSE
    <2>1. /\ j \in InFlight /\ j \in TransId /\ Age(j) < Age(i) /\ mem[j].instr.fu = "STORE"
          /\ ~mem[j].instr.ex /\ mem[j].instr.st.addr = mem[i].instr.st.addr
      BY DEF InFlightStores, Older, InFlight
    <2>2. mem[j].instr.st \notin L!SU!PossibleMatches
      BY <1>2, <2>1
    <2>3. ~mem[j].valid
      BY <2>1, <2>2 DEF StoresInBuffer, FinishedStores, L!SU!PossibleMatches
    <2>4. ~(st_state = "VALID_STORE" /\ j = st_trans_id)
      BY <2>2 DEF Inv, StoresInOrder, Unfinished, Posting,
                  L!SU!PossibleMatches, L!SU!st_valid_without_flush
    <2>5. PICK k \in 0..Waits-1 : j = Waiting(k).tid
      BY <2>1, <2>3, <2>4 DEF Inv, StoresInOrder
    <2>6. Age(i) \in Int /\ Age(j) \in Int
      BY <1>2, <2>1, Ages, EntriesAssumption DEF Inv, InFlight
    <2>7. k # 0
      BY <2>1, <2>5, <2>6
    <2>8. k = 1 /\ Waits = 2
      BY <1>1, <2>7
    <2>9. Age(i) < Age(j)
      BY <2>5, <2>8 DEF Inv, WaitingInv
    <2> QED BY <2>1, <2>6, <2>9
  <1> QED BY <1>3, <1>4 DEF NoStoreAhead

\* A load on its way stays without stores ahead of it.
LEMMA NoStoreAheadStep ==
  ASSUME Inv, StoresInBuffer, NEW issue \in BOOLEAN, NEW instr \in Instr, NEW w \in BOOLEAN,
         Cycle(issue, instr, w), ScoreboardStep(issue, instr, w), ~flush(w),
         NEW i \in InFlight, ~mem[i].valid, NoStoreAhead(i)
  PROVE  NoStoreAhead(i)'
  <1>a. Sb!Inv
    BY DEF Inv
  <1>1. /\ issue_cnt \in Int /\ num_commit(w) \in Int
        /\ \A j \in TransId : Age(j) \in Nat
        /\ \A j \in TransId : j \in InFlight <=> Age(j) < issue_cnt
        /\ Age(issue_pointer) = issue_cnt /\ issue_pointer \in TransId
        /\ commit_pointer[0] \in TransId /\ Age(commit_pointer[0]) = 0
        /\ \A j, k \in TransId : Age(j) = Age(k) => j = k
        /\ \A j \in TransId : mem[j].valid => j \in InFlight
    BY <1>a, Ages, CommitStage, EntriesAssumption DEF TransId
  <1>b. \A j \in TransId : Age(j) \in Nat /\ (j \in InFlight <=> Age(j) < issue_cnt)
    BY <1>1
  <1>c. issue_cnt \in Int /\ num_commit(w) \in Int
    BY <1>1
  <1>2. /\ i \in TransId /\ i \in InFlight' /\ Age(i)' = Age(i) - num_commit(w)
        /\ mem'[i].instr = mem[i].instr
    BY Survives
  <1>3. ASSUME NEW j \in InFlightStores(i)' PROVE FALSE
    <2>1. /\ j \in InFlight' /\ j \in TransId /\ Age(j)' < Age(i)' /\ mem'[j].instr.fu = "STORE"
          /\ ~mem'[j].instr.ex /\ mem'[j].instr.st.addr = mem'[i].instr.st.addr
      BY DEF InFlightStores, Older, InFlight
    <2>2. Age(j) >= num_commit(w) /\ Age(j)' = Age(j) - num_commit(w)
      BY <2>1 DEF ScoreboardStep
    <2>3. Age(j) < Age(i) /\ Age(i) < issue_cnt
      <3>1. Age(j) \in Nat /\ Age(i) \in Nat /\ Age(i) < issue_cnt
        BY <1>b, <1>2, <2>1
      <3>2. Age(j) - num_commit(w) < Age(i) - num_commit(w)
        BY <1>2, <2>1, <2>2
      <3> QED BY <1>c, <3>1, <3>2
    <2>4. j \in InFlight
      <3>1. j \in InFlight <=> Age(j) < issue_cnt
        BY <1>b, <2>1
      <3>2. Age(j) \in Int /\ Age(i) \in Int /\ issue_cnt \in Int
        BY <1>b, <1>c, <1>2, <2>1
      <3> QED BY <2>3, <3>1, <3>2
    <2>5. mem'[j].instr = mem[j].instr
      BY <2>2, <2>4 DEF ScoreboardStep
    <2> QED BY <1>2, <2>1, <2>3, <2>4, <2>5 DEF NoStoreAhead, InFlightStores, Older
  <1>4. ASSUME NEW j \in 0..DEPTH_COMMIT-1, commit_queue'[j].valid
        PROVE  commit_queue'[j].st.addr # mem'[i].instr.st.addr
    <2>1. CASE commit_queue[j].valid /\ commit_queue'[j].st = commit_queue[j].st
      BY <1>2, <2>1 DEF NoStoreAhead
    <2>2. CASE commit_lsu /\ commit_queue'[j].st = speculative_queue[speculative_read_pointer].st
      <3>1. /\ commit_queue'[j].st = mem[commit_pointer[0]].instr.st
            /\ mem[commit_pointer[0]].valid /\ ~mem[commit_pointer[0]].instr.ex
            /\ mem[commit_pointer[0]].instr.fu = "STORE"
        BY <2>2, CommitStage DEF StoresInBuffer, Oldest, Sb!commit_instr
      <3>2. commit_pointer[0] \in InFlight /\ i # commit_pointer[0]
        BY <1>1, <3>1
      <3>3. Age(commit_pointer[0]) < Age(i)
        BY <1>1, <1>2, <3>2
      <3>4. commit_pointer[0] \notin InFlightStores(i)
        BY DEF NoStoreAhead
      <3> QED BY <1>2, <3>1, <3>2, <3>3, <3>4 DEF InFlightStores, Older
    <2> QED BY <1>4, <2>1, <2>2, EntriesStep
  <1> QED BY <1>3, <1>4 DEF NoStoreAhead

\* The waiting states of the load unit after a cycle.
LEMMA WaitingLoadStep ==
  ASSUME Inv, NEW issue \in BOOLEAN, NEW instr \in Instr, NEW w \in BOOLEAN,
         Cycle(issue, instr, w)
  PROVE  /\ WaitingLoad'
         /\ ld_state' = "WAIT_FLUSH" <=> flush(w)
  <1> DEFINE v == L!ld_valid_i(ctrl)
             match == L!page_offset_matches(ctrl)
             d == L!LU!state_d(v, match, ~L!sel_lsu(ctrl), flush(w))
  <1>1. ld_state' = d
    BY DEF Cycle, L!Latch, L!LU!Latch, ctrl
  <1>2. d = IF flush(w) THEN "WAIT_FLUSH"
            ELSE IF L!ld_data_req(ctrl) THEN "SEND_TAG"
            ELSE IF ld_state \in {"IDLE", "SEND_TAG"} /\ v THEN "WAIT_PAGE_OFFSET"
            ELSE IF ld_state = "WAIT_PAGE_OFFSET" THEN IF match THEN ld_state ELSE "WAIT_GNT"
            ELSE "IDLE"
    BY Grant DEF L!LU!state_d, L!ld_data_req
  <1> HIDE DEF d, v, match
  <1>3. ASSUME ld_state' \in {"WAIT_GNT", "WAIT_PAGE_OFFSET"}
        PROVE  /\ lsu_status_cnt' > 0 /\ Waiting(0)' = Waiting(0) /\ Waiting(0).fu = "LOAD"
               /\ st_state' # "VALID_STORE"
               /\ ld_state' = "WAIT_GNT" => ~match
               /\ ctrl.req = Waiting(0)
    <2>1. /\ ~flush(w) /\ ~L!ld_data_req(ctrl)
          /\ (ld_state \in {"IDLE", "SEND_TAG"} /\ v) \/ ld_state = "WAIT_PAGE_OFFSET"
          /\ ld_state' = "WAIT_GNT" => ~match
      BY <1>1, <1>2, <1>3
    <2>2. Waits > 0 /\ ctrl.valid /\ Waiting(0).fu = "LOAD" /\ ctrl.req = Waiting(0)
      <3>1. CASE v
        BY <3>1, HeadOfQueue DEF v, L!ld_valid_i
      <3>2. CASE ld_state = "WAIT_PAGE_OFFSET"
        <4>1. lsu_status_cnt > 0 /\ lsu_status_cnt \in 0..2 /\ Waiting(0).fu = "LOAD"
          BY <3>2 DEF Inv, WaitingLoad, BypassInv
        <4>2. Waits > 0
          BY <4>1 DEF Waits
        <4> QED BY <4>1, <4>2, HeadOfQueue
      <3> QED BY <2>1, <3>1, <3>2
    <2>3. Pops = 0
      BY <2>1, <2>2, Grant
    <2>4. /\ lsu_status_cnt' = Waits - Pops /\ Waits \in 0..2
          /\ Waits' = Waits - Pops + (IF lsu_valid' THEN 1 ELSE 0)
          /\ \A k \in 0..Waits'-1 :
               Waiting(k)' = IF k + Pops < Waits THEN Waiting(k + Pops) ELSE fu_data'
      BY <2>1, QueueStep, HeadOfQueue
    <2>5. 0 \in 0..Waits'-1 /\ 0 + Pops < Waits /\ 0 + Pops = 0 /\ lsu_status_cnt' > 0
      BY <2>2, <2>3, <2>4
    <2>6. Waiting(0)' = Waiting(0)
      BY <2>4, <2>5
    <2>7. st_state' # "VALID_STORE"
      BY <2>2, StoreUnitStep
    <2> QED BY <2>1, <2>2, <2>5, <2>6, <2>7
  <1>4. ASSUME ld_state' = "WAIT_GNT", NEW s \in L!SU!PossibleMatches'
        PROVE  s.addr # Waiting(0)'.st.addr
    <2>1. s \in L!SU!PossibleMatches
      BY <1>3, <1>4, MatchesStep
    <2> QED BY <1>3, <1>4, <2>1 DEF match, L!page_offset_matches
  <1>5. /\ ld_state' \in {"IDLE", "WAIT_GNT", "SEND_TAG", "WAIT_PAGE_OFFSET", "WAIT_FLUSH"}
        /\ ld_state' = "WAIT_FLUSH" <=> flush(w)
    BY <1>1, <1>2
  <1> QED BY <1>3, <1>4, <1>5 DEF WaitingLoad

\* The registers around the memory after a cycle.
LEMMA MemoryStep ==
  ASSUME Inv, NEW issue \in BOOLEAN, NEW instr \in Instr, NEW w \in BOOLEAN,
         Cycle(issue, instr, w)
  PROVE  /\ load_data' \in TransId /\ load_pipe'.tid \in TransId
         /\ ram' \in [Addr -> Data] /\ raddr' \in Addr
         /\ ld_serve_prev' \in BOOLEAN /\ load_pipe'.valid \in BOOLEAN
         /\ ld_serve_prev' <=> L!ld_data_req(ctrl)
         /\ ld_serve_prev' => load_data' = Waiting(0).tid /\ raddr' = Waiting(0).st.addr
         /\ load_pipe'.valid => /\ ld_serve_prev /\ ld_state # "WAIT_FLUSH"
                                /\ load_pipe'.tid = load_data /\ load_pipe'.data = ram[raddr]
         /\ \A a \in Addr : ram'[a] = ram[a] \/ (/\ commit_queue[commit_read_pointer].valid
                                                 /\ a = commit_queue[commit_read_pointer].st.addr)
  <1>1. /\ load_data' = IF L!pop_ld(ctrl) THEN ctrl.req.tid ELSE load_data
        /\ raddr' = IF L!sel_lsu(ctrl) THEN raddr ELSE ctrl.req.st.addr
        /\ ld_serve_prev' = ~L!sel_lsu(ctrl)
        /\ load_pipe' = IF ld_serve_prev /\ ld_state # "WAIT_FLUSH"
                        THEN [valid |-> TRUE, tid |-> load_data, data |-> ram[raddr]]
                        ELSE [valid |-> FALSE, tid |-> 0, data |-> ResetStore.data]
    BY Zenon DEF Cycle, L!Latch, L!LU!Latch, L!pop_ld, L!Sram, L!LoadPipe, L!LU!valid_o, ctrl
  <1>2. ram' = IF L!sel_lsu(ctrl) /\ commit_queue[commit_read_pointer].valid
               THEN [ram EXCEPT ![commit_queue[commit_read_pointer].st.addr] =
                         commit_queue[commit_read_pointer].st.data]
               ELSE ram
    BY DEF Cycle, L!Latch, L!Sram, L!st_data_req, L!SU!data_req_o, L!SU!CommitHead, ctrl
  <1>3. /\ load_data \in TransId /\ ram \in [Addr -> Data] /\ raddr \in Addr
        /\ 0 \in TransId
    BY EntriesAssumption DEF Inv, LoadsServed, TransId
  <1>4. L!ld_data_req(ctrl) =>
          /\ ctrl.req = Waiting(0)
          /\ Waiting(0).tid \in TransId /\ Waiting(0).st.addr \in Addr
    <2>1. L!ld_data_req(ctrl) => ctrl.req = Waiting(0) /\ Unfinished(Waiting(0))
      BY Grant DEF Inv, WaitingInv
    <2>2. \A i \in TransId : mem[i].instr \in Instr \union {ResetInstr}
      BY Ages DEF Inv
    <2>3. \A x \in Instr \union {ResetInstr} : x.st.addr \in Addr
      BY InstrsAssumption DEF ResetInstr
    <2> QED BY <2>1, <2>2, <2>3 DEF Unfinished, InFlight
  <1>5. ~L!sel_lsu(ctrl) <=> L!ld_data_req(ctrl)
    BY Grant
  <1>6. L!pop_ld(ctrl) <=> L!ld_data_req(ctrl)
    BY Grant
  <1>7. commit_queue[commit_read_pointer].st \in [addr : Addr, data : Data]
    BY DEF Inv, L!SU!BufferInv, L!SU!BufferTypeOK, L!SU!QueueEntry, L!Store
  <1>8. ld_serve_prev' \in BOOLEAN /\ (ld_serve_prev' <=> L!ld_data_req(ctrl))
    BY <1>1, <1>5, Zenon DEF L!sel_lsu
  <1>9. /\ load_data' \in TransId /\ raddr' \in Addr
        /\ ld_serve_prev' => load_data' = Waiting(0).tid /\ raddr' = Waiting(0).st.addr
    BY <1>1, <1>3, <1>4, <1>5, <1>6, <1>8
  <1>10. ram' \in [Addr -> Data]
    BY <1>2, <1>3, <1>7
  <1>11. \A a \in Addr : ram'[a] = ram[a] \/ (/\ commit_queue[commit_read_pointer].valid
                                              /\ a = commit_queue[commit_read_pointer].st.addr)
    BY <1>2, <1>3
  <1>12. /\ load_pipe'.tid \in TransId /\ load_pipe'.valid \in BOOLEAN
         /\ load_pipe'.valid => /\ ld_serve_prev /\ ld_state # "WAIT_FLUSH"
                                /\ load_pipe'.tid = load_data /\ load_pipe'.data = ram[raddr]
    <2>1. CASE ld_serve_prev /\ ld_state # "WAIT_FLUSH"
      BY <1>1, <1>3, <2>1
    <2>2. CASE ~(ld_serve_prev /\ ld_state # "WAIT_FLUSH")
      BY <1>1, <1>3, <2>2
    <2> QED BY <2>1, <2>2
  <1> QED BY <1>8, <1>9, <1>10, <1>11, <1>12

\* A load on its way that is not written back in this cycle stays on its way; so
\* does one that is granted the memory.
LEMMA ServedStep ==
  ASSUME Inv, StoresInBuffer, NEW issue \in BOOLEAN, NEW instr \in Instr, NEW w \in BOOLEAN,
         Cycle(issue, instr, w), ScoreboardStep(issue, instr, w), ~flush(w),
         NEW i \in InFlight, i \notin wb_ids, ~mem[i].valid, ~mem[i].instr.ex,
         mem[i].instr.fu = "LOAD", NoStoreAhead(i),
         AheadOfWaiting(i) \/ (Pops = 1 /\ i = Waiting(0).tid)
  PROVE  Served(i, mem[i].instr.st.addr)'
  <1>1. /\ i \in InFlight' /\ Age(i) >= num_commit(w)
        /\ mem'[i].instr = mem[i].instr /\ ~mem'[i].valid
    BY Survives
  <1>2. AheadOfWaiting(i)'
    BY <1>1, AheadStep
  <1>3. NoStoreAhead(i)'
    BY NoStoreAheadStep
  <1> QED BY <1>1, <1>2, <1>3 DEF Served

\* A load is served with the data of the youngest older store.
LEMMA LoadsStep ==
  ASSUME Inv, StoresInBuffer, NEW issue \in BOOLEAN, NEW instr \in Instr, NEW w \in BOOLEAN,
         Cycle(issue, instr, w), ScoreboardStep(issue, instr, w)
  PROVE  LoadsServed'
  <1>1. ld_state' = "WAIT_FLUSH" <=> flush(w)
    BY WaitingLoadStep
  <1>2. flush(w) => issue_cnt' = 0
    BY DEF ScoreboardStep
  <1>3. ASSUME ld_serve_prev', ~flush(w) PROVE Served(load_data, raddr)'
    <2>1. L!ld_data_req(ctrl) /\ load_data' = Waiting(0).tid /\ raddr' = Waiting(0).st.addr
      BY <1>3, MemoryStep
    <2>2. /\ Waits > 0 /\ 0 \in 0..Waits-1 /\ Pops = 1 /\ ctrl.req = Waiting(0)
          /\ Waiting(0).fu = "LOAD" /\ ~L!page_offset_matches(ctrl)
      BY <2>1, Grant
    <2>3. PICK i : i = Waiting(0).tid
      OBVIOUS
    <2>4. /\ i \in InFlight /\ ~mem[i].valid /\ ~mem[i].instr.ex
          /\ mem[i].instr.fu = "LOAD" /\ mem[i].instr.st = Waiting(0).st
      BY <2>2, <2>3 DEF Inv, WaitingInv, Unfinished
    <2>5. i \notin wb_ids
      BY <2>2, <2>3, WaitingNotWritten
    <2>6. NoStoreAhead(i)
      BY <2>2, <2>3, NoMatchNoStore DEF L!page_offset_matches
    <2>7. Served(i, mem[i].instr.st.addr)'
      BY <1>3, <2>2, <2>3, <2>4, <2>5, <2>6, ServedStep
    <2>8. mem'[i].instr = mem[i].instr
      BY <1>3, <2>4, Survives
    <2>9. load_data' = i /\ raddr' = mem'[i].instr.st.addr
      BY <2>1, <2>3, <2>4, <2>8
    <2> QED BY <2>7, <2>9 DEF Served, AheadOfWaiting, NoStoreAhead, InFlightStores, Older, Age
  <1>4. ASSUME load_pipe'.valid, ~flush(w)
        PROVE  /\ Served(load_pipe.tid, mem[load_pipe.tid].instr.st.addr)'
               /\ load_pipe'.data = ram'[mem'[load_pipe'.tid].instr.st.addr]
               /\ ld_serve_prev' => load_pipe'.tid # load_data'
    <2>1. PICK i : i = load_data
      OBVIOUS
    <2>2. /\ ld_serve_prev /\ ld_state # "WAIT_FLUSH"
          /\ load_pipe'.tid = i /\ load_pipe'.data = ram[raddr]
      BY <1>4, <2>1, MemoryStep
    <2>3. Served(i, raddr)
      BY <2>1, <2>2 DEF Inv, LoadsServed
    <2>4. i \in InFlight /\ i \in TransId
      BY <2>3 DEF Served, InFlight
    <2>5. i \notin wb_ids
      BY <2>1, <2>2, <2>3, <2>4, WrittenByItsUnit, Zenon DEF Served, Inv, LoadsServed
    <2>6. Served(i, mem[i].instr.st.addr)'
      BY <1>4, <2>3, <2>4, <2>5, ServedStep, Zenon DEF Served
    <2>7. mem'[i].instr = mem[i].instr /\ mem[i].instr.st.addr = raddr
      BY <1>4, <2>3, <2>4, Survives DEF Served
    <2>8. ram'[raddr] = ram[raddr]
      <3>1. raddr \in Addr /\ commit_read_pointer \in 0..DEPTH_COMMIT-1
        BY DEF Inv, LoadsServed, L!SU!BufferInv, L!SU!BufferTypeOK
      <3>2. commit_queue[commit_read_pointer].valid =>
                commit_queue[commit_read_pointer].st.addr # raddr
        BY <2>3, <3>1 DEF Served, NoStoreAhead
      <3> QED BY <3>1, <3>2, MemoryStep
    <2>9. ld_serve_prev' => i # load_data'
      <3>1. ld_serve_prev' => load_data' = Waiting(0).tid /\ 0 \in 0..Waits-1
        BY Grant, MemoryStep
      <3>2. ld_serve_prev' => Age(i) < Age(Waiting(0).tid)
        BY <2>3, <3>1 DEF Served, AheadOfWaiting
      <3>3. Age(i) \in Int
        BY <2>4, Ages, EntriesAssumption DEF Inv
      <3> QED BY <3>1, <3>2, <3>3
    <2> QED BY <2>2, <2>6, <2>7, <2>8, <2>9
            DEF Served, AheadOfWaiting, NoStoreAhead, InFlightStores, Older, Age
  <1> QED BY <1>1, <1>2, <1>3, <1>4, MemoryStep DEF LoadsServed

-----------------------------------------------------------------------------
(***************************************************************************)
(* Flushes and fences.                                                     *)
(***************************************************************************)

\* A flush leaves no store in the unit.
LEMMA FlushedStores ==
  ASSUME Inv, NEW issue \in BOOLEAN, NEW instr \in Instr, NEW w \in BOOLEAN,
         Cycle(issue, instr, w), ScoreboardStep(issue, instr, w), flush(w)
  PROVE  /\ StoresInOrder'
         /\ FinishedStores' = {} /\ speculative_status_cnt' = 0
  <1>1. InFlight' = {}
    BY FlushStep, Zenon
  <1>2. FinishedStores' = {}
    BY <1>1 DEF FinishedStores
  <1>3. /\ st_state' \in {"IDLE", "VALID_STORE", "WAIT_STORE_READY"}
        /\ st_q' \in L!Store /\ st_state' # "VALID_STORE"
    BY StoreUnitStep
  <1>4. speculative_status_cnt' = 0
    BY RoomStep
  <1>5. speculative_status_cnt' + (IF st_state' = "VALID_STORE" THEN 1 ELSE 0) <= DEPTH_SPEC
    BY RoomStep
  <1> QED BY <1>1, <1>2, <1>3, <1>4, <1>5 DEF StoresInOrder

\* The request queue never overflows, and one unit at most takes its head.
LEMMA InvBypassRoom ==
  ASSUME Inv
  PROVE  BypassRoom
  <1>1. Waits <= 2
    BY DEF Inv, BypassInv
  <1>2. \A c \in BOOLEAN : ~(L!pop_ld(ctrl) /\ L!pop_st(ctrl, c))
    BY HeadOfQueue
  <1> QED BY <1>1, <1>2 DEF BypassRoom, Waits

\* A fence that leaves the scoreboard leaves it with a flush, in a cycle in which
\* the commit queue is empty; it stays empty.
LEMMA FenceStep ==
  ASSUME Inv, NEW issue \in BOOLEAN, NEW instr \in Instr, NEW w \in BOOLEAN,
         Cycle(issue, instr, w), ScoreboardStep(issue, instr, w), FenceRetires
  PROVE  /\ L!SU!store_buffer_empty_o'
         /\ st_state' # "VALID_STORE" /\ ~lsu_valid' /\ lsu_status_cnt' = 0
  <1>1. /\ mem[commit_pointer[0]].valid /\ ~Oldest.ex /\ Oldest.fu = "CSR"
        /\ ~mem'[commit_pointer[0]].issued
    BY DEF FenceRetires, Retirable, Sb!commit_instr_valid
  <1>2. /\ commit_pointer[0] \in InFlight /\ commit_pointer[0] \in TransId
        /\ Age(commit_pointer[0]) = 0
    <2>1. commit_pointer[0] \in TransId
      BY Ages DEF Inv
    <2> QED BY <1>1, <2>1, Ages DEF Inv
  <1>3. commit_ack0(w)
    <2>1. ASSUME ~commit_ack0(w) PROVE FALSE
      <3>1. num_commit(w) = 0 /\ ~flush(w)
        BY <1>1, <2>1 DEF num_commit, commit_ack1, flush, exception_valid
      <3>2. commit_pointer[0] \in InFlight'
        BY <1>2, <3>1 DEF ScoreboardStep
      <3> QED BY <1>1, <3>2 DEF InFlight
    <2> QED BY <2>1
  <1>4. flush(w) /\ commit_status_cnt = 0
    BY <1>1, <1>3 DEF flush, commit_ack0, L!SU!no_st_pending_o
  <1>5. ~commit_lsu
    BY <1>1 DEF commit_lsu
  <1>6. ~commit_queue[commit_read_pointer].valid
    BY <1>4, DepthsAssumption
       DEF Inv, L!SU!BufferInv, L!SU!BufferTypeOK, L!SU!CommitWindow, L!SU!QueueWindow, L!SU!Dist
  <1>7. commit_status_cnt' = 0
    <2>1. \E g : commit_status_cnt' = L!SU!commit_status_cnt_n(commit_lsu, g)
      BY Zenon DEF Cycle, L!Latch, L!SU!UnitLatch, L!SU!StoreIf
    <2>2. \A g : ~L!SU!pop(g)
      BY <1>6 DEF L!SU!pop, L!SU!data_req_o
    <2>3. PICK g : commit_status_cnt' = L!SU!commit_status_cnt_n(commit_lsu, g)
      BY <2>1
    <2> QED BY <1>4, <1>5, <2>2, <2>3 DEF L!SU!commit_status_cnt_n
  <1>8. speculative_status_cnt' = 0 /\ st_state' # "VALID_STORE"
    BY <1>4, RoomStep, StoreUnitStep
  <1>9. /\ Waits' = 0 /\ lsu_valid' = FALSE
    BY <1>4, FlushStep, Zenon
  <1>10. lsu_status_cnt' = 0
    BY <1>4 DEF Cycle, L!Latch, L!Bypass
  <1> QED BY <1>7, <1>8, <1>9, <1>10 DEF L!SU!store_buffer_empty_o, L!SU!no_st_pending_o

-----------------------------------------------------------------------------
(***************************************************************************)
(* What the invariant says of the answers of the units.                    *)
(***************************************************************************)

\* A load that writes back has the value of the youngest older store: there is
\* none left on the way, so that the memory holds it.
LEMMA InvLoadsReadLatestStore ==
  ASSUME Inv
  PROVE  LoadsReadLatestStore
  <1> SUFFICES ASSUME load_pipe.valid, mem[load_pipe.tid].issued
               PROVE  /\ mem[load_pipe.tid].instr.fu = "LOAD" /\ ~mem[load_pipe.tid].instr.ex
                      /\ ~mem[load_pipe.tid].valid
                      /\ load_pipe.data = Expected(load_pipe.tid)
    BY DEF LoadsReadLatestStore
  <1> DEFINE i == load_pipe.tid
             addr == mem[i].instr.st.addr
  <1>1. i \in TransId /\ i \in InFlight
    BY DEF Inv, LoadsServed, InFlight
  <1>2. ld_state # "WAIT_FLUSH"
    <2>1. Age(i) \in 0..NR_ENTRIES-1 /\ Age(i) < issue_cnt
      BY <1>1, Ages DEF Inv
    <2> QED BY <2>1 DEF Inv, LoadsServed
  <1>3. Served(i, addr) /\ load_pipe.data = ram[addr]
    BY <1>2 DEF Inv, LoadsServed
  <1>4. InFlightStores(i) = {}
    BY <1>3 DEF Served, NoStoreAhead
  <1>5. RetiredStores(addr) = {}
    <2> SUFFICES ASSUME NEW n \in 0..commit_status_cnt-1
                 PROVE  commit_queue[L!SU!Wrap(commit_read_pointer, n, DEPTH_COMMIT)].st.addr # addr
      BY DEF RetiredStores
    <2> DEFINE j == L!SU!Wrap(commit_read_pointer, n, DEPTH_COMMIT)
    <2>1. /\ commit_read_pointer \in 0..DEPTH_COMMIT-1
          /\ commit_status_cnt \in 0..DEPTH_COMMIT
      BY DEF Inv, L!SU!BufferInv, L!SU!BufferTypeOK
    <2>2. /\ j \in 0..DEPTH_COMMIT-1
          /\ L!SU!Dist(commit_read_pointer, j, DEPTH_COMMIT) < commit_status_cnt
      BY <2>1, DepthsAssumption DEF L!SU!Wrap, L!SU!Dist
    <2> HIDE DEF j
    <2>3. commit_queue[j].valid
      BY <2>2 DEF Inv, L!SU!BufferInv, L!SU!CommitWindow, L!SU!QueueWindow
    <2>4. commit_queue[j].st.addr # addr
      BY <1>3, <2>2, <2>3 DEF Served, NoStoreAhead
    <2> QED BY <2>4 DEF j
  <1>6. Expected(i) = ram[addr]
    BY <1>4, <1>5 DEF Expected
  <1> QED BY <1>3, <1>6 DEF Served

\* Two units never write back the same instruction, nor after a flush one that
\* was dropped.
LEMMA WriteBacksDiffer ==
  ASSUME Inv
  PROVE  /\ load_pipe.valid /\ st_state = "VALID_STORE" => load_pipe.tid # st_trans_id
         /\ load_pipe.valid /\ csr_valid => load_pipe.tid # fu_data.tid
         /\ st_state = "VALID_STORE" /\ csr_valid => st_trans_id # fu_data.tid
  <1>1. st_state = "VALID_STORE" =>
          st_trans_id \in InFlight /\ mem[st_trans_id].instr.fu = "STORE"
    BY DEF Inv, StoresInOrder, Unfinished, Posting
  <1>2. csr_valid => fu_data.tid \in InFlight /\ mem[fu_data.tid].instr.fu = "CSR"
    BY DEF Inv, WaitingInv, Unfinished
  <1>3. \A i \in InFlight : i \in TransId /\ ld_state # "WAIT_FLUSH"
    <2> SUFFICES ASSUME NEW i \in InFlight PROVE i \in TransId /\ ld_state # "WAIT_FLUSH"
      OBVIOUS
    <2>1. i \in TransId
      BY DEF InFlight
    <2>2. Age(i) \in 0..NR_ENTRIES-1 /\ Age(i) < issue_cnt
      BY <2>1, Ages DEF Inv
    <2> QED BY <2>1, <2>2 DEF Inv, LoadsServed
  <1>4. load_pipe.valid /\ ld_state # "WAIT_FLUSH" => mem[load_pipe.tid].instr.fu = "LOAD"
    BY DEF Inv, LoadsServed, Served
  <1> QED BY <1>1, <1>2, <1>3, <1>4

\* The payloads and pointers of the speculative queue after a cycle without
\* flush.
LEMMA PayloadStep ==
  ASSUME Inv, NEW issue \in BOOLEAN, NEW instr \in Instr, NEW w \in BOOLEAN,
         Cycle(issue, instr, w), ~flush(w)
  PROVE  /\ speculative_read_pointer' = IF commit_lsu THEN L!SU!Incr(speculative_read_pointer, DEPTH_SPEC)
                                        ELSE speculative_read_pointer
         /\ \A j \in 0..DEPTH_SPEC-1 :
              speculative_queue'[j].st = IF st_state = "VALID_STORE" /\ j = speculative_write_pointer
                                         THEN st_q ELSE speculative_queue[j].st
  <1>1. L!SU!CoreIf(L!SU!st_valid(flush(w)), st_q, commit_lsu, flush(w))
    BY Zenon DEF Cycle, L!Latch, L!SU!UnitLatch
  <1>2. L!SU!st_valid(flush(w)) <=> st_state = "VALID_STORE"
    BY DEF L!SU!st_valid
  <1> DEFINE pushed == L!SU!Pushed(L!SU!st_valid(flush(w)), st_q)
  <1>3. /\ pushed \in [0..DEPTH_SPEC-1 -> [st : L!Store, valid : BOOLEAN]]
        /\ \A j \in 0..DEPTH_SPEC-1 :
              pushed[j].st = IF st_state = "VALID_STORE" /\ j = speculative_write_pointer
                             THEN st_q ELSE speculative_queue[j].st
    <2>1. /\ speculative_queue \in [0..DEPTH_SPEC-1 -> [st : L!Store, valid : BOOLEAN]]
          /\ speculative_write_pointer \in 0..DEPTH_SPEC-1 /\ st_q \in L!Store
      BY DEF Inv, L!SU!BufferInv, L!SU!BufferTypeOK, L!SU!QueueEntry, StoresInOrder
    <2> DEFINE e == [st |-> st_q, valid |-> TRUE]
    <2>2. e \in [st : L!Store, valid : BOOLEAN] /\ e.st = st_q
      BY <2>1
    <2> HIDE DEF e
    <2>3. pushed = IF st_state = "VALID_STORE"
                   THEN [speculative_queue EXCEPT ![speculative_write_pointer] = e]
                   ELSE speculative_queue
      BY <1>2 DEF L!SU!Pushed, e
    <2> HIDE DEF pushed
    <2> QED BY <2>1, <2>2, <2>3
  <1>4. speculative_queue' = IF commit_lsu
                             THEN [pushed EXCEPT ![speculative_read_pointer].valid = FALSE]
                             ELSE pushed
    BY <1>1 DEF L!SU!CoreIf, L!SU!speculative_queue_n, L!SU!Retired
  <1> HIDE DEF pushed
  <1>5. \A j \in 0..DEPTH_SPEC-1 : speculative_queue'[j].st = pushed[j].st
    BY <1>3, <1>4
  <1>6. speculative_read_pointer' = IF commit_lsu THEN L!SU!Incr(speculative_read_pointer, DEPTH_SPEC)
                                    ELSE speculative_read_pointer
    BY <1>1 DEF L!SU!CoreIf, L!SU!speculative_read_pointer_n, L!SU!Incr
  <1> QED BY <1>3, <1>5, <1>6
==============================================================================
