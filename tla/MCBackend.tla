----------------------------- MODULE MCBackend -----------------------------
(***************************************************************************)
(* The back end with the sizes of ariane_pkg.sv (four scoreboard entries,  *)
(* two commit ports, store queues of two and two), two addresses and two   *)
(* data values; loads, stores, fences, and a store that carries an         *)
(* exception from the decoder.                                             *)
(***************************************************************************)
EXTENDS Backend

MCReset == [addr |-> "a", data |-> 0]
MCInstr ==
    {[fu |-> "LOAD", st |-> [addr |-> a, data |-> 0], ex |-> FALSE] : a \in {"a", "b"}}
    \union {[fu |-> "STORE", st |-> [addr |-> a, data |-> d], ex |-> FALSE] :
               a \in {"a", "b"}, d \in {0, 1}}
    \union {[fu |-> "CSR", st |-> MCReset, ex |-> FALSE],
            [fu |-> "STORE", st |-> MCReset, ex |-> TRUE]}

\* The state without what cannot be observed: payloads of entries that are not
\* in use.
Live(queue) == [i \in DOMAIN queue |-> IF queue[i].valid THEN queue[i].st ELSE "-"]
Observable ==
    <<[i \in TransId |-> IF mem[i].issued THEN mem[i] ELSE "-"],
      issue_cnt, issue_pointer, commit_pointer, issueVars,
      [i \in 0..1 |-> IF lsu_mem[i].valid THEN lsu_mem[i] ELSE "-"],
      lsu_read_pointer, lsu_write_pointer, lsu_status_cnt,
      ld_state, IF ld_serve_prev THEN <<load_data, raddr>> ELSE "-",
      st_state, st_q, st_trans_id,
      Live(speculative_queue), speculative_read_pointer, speculative_write_pointer,
      speculative_status_cnt, Live(commit_queue), commit_read_pointer,
      commit_write_pointer, commit_status_cnt, ram, ld_serve_prev, load_pipe>>
=============================================================================
