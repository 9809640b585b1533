--------------------------- MODULE MCBackendLive ---------------------------
(***************************************************************************)
(* Progress of the back end.  The clock never stops: every behaviour is an *)
(* infinite sequence of cycles, some of which may leave all registers      *)
(* unchanged.  The variable clk makes each of them a step, and weak        *)
(* fairness of the clock is the only fairness assumed; what the decoder    *)
(* offers stays free.  Fences are left out, because their retirement also  *)
(* waits for dcache_commit_wbuffer_empty, which nothing drives.            *)
(***************************************************************************)
EXTENDS Backend

VARIABLE clk

MCReset == [addr |-> "a", data |-> 0]
MCInstr == {[fu |-> "LOAD", st |-> MCReset, ex |-> FALSE],
            [fu |-> "LOAD", st |-> [addr |-> "b", data |-> 0], ex |-> FALSE],
            [fu |-> "STORE", st |-> MCReset, ex |-> FALSE]}

Tick == Next /\ clk' = 1 - clk
LiveSpec == Init /\ clk = 0 /\ [][Tick]_<<vars, clk>> /\ WF_<<vars, clk>>(Tick)

\* Instructions keep retiring while any is in flight, so that, retiring in
\* order, each one leaves: no load waits for ever for a page offset that keeps
\* matching, no store for room (load_unit.sv WAIT_PAGE_OFFSET, store_unit.sv
\* WAIT_STORE_READY).
InstructionsLeave == []<>(issue_cnt = 0 \/ num_commit(TRUE) > 0)

\* Retired stores keep being written to memory although loads go first at the
\* memory port (sel_lsu): the narrow scoreboard leaves cycles without a load.
RetiredStoresReachMemory == []<>(~L!st_data_req \/ L!sel_lsu(ctrl))
=============================================================================
