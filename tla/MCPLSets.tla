------------------------------ MODULE MCPLSets -------------------------------
(***************************************************************************)
(* PLSets with three PLs, the first two on one register, and every design  *)
(* that has one or two executions of at most two cycles.                   *)
(***************************************************************************)
EXTENDS PLSets

CONSTANTS A, B

MCIid == <<A, A, B>>

Runs == {r \in [PL -> 0 .. 2] : \E p \in PL : r[p] > 0}

MCDesigns == {{r, s} : r, s \in Runs}

File(excl, impl, pls) == [exclusive_set_iids |-> excl, implication_set_iids |-> impl,
                          implication_set_pls |-> pls]

MCFiles == {File({}, {}, {}), File({<<A, B>>}, {}, {}), File({}, {<<A, B>>}, {}),
            File({}, {<<B, A>>}, {<<1, 2>>}), File({<<B, A>>}, {<<A, B>>}, {})}
=============================================================================
