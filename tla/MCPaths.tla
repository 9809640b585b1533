------------------------------ MODULE MCPaths -------------------------------
(***************************************************************************)
(* Three PLs, a and c of one FSM and so never occupied at the same time.   *)
(* A design has up to two executions, with two PLs in common; Visits are   *)
(* the edges at which a PL may be occupied.  Every execution visits a.     *)
(***************************************************************************)
EXTENDS Paths

CONSTANTS a, b, c

MCPL == {a, b, c}
MCT == 5
MCiid_map == [s \in MCPL |-> IF s = b THEN "fsm2" ELSE "fsm1"]
Visits(s) == CASE s = a -> {{4}, {2, 3}, {2, 3, 4}}
               [] s = b -> {{}, {3}, {4}, {2, 3}, {3, 4}}
               [] s = c -> {{}, {4}}
MCTraces == {[n \in 1..5 |-> {s \in MCPL : n \in v[s]}] :
               v \in {w \in [MCPL -> SUBSET (2..4)] :
                        w[a] \cap w[c] = {} /\ \A s \in MCPL : w[s] \in Visits(s)}}
MCDesigns == {d \in {{t, u} : t, u \in MCTraces} :
                \E s, r \in MCPL : s # r /\ \A t \in d : {s, r} \subseteq Visited(t)}
MCdfg_e == <<<<a, b>>, <<b, a>>, <<a, c>>, <<c, a>>, <<b, c>>, <<c, b>>>>
MCpl_names == <<b, a, c>>
\* No count, one that makes a PL a single-cycle one or a long one, and one above every stay.
MCEstimates == {0, 1, 2, 4}
MCDfgs == {{MCdfg_e[i] : i \in DOMAIN MCdfg_e}, {MCdfg_e[i] : i \in DOMAIN MCdfg_e} \ {<<b, a>>}}
=============================================================================
