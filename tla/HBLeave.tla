------------------------------ MODULE HBLeave ------------------------------
(***************************************************************************)
(* Step 6 of the synthesis: how the final cycle of a stay of two cycles or *)
(* more is ordered against the entries and the final cycles of other PLs   *)
(* (fv/synthlc/xHBPerfG_leaving/xHBPerfG_leaving.py).  It starts from the  *)
(* files of step 4 (module HBEnter) and from the number of cycles that     *)
(* step 5 found a PL to be occupied for.                                   *)
(*                                                                         *)
(* A relation is written as the script writes it, <<f0, e0, f1, e1>> with  *)
(* flag 1 for the final cycle and 0 for the entry.  A property is          *)
(* <<"HB" | "WHB" | "WHB_CONCUR", relation>>.                              *)
(***************************************************************************)
EXTENDS HBEnter, Relation

CONSTANTS iid_map,    \* perfloc_signals.txt: the FSM a PL belongs to
          Estimates   \* what step 5 may write for a PL when probes of it time out

ASSUME IidAssumption == DOMAIN iid_map = PL
ASSUME EstimateAssumption == Estimates \subseteq Nat

VARIABLES
    max_cycle_per_pl,        \* its file: the longest stay in a PL, as step 5 found it
    asked,                   \* properties written and not yet proved
    answer,                  \* the csv files: result and precondition of a property
    leaving_hb, leaving_whb, leaving_concur   \* the files of pp

leavingFiles == <<leaving_hb, leaving_whb, leaving_concur>>
leaveVars == <<max_cycle_per_pl, asked, answer, leavingFiles>>
vars == <<enterVars, leaveVars>>

over1cyc_pl == {s \in DOMAIN max_cycle_per_pl : max_cycle_per_pl[s] > 1}

-----------------------------------------------------------------------------
\* get_array reads a line "a,b" as a list; the script looks tuples up.
PyList(e) == [type |-> "list", items |-> e]
PyTuple(e) == [type |-> "tuple", items |-> e]
enter_concurrent_pairs == {PyList(e) : e \in aws_concurrent}

\* TC_per_set: the closure of the proven edges inside one reachable set; its
\* nodes are the ends of those edges.
DG(aSet) == {e \in hb_proven : e[1] \in aSet /\ e[2] \in aSet}
EndsOf(edges) == UNION {{e[1], e[2]} : e \in edges}
TC_per_set(aSet) == LET es == DG(aSet)
                    IN  TransitiveClosure([x, y \in EndsOf(es) |-> <<x, y>> \in es], EndsOf(es))

e_in_tc_edge(e) == \A aSet \in reachable_sets :
                      {e[1], e[2]} \subseteq EndsOf(DG(aSet)) => TC_per_set(aSet)[e[1], e[2]]

\* The relations asked about an edge: the final cycle of e0 against the entry of
\* e1 unless e1 is known to be entered first, the entry of e0 against the final
\* cycle of e1 unless e0 is, and the two final cycles.
Edge(r) == <<r[2], r[4]>>
Wanted(r) ==
    LET e == Edge(r)
    IN  /\ e \in Asked
        /\ iid_map[e[1]] # iid_map[e[2]]
        /\ r[1] = 1 => e[1] \in over1cyc_pl
        /\ r[3] = 1 => e[2] \in over1cyc_pl
        /\ r[3] = 0 => ~e_in_tc_edge(Rev(e)) /\ PyTuple(Rev(e)) \notin enter_concurrent_pairs
        /\ r[1] = 0 => ~e_in_tc_edge(e) /\ PyTuple(e) \notin enter_concurrent_pairs
Relations == {r \in {0, 1} \X PL \X {0, 1} \X PL : r[1] + r[3] > 0}
check_e == {r \in Relations : Wanted(r)}

-----------------------------------------------------------------------------
\* JasperGold on one execution: the assertion, and its precondition.
Sva(p, t) ==
    LET r == p[2] s1 == r[2] s2 == r[4]
    IN  CASE p[1] = "HB" /\ r[3] = 0 -> HB_LEAVING(t, s1, s2)
          [] p[1] = "WHB" /\ r[3] = 0 -> WHB_LEAVING(t, s1, s2)
          [] p[1] = "WHB_CONCUR" /\ r[3] = 0 -> CONCUR_LEAVING(t, s1, s2)
          [] p[1] = "HB" /\ r[1] = 0 -> HB_ENTER_LEAVING(t, s1, s2)
          [] p[1] = "WHB" /\ r[1] = 0 -> WHB_ENTER_LEAVING(t, s1, s2)
          [] p[1] = "WHB_CONCUR" /\ r[1] = 0 -> CONCUR_ENTER_LEAVING(t, s1, s2)
          [] p[1] = "HB" /\ r[1] = 1 /\ r[3] = 1 -> HB_LEAVING_LEAVING(t, s1, s2)
          [] p[1] = "WHB" /\ r[1] = 1 /\ r[3] = 1 -> WHB_LEAVING_LEAVING(t, s1, s2)
          [] p[1] = "WHB_CONCUR" /\ r[1] = 1 /\ r[3] = 1 -> CONCUR_LEAVING_LEAVING(t, s1, s2)
Triggered(p, t) ==
    LET r == p[2] s1 == r[2] s2 == r[4]
    IN  CASE r[1] = 1 -> LeftCovered(t, s1, s2)
          [] r[1] = 0 /\ p[1] = "HB" -> EnterSeenCovered(t, s1, s2)
          [] r[1] = 0 /\ p[1] = "WHB" -> EnterHpnCovered(t, s1, s2)
          [] r[1] = 0 /\ p[1] = "WHB_CONCUR" -> EnterStayCovered(t, s1, s2)

\* Mutant: the WHB file assumes it too.
AssumedInBoth(p) ==
    IF p[2][4] \in over1cyc_pl
    THEN {t \in exec : S2_STAY_AT_LEAST_TWO(t, p[2][4])} ELSE exec

\* The executions a property is proved over: gen's mod_f assumes a long stay in
\* e1 where it can have one, gen_s2's does not.
Over(p) ==
    IF p[1] = "HB" /\ p[2][4] \in over1cyc_pl
    THEN {t \in exec : S2_STAY_AT_LEAST_TWO(t, p[2][4])} ELSE exec

Truth(p) ==
    [result |-> IF \A t \in Over(p) : Sva(p, t) THEN "proven" ELSE "cex",
     precond |-> IF \E t \in Over(p) : Triggered(p, t) THEN "covered" ELSE "unreachable"]

\* One property file an edge: a report that is lost takes the edge's properties
\* with it, a time-out one result.
prove_leaving(from, to) ==
    /\ pc = from /\ pc' = to
    /\ \E lost \in Hit({Edge(p[2]) : p \in asked}) :
       \E slow \in Hit(asked \X {"result", "precond"}) :
          /\ faults' = faults + Cardinality(lost) + Cardinality(slow)
          /\ faults' <= Faults
          /\ answer' =
               [p \in DOMAIN answer \cup {q \in asked : Edge(q[2]) \notin lost} |->
                  IF p \in DOMAIN answer THEN answer[p]
                  ELSE [f \in {"result", "precond"} |->
                          IF <<p, f>> \in slow THEN "undetermined" ELSE Truth(p)[f]]]
    /\ asked' = {}
    /\ UNCHANGED <<inputs, out, report, whb_todo, results, max_cycle_per_pl, leavingFiles>>

-----------------------------------------------------------------------------
LeaveInit == EnterInit /\ max_cycle_per_pl = <<>> /\ asked = {} /\ answer = <<>>
                       /\ leaving_hb = {} /\ leaving_whb = {} /\ leaving_concur = {}

\* Step 5 covers stays of k cycles that are then left.  As a stay contains the end of
\* every shorter one, the longest is the number of lengths.
consec(t, s, n, k) == n + k <= T /\ s \notin t[n + k] /\ \A m \in n .. n + k - 1 : s \in t[m]
max_cyc(s) == Cardinality({k \in 1..T : \E t \in exec, n \in 1..T : consec(t, s, n, k)})
cv_perflocs == UNION {Visited(t) : t \in exec}

\* gen: one file an edge, with the HB form of the relations asked about it.  The count
\* of a PL is exact unless a probe times out: proc then settles on a length that was
\* not refuted, which may be shorter or longer (module CycleSearch).
gen_leaving ==
    /\ pc = "entered" /\ pc' = "prove_leaving"
    /\ \E late \in Hit(cv_perflocs) : \E guess \in [late -> Estimates] :
          /\ max_cycle_per_pl' = [s \in cv_perflocs |-> IF s \in late THEN guess[s] ELSE max_cyc(s)]
          /\ faults' = faults + Cardinality(late)
    /\ UNCHANGED <<inputs, out, report, whb_todo, results, answer, leavingFiles>>
    /\ asked' = {<<"HB", r>> : r \in check_e'}

Result(k, r) == answer[<<k, r>>].result
Proven(k, r) == Result(k, r) = "proven" /\ answer[<<k, r>>].precond = "covered"

\* gen_s2: the other two forms of the relations that were refuted.  read_csv raises
\* where a report is missing.
gen_s2_leaving ==
    /\ pc = "gen_s2_leaving"
    /\ IF \E r \in check_e : <<"HB", r>> \notin DOMAIN answer
       THEN pc' = "aborted" /\ UNCHANGED asked
       ELSE /\ pc' = "prove_s2_leaving"
            /\ asked' = {<<k, r>> : k \in {"WHB", "WHB_CONCUR"},
                                    r \in {q \in check_e : Result("HB", q) = "cex"}}
    /\ UNCHANGED <<inputs, out, report, faults, whb_todo, results,
                   max_cycle_per_pl, answer, leavingFiles>>

Refuted == {r \in check_e : Result("HB", r) = "cex"}
Flip(r) == <<r[3], r[4], r[1], r[2]>>

\* Mutant of pp_leaving: a missing report is passed over, as in step 4.
SkipMissing ==
    LET there == {r \in check_e : <<"HB", r>> \in DOMAIN answer}
        again == {r \in there : Result("HB", r) = "cex" /\ <<"WHB", r>> \in DOMAIN answer}
    IN  /\ pc = "pp_leaving" /\ pc' = "left"
        /\ leaving_hb' = {r \in there : Proven("HB", r)}
        /\ leaving_concur' = {r \in again : Proven("WHB_CONCUR", r)}
        /\ leaving_whb' = {r \in again : Proven("WHB", r) /\ {r, Flip(r)} \cap leaving_concur' = {}}
        /\ UNCHANGED <<inputs, out, report, faults, whb_todo, results, max_cycle_per_pl, asked, answer>>

\* pp: every report must be there; a relation is kept where its form is proven and
\* its precondition covered.
pp_leaving ==
    /\ pc = "pp_leaving"
    /\ IF \E r \in Refuted : <<"WHB", r>> \notin DOMAIN answer
       THEN pc' = "aborted" /\ UNCHANGED leavingFiles
       ELSE /\ pc' = "left"
            /\ leaving_hb' = {r \in check_e : Proven("HB", r)}
            /\ leaving_concur' = {r \in Refuted : Proven("WHB_CONCUR", r)}
            /\ leaving_whb' = {r \in Refuted :
                                 /\ Proven("WHB", r)
                                 /\ {r, Flip(r)} \cap leaving_concur' = {}}
    /\ UNCHANGED <<inputs, out, report, faults, whb_todo, results, max_cycle_per_pl, asked, answer>>

LeaveNext ==
    \/ gen_leaving \/ prove_leaving("prove_leaving", "gen_s2_leaving")
    \/ gen_s2_leaving \/ prove_leaving("prove_s2_leaving", "pp_leaving")
    \/ pp_leaving

\* Steps 4 to 6 on their own; the later steps change none of these variables but pc
\* and faults.
LeaveSpec == LeaveInit /\ [][(EnterNext /\ UNCHANGED leaveVars) \/ LeaveNext]_vars

-----------------------------------------------------------------------------
\* Final cycle of s, and the cycle an end of a relation stands for.
Final(t, s) == CHOOSE n \in 1..T : s \in t[n] /\ \A m \in 1..T : s \in t[m] => m <= n
Time(t, final, s) == IF final = 1 THEN Final(t, s) ELSE First(t, s)
Before(t, r) == Time(t, r[1], r[2]) < Time(t, r[3], r[4])
NotAfter(t, r) == Time(t, r[1], r[2]) <= Time(t, r[3], r[4])
SameCycle(t, r) == Time(t, r[1], r[2]) = Time(t, r[3], r[4])

\* A PL is occupied in one stay, begun after the first edge and over before the last.
OneStay(t, s) == /\ First(t, s) >= 2 /\ Final(t, s) < T
                 /\ \A n \in First(t, s) .. Final(t, s) : s \in t[n]

\* The hypothesis of the theorems on steps 6 to 8: in every execution of every design a PL
\* is occupied in one stay.  A PL that is left and entered again has several final
\* cycles, of which a relation means the last and the templates every one.
SingleStays == \A d \in Designs : \A t \in d : \A s \in Visited(t) : OneStay(t, s)

\* The executions a relation speaks of: both ends are visited, and a final cycle
\* is that of a stay of two cycles or more.
Speaks(t, r) == /\ Together(t, Edge(r))
                /\ r[1] = 1 => S2_STAY_AT_LEAST_TWO(t, r[2])
                /\ r[3] = 1 => S2_STAY_AT_LEAST_TWO(t, r[4])
\* gen assumes the long stay of e1 also where only its entry is compared.
Assumed(t, r) == r[4] \in over1cyc_pl => S2_STAY_AT_LEAST_TWO(t, r[4])

\* Soundness of the leaving files, whatever times out or gets lost: in every
\* execution the relation speaks of, leaving_hb_proven.txt orders the two cycles,
\* leaving_whb_proven.txt does not order them wrongly, and a final cycle of
\* leaving_concur_proven.txt coincides with the entry or final cycle it is listed
\* with.  (An entry of s1 listed with the final cycle of s2 is excluded: its
\* assertion starts from $past(!s1_hpn) && s1, which a second cycle meets too.)
LeavingSound ==
    \A t \in exec :
       /\ \A r \in leaving_hb : Speaks(t, r) /\ Assumed(t, r) => Before(t, r)
       /\ \A r \in leaving_whb : Speaks(t, r) => NotAfter(t, r)
       /\ \A r \in leaving_concur : r[1] = 1 /\ Speaks(t, r) => SameCycle(t, r)

\* Completeness: when the files are written, every relation asked about has been
\* answered, and one that is in no file timed out, or has a precondition no execution
\* meets, or is really not ordered: some execution has the two cycles the other way
\* round.  (The stay in e1 may be of one cycle there: the file of gen_s2 does not
\* exclude it.  An entry into e0 that coincides with the final cycle of e1 refutes
\* WHB too where the stay in e0 goes on, because $past(!s1_hpn) && s1 is also true at
\* the second edge of a stay.)
TimedOut(r) == \E p \in DOMAIN answer : p[2] = r /\ \E f \in {"result", "precond"} :
                                                     answer[p][f] = "undetermined"
NoLeavingLost ==
    pc = "left" =>
       \A r \in check_e \ (leaving_hb \cup leaving_whb \cup leaving_concur) :
          /\ <<"HB", r>> \in DOMAIN answer
          /\ \/ TimedOut(r)
             \/ Flip(r) \in leaving_concur
             \/ \A t \in Over(<<"HB", r>>) : ~Triggered(<<"HB", r>>, t)
             \/ \E t \in exec :
                   /\ Together(t, Edge(r))
                   /\ \/ ~NotAfter(t, r) /\ (r[1] = 1 => S2_STAY_AT_LEAST_TWO(t, r[2]))
                      \/ r[1] = 0 /\ SameCycle(t, r) /\ S2_STAY_AT_LEAST_TWO(t, r[2])
=============================================================================
