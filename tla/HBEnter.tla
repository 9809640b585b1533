------------------------------ MODULE HBEnter ------------------------------
(***************************************************************************)
(* Step 4 of the synthesis: the order in which an instruction enters its   *)
(* performing locations (fv/synthlc/xHBPerfG_dfg_v3_div/xHBPerf_dfg_v3.py).*)
(* For every edge of the data flow graph whose ends can occur together the *)
(* script asks JasperGold for HB, and for the edges it refutes for WHB and *)
(* WHB_CONCUR; pp sorts the edges into the files the later steps read.     *)
(*                                                                         *)
(* exec is the set of executions of the design, which the script never     *)
(* sees.  JasperGold is external: it answers with the truth about exec, or *)
(* times out, or leaves no report; the latter two at most Faults times.    *)
(***************************************************************************)
EXTENDS HBTemplates, FiniteSets

CONSTANTS Designs,   \* sets of executions a design may have
          Dfgs,      \* data flow graphs (dfg_e.txt): sets of pairs of PLs
          Faults     \* time-outs and missing reports

ASSUME DesignAssumption == \A d \in Designs : d # {} /\ d \subseteq Trace
ASSUME DfgAssumption == \A g \in Dfgs : g \subseteq PL \X PL
ASSUME FaultAssumption == Faults \in Nat

VARIABLES
    exec, edge, reachable_sets,   \* the design, dfg_e.txt, reachable_set.txt
    pc,
    out,                          \* property files written and not yet proved
    report,                       \* the csv files: verdict of a property
    faults,
    whb_todo, hb_proven, whb_proven, aws_concurrent,   \* the files of pp
    undetermined_hb, undetermined_whb, undetermined_concur

inputs == <<exec, edge, reachable_sets>>
results == <<whb_proven, hb_proven, aws_concurrent,
             undetermined_hb, undetermined_whb, undetermined_concur>>
enterVars == <<inputs, pc, out, report, faults, whb_todo, results>>

-----------------------------------------------------------------------------
\* get_result: ERR when there is no report.
get_result(prop) == IF prop \in DOMAIN report THEN report[prop] ELSE "ERR"

\* Both ends are in some reachable set; pp also asks that both were covered one
\* by one, which every member of a reachable set was.
in_aset(e) == \E aSet \in reachable_sets : e[1] \in aSet /\ e[2] \in aSet
Asked == {e \in edge : in_aset(e)}
Rev(e) == <<e[2], e[1]>>

\* JasperGold on a property <<assertion, edge>>.
Holds(prop) ==
    LET e == prop[2]
    IN  CASE prop[1] = "HB" -> \A t \in exec : HB(t, e[1], e[2])
          [] prop[1] = "WHB" -> \A t \in exec : WHB(t, e[1], e[2])
          [] prop[1] = "WHB_CONCUR" -> \A t \in exec : WHB_CONCUR(t, e[1], e[2])
Verdict(prop) == IF Holds(prop) THEN "proven" ELSE "cex"

\* The subsets of S that the remaining faults can hit.
Hit(S) == {{}} \cup {{f[i] : i \in DOMAIN f} : f \in [1 .. Faults - faults -> S]}

prove(from, to) ==
    /\ pc = from /\ pc' = to
    /\ \E bad \in Hit(out) : \E lost \in SUBSET bad :
          /\ faults' = faults + Cardinality(bad)
          /\ report' = [p \in DOMAIN report \cup (out \ lost) |->
                          IF p \in DOMAIN report THEN report[p]
                          ELSE IF p \in bad THEN "undetermined" ELSE Verdict(p)]
    /\ out' = {}
    /\ UNCHANGED <<inputs, whb_todo, results>>

-----------------------------------------------------------------------------
EnterInit ==
    /\ exec \in Designs /\ edge \in Dfgs
    /\ reachable_sets \in (SUBSET {Visited(t) : t \in exec}) \ {{}}
    /\ pc = "gen" /\ out = {} /\ report = <<>> /\ faults = 0
    /\ whb_todo = {}
    /\ hb_proven = {} /\ whb_proven = {} /\ aws_concurrent = {}
    /\ undetermined_hb = {} /\ undetermined_whb = {} /\ undetermined_concur = {}

\* gen: one HB file for every edge asked about.
gen ==
    /\ pc = "gen" /\ pc' = "prove"
    /\ out' = {<<"HB", e>> : e \in Asked}
    /\ UNCHANGED <<inputs, report, faults, whb_todo, results>>

\* gen_s2: one WHB file with both assertions for every edge that HB refuted.
gen_s2 ==
    /\ pc = "gen_s2" /\ pc' = "prove_s2"
    /\ whb_todo' = {e \in Asked : get_result(<<"HB", e>>) = "cex"}
    /\ out' = {<<k, e>> : k \in {"WHB", "WHB_CONCUR"}, e \in whb_todo'}
    /\ UNCHANGED <<inputs, report, faults, results>>

\* pp: hb_, whb_ and aws_same, and the edges at the same time.
EdgesWith(kind, verdict) ==
    {e \in Asked : /\ kind # "HB" => get_result(<<"HB", e>>) = "cex"
                   /\ get_result(<<kind, e>>) = verdict}
whb_ == EdgesWith("WHB", "proven")

\* Mutant: a proof one way makes an edge concurrent.
OneWay == whb_ \cup EdgesWith("WHB_CONCUR", "proven")

\* Proven both ways; aws_concurrent.txt lists these first.
mutual_whb == {e \in whb_ : Rev(e) \in whb_}
at_the_same_time == mutual_whb \cup EdgesWith("WHB_CONCUR", "proven")

\* Mutant of pp: a time-out of WHB is not recorded.
TimeoutUnrecorded ==
    /\ pc = "pp" /\ pc' = "entered"
    /\ hb_proven' = EdgesWith("HB", "proven")
    /\ aws_concurrent' = at_the_same_time
    /\ whb_proven' = whb_ \ at_the_same_time
    /\ undetermined_hb' = EdgesWith("HB", "undetermined")
    /\ undetermined_whb' = {}
    /\ undetermined_concur' = EdgesWith("WHB_CONCUR", "undetermined")
    /\ UNCHANGED <<inputs, out, report, faults, whb_todo>>

pp ==
    /\ pc = "pp" /\ pc' = "entered"
    /\ hb_proven' = EdgesWith("HB", "proven")
    /\ aws_concurrent' = at_the_same_time
    /\ whb_proven' = whb_ \ at_the_same_time
    /\ undetermined_hb' = EdgesWith("HB", "undetermined")
    /\ undetermined_whb' = EdgesWith("WHB", "undetermined")
    /\ undetermined_concur' = EdgesWith("WHB_CONCUR", "undetermined")
    /\ UNCHANGED <<inputs, out, report, faults, whb_todo>>

EnterNext ==
    \/ gen \/ prove("prove", "gen_s2")
    \/ gen_s2 \/ prove("prove_s2", "pp")
    \/ pp

Spec == EnterInit /\ [][EnterNext]_enterVars

-----------------------------------------------------------------------------
\* First cycle of s in an execution that visits it, without the registers.
First(t, s) == CHOOSE n \in 1..T : s \in t[n] /\ \A m \in 1..T : s \in t[m] => n <= m
Together(t, e) == {e[1], e[2]} \subseteq Visited(t)

\* Soundness of the files, whatever times out or gets lost: in every execution
\* that visits both ends, an edge of hb_proven.txt is entered in its direction,
\* one of whb_proven.txt not against it, and the ends of one of aws_concurrent.txt
\* in the same cycle.  The last is partly inferred by pp (lines 148-150) from two
\* one-sided proofs.
EnterSound ==
    \A t \in exec :
       /\ \A e \in hb_proven : Together(t, e) => First(t, e[1]) < First(t, e[2])
       /\ \A e \in whb_proven : Together(t, e) => First(t, e[1]) <= First(t, e[2])
       /\ \A e \in aws_concurrent : Together(t, e) => First(t, e[1]) = First(t, e[2])

\* Completeness: an edge asked about that ends in no file, not even reversed, was
\* lost with its report, or is really ordered neither way: some execution enters
\* its target first, and none orders the ends for good.
Listed(e) == e \in hb_proven \cup whb_proven \cup aws_concurrent
             \cup undetermined_hb \cup undetermined_whb \cup undetermined_concur
Reported(e) == /\ <<"HB", e>> \in DOMAIN report
               /\ report[<<"HB", e>>] = "cex" => /\ <<"WHB", e>> \in DOMAIN report
                                                 /\ <<"WHB_CONCUR", e>> \in DOMAIN report
NoSilentLoss ==
    pc = "entered" =>
       \A e \in Asked : Reported(e) /\ ~Listed(e) =>
          \E t \in exec : Together(t, e) /\ First(t, e[2]) < First(t, e[1])
=============================================================================
