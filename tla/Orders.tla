------------------------------- MODULE Orders -------------------------------
(***************************************************************************)
(* Steps 7 and 8 of the synthesis, up to the entering orders of one        *)
(* reachable set (fv/synthlc/xCollectReEval and xCollectReEvalLeaveOrder,  *)
(* aggregate_cyccnt_comp.py and solver.py).  Step 7 builds a graph from    *)
(* the files of steps 4 to 6 and asks JasperGold for the orders of entry   *)
(* that the graph and a solver leave open; step 8 combines what was        *)
(* covered and drops the combinations that contradict the graph.           *)
(*                                                                         *)
(* A node of a graph is <<0, s>> for the entry and <<1, s>> for the final  *)
(* cycle of s.  An order on a pair p of PLs is the subset of p entered     *)
(* first: one of them (">" or "<") or both ("=").                          *)
(***************************************************************************)
EXTENDS HBLeave, Integers, Sequences

CONSTANTS dfg_e,     \* the edges of the data flow graph in the order of the file
          pl_names   \* the PLs in the order of their names

ASSUME FileAssumption == /\ dfg_e \in Seq(PL \X PL)
                         /\ \A g \in Dfgs : g \subseteq {dfg_e[i] : i \in DOMAIN dfg_e}
ASSUME NameAssumption == pl_names \in Seq(PL) /\ PL \subseteq {pl_names[i] : i \in DOMAIN pl_names}

VARIABLES
    aSet,       \* the reachable set at hand
    gt1,        \* cycle_count_gt1_perset.txt: its PLs of more than one cycle
    todo,       \* edge_todo_per_set.txt: pairs and orders to be covered
    com,        \* com.csv: verdicts on them
    comb_edges  \* the combinations for which step 8 writes a file

orderVars == <<aSet, gt1, todo, com, comb_edges>>

\* What the scripts read for the set at hand.
files == [aSet |-> aSet, gt1 |-> gt1, hb_proven |-> hb_proven, whb_proven |-> whb_proven,
          aws_concurrent |-> aws_concurrent, mutual_whb |-> mutual_whb,
          leaving_hb |-> leaving_hb, leaving_concur |-> leaving_concur,
          max_cyc |-> [s \in gt1 |-> max_cycle_per_pl[s]]]

-----------------------------------------------------------------------------
\* The graph, of the files d.  start are the edges it is begun with: hb_edge, and in
\* step 8 the orders of a combination.
Entered(S) == {<<0, s>> : s \in S}
Nodes(d) == Entered(d.aSet) \cup {<<1, s>> : s \in d.gt1}
Entries(hb) == {<<<<0, e[1]>>, <<0, e[2]>>>> : e \in hb}
edge_weight(d) == {<<<<0, s>>, <<1, s>>>> : s \in d.gt1}
SameIid(e) == iid_map[e[1][2]] = iid_map[e[2][2]]
implied_edges_same_iid(d, start) ==
    {<<<<1, e[1][2]>>, e[2]>> : e \in {x \in start : x[1] \in Entered(d.gt1) /\ SameIid(x)}}
Ends(r) == <<<<r[1], r[2]>>, <<r[3], r[4]>>>>
Inside(d, E) == {e \in E : e[1] \in Nodes(d) /\ e[2] \in Nodes(d)}
leaving_hb_proven_res_pairs(d) == {Ends(r) : r \in d.leaving_hb}
hb_edge(d) == Inside(d, Entries(d.hb_proven))

\* The relations of the edges in the order of the files: of two entries, and those
\* that involve a final cycle, three an edge.
EntryRel(e) == <<0, e[1], 0, e[2]>>
entryRels == [i \in DOMAIN dfg_e |-> EntryRel(dfg_e[i])]
FinalRel(e, k) == CASE k = 0 -> <<1, e[1], 0, e[2]>>
                    [] k = 1 -> <<0, e[1], 1, e[2]>>
                    [] k = 2 -> <<1, e[1], 1, e[2]>>
finalRels == [i \in 1 .. 3 * Len(dfg_e) |-> FinalRel(dfg_e[((i - 1) \div 3) + 1], (i - 1) % 3)]

\* Mutant: what comes before one end comes after the other.
BeforeAsAfter(E, a, b) == E \cup {<<b, e[1]>> : e \in {x \in E : x[2] = a}}
\* One concurrent pair: what comes before or after one end comes before or after the
\* other.  One pass over the pairs of C inside the graph.
ShareIn(E, a, b) == E \cup {<<e[1], b>> : e \in {x \in E : x[2] = a}}
ShareOut(E, a, b) == E \cup {<<b, e[2]>> : e \in {x \in E : x[1] = a}}
Propagate(E, e) ==
    ShareOut(ShareOut(ShareIn(ShareIn(E, e[1], e[2]), e[2], e[1]), e[1], e[2]), e[2], e[1])
Takes(d, C, r) == r \in C /\ Ends(r)[1] \in Nodes(d) /\ Ends(r)[2] \in Nodes(d)
Passes(d, E, rels, C) ==
    LET after[i \in 0 .. Len(rels)] ==
            IF i = 0 THEN E
            ELSE IF Takes(d, C, rels[i]) THEN Propagate(after[i-1], Ends(rels[i]))
            ELSE after[i-1]
    IN  after
Pass(d, E, rels, C) == Passes(d, E, rels, C)[Len(rels)]
\* Of a relation of C and its converse the one that comes first.
Earlier(rels, C) ==
    {rels[i] : i \in {j \in DOMAIN rels :
                 rels[j] \in C /\ \A k \in 1 .. j - 1 : rels[k] = Flip(rels[j]) => rels[k] \notin C}}

\* DG: the concurrent pairs of the files in the order of the lines (aws_concurrent.txt
\* begins with those proven both ways), then those of a combination of entering
\* orders (concur, none in step 7) and of final ones (final, step 9 only).
concurrentRels(d) == {EntryRel(e) : e \in d.aws_concurrent}
firstRels(d) == {EntryRel(e) : e \in d.aws_concurrent \cap d.mutual_whb}
InFiles(d, E) ==
    Pass(d, Pass(d, Pass(d, E, entryRels, firstRels(d)),
                 entryRels, concurrentRels(d) \ firstRels(d)),
         finalRels, d.leaving_concur)
Connected(d, start, concur, final) ==
    [node |-> Nodes(d),
     edge |-> Pass(d, Pass(d, InFiles(d, start \cup Inside(d, leaving_hb_proven_res_pairs(d))),
                           entryRels, concur),
                   finalRels, final)]
\* In steps 7 and 8 the stays are edges of it.
Graph(d, start, concur) ==
    Connected(d, start \cup edge_weight(d) \cup implied_edges_same_iid(d, start), concur, {})

\* nx.transitive_closure and, of a graph without cycles, nx.transitive_reduction.
Through(n, E) == E \cup {<<e[1], x[2]>> : e \in {y \in E : y[2] = n}, x \in {y \in E : y[1] = n}}
Closures(E) ==
    LET upto[i \in 0 .. Len(pl_names)] ==
            IF i = 0 THEN E
            ELSE Through(<<1, pl_names[i]>>, Through(<<0, pl_names[i]>>, upto[i-1]))
    IN  upto
TC(E) == Closures(E)[Len(pl_names)]
TR(G) == LET tc == TC(G.edge)
         IN  {e \in G.edge : \A w \in G.node : <<e[1], w>> \notin tc \/ <<w, e[2]>> \notin tc}
Cyclic(G) == \E n \in G.node : <<n, n>> \in TC(G.edge)

-----------------------------------------------------------------------------
\* MySolver.add_constraints.  Every constraint bounds a difference from below:
\* <<u, v, w>> stands for v >= u + w.
AtLeast(es, w) == {<<e[1], e[2], w>> : e \in es}
Stays(d, es) == AtLeast(es, 0) \cup {<<e[2], e[1], 1 - d.max_cyc[e[1][2]]>> : e \in es}
Weak(d, more) ==
    LET same == Inside(d, {Ends(r) : r \in concurrentRels(d) \cup d.leaving_concur \cup more})
    IN  AtLeast(Inside(d, Entries(d.whb_proven)) \cup same \cup {Rev(e) : e \in same}, 0)
add_constraints(d, start, concur, G) ==
    LET tr == TR(G)
        stay == tr \cap edge_weight(d)
        plus1 == {e \in tr \ stay : e \in implied_edges_same_iid(d, start) \/ SameIid(e)}
    IN  Stays(d, stay) \cup AtLeast(tr \ stay, 1) \cup {<<e[2], e[1], -1>> : e \in plus1}
        \cup Weak(d, concur)

\* What cvc5 derives from them: the strongest bound between any two nodes.  No
\* solution means a node after itself.
Strongest(B) == {c \in B : \A x \in B : x[1] = c[1] /\ x[2] = c[2] => x[3] <= c[3]}
Chain(n, B) ==
    Strongest(B \cup {<<c[1], x[2], c[3] + x[3]>> : c \in {y \in B : y[2] = n},
                                                   x \in {y \in B : y[1] = n}})
Bounds(B) ==
    LET upto[i \in 0 .. Len(pl_names)] ==
            IF i = 0 THEN Strongest(B)
            ELSE Chain(<<1, pl_names[i]>>, Chain(<<0, pl_names[i]>>, upto[i-1]))
    IN  upto
Solve(B) == Bounds(B)[Len(pl_names)]
Unsat(bounds) == \E c \in bounds : c[1] = c[2] /\ c[3] > 0
check_imp_hb(bounds, u, v) == \E c \in bounds : c[1] = u /\ c[2] = v /\ c[3] >= 1
\* Mutant: an order has to leave a cycle in between.
NotAtOnce(bounds, u, v) == \A c \in bounds : c[1] = v /\ c[2] = u => c[3] <= -2
check_hb_possibility(bounds, u, v) == \A c \in bounds : c[1] = v /\ c[2] = u => c[3] <= -1

\* Step 7, of the files d and the edges es: its graph, what it gives the solver, and the
\* orders e1 before e2 it asks for: not those that the graph has either way, of
\* concurrent PLs, or that the solver implies or excludes.
Graph7(d) == Graph(d, hb_edge(d), {})
Constraints7(d) == add_constraints(d, hb_edge(d), {}, Graph7(d))
Open(d, es) ==
    LET tc == TC(Graph7(d).edge)
        bounds == Solve(Constraints7(d))
    IN  {e \in es :
           LET u == <<0, e[1]>> v == <<0, e[2]>>
           IN  /\ e[1] \in d.aSet /\ e[2] \in d.aSet
               /\ {<<u, v>>, <<v, u>>} \cap tc = {}
               /\ {e, Rev(e)} \cap d.aws_concurrent = {}
               /\ ~check_imp_hb(bounds, u, v)
               /\ check_hb_possibility(bounds, u, v)}
\* An open edge adds its order and the concurrent one to those of the pair.
OrdersOf(es) == UNION {{<<{e[1], e[2]}, {e[1]}>>, <<{e[1], e[2]}, {e[1], e[2]}>>} : e \in es}

OrderInit == LeaveInit /\ aSet = {} /\ gt1 = {} /\ todo = {} /\ com = <<>> /\ comb_edges = {}

\* pp of step 5 for one set: the PLs it does not find to be single-cycle ones; a time-out
\* counts as a longer stay.  A PL counted as 0 was not asked about but is looked up, and
\* check_file leaves.
Longer(S) == {s \in S \cap over1cyc_pl :
                \E t \in exec : Visited(t) = S /\ S2_STAY_AT_LEAST_TWO(t, s)}

cycle_count_gt1 ==
    /\ pc = "left"
    /\ \/ /\ \E s \in UNION reachable_sets : max_cycle_per_pl[s] = 0
          /\ pc' = "aborted" /\ UNCHANGED <<aSet, gt1, faults>>
       \/ /\ \A s \in UNION reachable_sets : max_cycle_per_pl[s] # 0
          /\ pc' = "gen_orders"
          /\ aSet' \in reachable_sets
          /\ \E late \in Hit(aSet' \cap over1cyc_pl) :
                /\ gt1' = Longer(aSet') \cup late
                /\ faults' = faults + Cardinality(late)
    /\ UNCHANGED <<inputs, out, report, whb_todo, results, leaveVars, todo, com, comb_edges>>

\* gen of step 7 for one set: transitive_reduction raises on a cycle, the solver
\* asserts that it has a solution.
gen_orders ==
    /\ pc = "gen_orders"
    /\ IF Cyclic(Graph7(files)) \/ Unsat(Solve(Constraints7(files)))
       THEN pc' = "raised" /\ UNCHANGED todo
       ELSE pc' = "cover_orders" /\ todo' = OrdersOf(Open(files, edge))
    /\ UNCHANGED <<inputs, out, report, faults, whb_todo, results, leaveVars,
                   aSet, gt1, com, comb_edges>>

\* JasperGold covers C_hb_prop and C_concur_prop over the executions of the set;
\* the report of the set may be lost.
OfSet == {t \in exec : Visited(t) = aSet}
CoverEntry(t, c) ==
    IF c[1] = c[2] THEN \E s, r \in c[1] : s # r /\ C_concur_prop(t, s, r)
    ELSE \E s \in c[2], r \in c[1] \ c[2] : C_hb_prop(t, s, r)
Covered(c) == \E t \in OfSet : CoverEntry(t, c)
cover_orders ==
    /\ pc = "cover_orders" /\ pc' = "gen_combs"
    /\ \/ \E slow \in Hit(todo) :
             /\ faults' = faults + Cardinality(slow)
             /\ com' = [c \in todo |-> IF c \in slow THEN "undetermined"
                                       ELSE IF Covered(c) THEN "covered" ELSE "unreachable"]
       \/ todo # {} /\ faults < Faults /\ faults' = faults + 1 /\ UNCHANGED com
    /\ UNCHANGED <<inputs, out, report, whb_todo, results, leaveVars, aSet, gt1, todo, comb_edges>>

\* Step 8: result_edges, their product, and the graph of a combination.  A pair takes
\* the place of its first order in edge_todo_per_set.txt.
result_edges == {c \in DOMAIN com : com[c] = "covered"}
Product == {f \in [{c[1] : c \in result_edges} -> SUBSET aSet] :
              \A p \in DOMAIN f : <<p, f[p]>> \in result_edges}
CombOrder(f) ==
    Entries({x \in aSet \X aSet : /\ {x[1], x[2]} \in DOMAIN f /\ x[1] # x[2]
                                  /\ f[{x[1], x[2]}] = {x[1]}})
CombConcur(f) ==
    Earlier(entryRels, {EntryRel(e) : e \in
        {x \in aSet \X aSet : /\ <<{x[1], x[2]}, {x[1]}>> \in todo /\ {x[1], x[2]} \in DOMAIN f
                              /\ f[{x[1], x[2]}] = {x[1], x[2]}}})
CombStart(f) == hb_edge(files) \cup CombOrder(f)
CombGraph(f) == Graph(files, CombStart(f), CombConcur(f))
CombConstraints(f) == add_constraints(files, CombStart(f), CombConcur(f), CombGraph(f))

\* read_csv raises where the report is missing, and the solver's assertion where a
\* combination without a cycle has no solution.
gen_combs ==
    LET dag == {f \in Product : ~Cyclic(CombGraph(f))}
    IN  /\ pc = "gen_combs"
        /\ IF DOMAIN com # todo THEN pc' = "aborted" /\ UNCHANGED comb_edges
           ELSE IF \E f \in dag : Unsat(Solve(CombConstraints(f)))
           THEN pc' = "raised" /\ UNCHANGED comb_edges
           ELSE pc' = "ordered" /\ comb_edges' = dag
        /\ UNCHANGED <<inputs, out, report, faults, whb_todo, results, leaveVars,
                       aSet, gt1, todo, com>>

OrderNext == cycle_count_gt1 \/ gen_orders \/ cover_orders \/ gen_combs

-----------------------------------------------------------------------------
\* The executions of the set that satisfy what a solver is given: that of step 7, and
\* that of a combination in step 8.
Times(t) == [n \in Nodes(files) |-> Time(t, n[1], n[2])]
Satisfies(t, B) == t \in OfSet /\ \A c \in B : Times(t)[c[2]] >= Times(t)[c[1]] + c[3]
Fits(t) == Satisfies(t, Constraints7(files))

\* The orders in the files are those of the execution, and its stays are as long as gt1
\* says.
FollowsFiles(t) ==
    /\ \A e \in hb_edge(files) \cup Inside(files, leaving_hb_proven_res_pairs(files)) :
          Times(t)[e[1]] < Times(t)[e[2]]
    /\ \A s \in gt1 : S2_STAY_AT_LEAST_TWO(t, s)

EntersFirst(t, p) == {s \in p : \A r \in p : First(t, s) <= First(t, r)}
Agrees(t, f) == \A p \in DOMAIN f : EntersFirst(t, p) = f[p]

\* It enters two PLs against the one edge that the data flow graph has between them.
AgainstFlow(t) ==
    \E e \in edge : {e[1], e[2]} \subseteq aSet /\ Rev(e) \notin edge /\ First(t, e[2]) < First(t, e[1])

\* Neither step loses an execution that the files of steps 4 to 6 allow: when the
\* combinations are written, one of them agrees with it on every pair, unless the
\* cover of its own order timed out, or it was not asked for because the data flow
\* graph has only the opposite edge.
OrdersKept ==
    pc = "ordered" =>
       \A t \in exec : Fits(t) =>
          \/ \E f \in comb_edges : Agrees(t, f)
          \/ \E c \in DOMAIN com : com[c] = "undetermined" /\ EntersFirst(t, c[1]) = c[2]
          \/ AgainstFlow(t)

\* What stops the scripts.  Step 7 stops only where no execution of the set that has
\* the orders of the files fits the solver: following the concurrent pairs, closing
\* and solving add no contradiction of their own.  Step 8 stops only on a combination
\* of orders covered one by one whose constraints no execution of the set satisfies.
StopsOnlyOnContradiction ==
    pc = "raised" =>
       \/ todo = {} /\ \A t \in exec : ~(Fits(t) /\ FollowsFiles(t))
       \/ \E f \in Product : ~Cyclic(CombGraph(f)) /\ \A t \in exec : ~Satisfies(t, CombConstraints(f))
=============================================================================
