------------------------------- MODULE Paths --------------------------------
(***************************************************************************)
(* The rest of step 8 and step 9 of the synthesis, for one combination of  *)
(* entering orders (fv/synthlc/xCollectReEvalLeaveOrder and                *)
(* xConstructPaths): which orders of the final cycles are left open, which *)
(* of them JasperGold covers, and which combinations of the covered ones   *)
(* become paths, each covered once more under all of its orders.  The      *)
(* specification runs steps 4 to 9.                                        *)
(***************************************************************************)
EXTENDS Orders

VARIABLES
    comb,         \* the combination of entering orders at hand
    final_todo,   \* final_edge_todo_per_set.txt: pairs of nodes and orders to be covered
    set_r,        \* com.csv: verdict on the combination itself, "" without a report
    final_com,    \* com.csv: verdicts on final_todo
    paths,        \* property files in out_complete_3: an order for every pair of nodes
    realised      \* the paths that were covered

pathVars == <<comb, final_todo, set_r, final_com, paths, realised>>
allVars == <<vars, orderVars, pathVars>>

-----------------------------------------------------------------------------
\* The relations of an edge that involve a final cycle and are not of one FSM.
e_primes == {r \in {finalRels[i] : i \in DOMAIN finalRels} :
               /\ Edge(r) \in edge /\ iid_map[r[2]] # iid_map[r[4]]
               /\ Ends(r)[1] \in Nodes(files) /\ Ends(r)[2] \in Nodes(files)}

OpenFinals(f) ==
    LET tc == TC(CombGraph(f).edge)
        bounds == Solve(CombConstraints(f))
    IN  {e \in {Ends(r) : r \in e_primes} : /\ {e, Rev(e)} \cap tc = {}
                                            /\ ~check_imp_hb(bounds, e[1], e[2])
                                            /\ check_hb_possibility(bounds, e[1], e[2])}

gen_finals ==
    /\ pc = "ordered" /\ pc' = "cover_finals"
    /\ \E f \in comb_edges :
          /\ comb' = f
          /\ final_todo' = OrdersOf(OpenFinals(f))
    /\ UNCHANGED <<inputs, out, report, faults, whb_todo, results, leaveVars, orderVars,
                   set_r, final_com, paths, realised>>

\* JasperGold covers the orders, and set_r (<<>> here), over the executions of the
\* combination.
OfComb == {t \in OfSet : \A p \in DOMAIN comb :
             IF comb[p] = p THEN \E s, r \in p : s # r /\ A_enter_concur_enter(t, s, r)
             ELSE \A s \in comb[p], r \in p \ comb[p] : A_enter_hb_enter(t, s, r)}
CoverHb(t, u, v) ==
    CASE u[1] = 1 /\ v[1] = 0 -> C_final_hb_enter(t, u[2], v[2])
      [] u[1] = 0 /\ v[1] = 1 -> C_enter_hb_final(t, u[2], v[2])
      [] u[1] = 1 /\ v[1] = 1 -> C_final_hb_final(t, u[2], v[2])
CoverConcur(t, u, v) ==
    u[1] = 1 /\ IF v[1] = 1 THEN C_final_concur_final(t, u[2], v[2])
                ELSE C_final_concur_enter(t, u[2], v[2])
CoverFinal(t, c) ==
    IF c[1] = c[2] THEN \E u, v \in c[1] : u # v /\ CoverConcur(t, u, v)
    ELSE \E u \in c[2], v \in c[1] \ c[2] : CoverHb(t, u, v)
CoverOf(late, yes) == IF late THEN "undetermined" ELSE IF yes THEN "covered" ELSE "unreachable"

cover_finals ==
    /\ pc = "cover_finals" /\ pc' = "construct"
    /\ \/ \E slow \in Hit(final_todo \cup {<<>>}) :
             /\ faults' = faults + Cardinality(slow)
             /\ set_r' = CoverOf(<<>> \in slow, OfComb # {})
             /\ final_com' = [c \in final_todo |->
                                CoverOf(c \in slow, \E t \in OfComb : CoverFinal(t, c))]
       \/ faults < Faults /\ faults' = faults + 1 /\ UNCHANGED <<set_r, final_com>>
    /\ UNCHANGED <<inputs, out, report, whb_todo, results, leaveVars, orderVars,
                   comb, final_todo, paths, realised>>

-----------------------------------------------------------------------------
\* Step 9: the product of the covered orders, and the graph and the solver of one
\* member g.  The stays are no edges here but weak bounds, and states of one FSM
\* need not follow each other at once.
FinalOrder(g) == {e \in {Ends(r) : r \in e_primes} :
                    {e[1], e[2]} \in DOMAIN g /\ g[{e[1], e[2]}] = {e[1]}}
FinalConcur(g) ==
    Earlier(finalRels, {r \in e_primes :
                          LET p == {Ends(r)[1], Ends(r)[2]}
                          IN  <<p, {Ends(r)[1]}>> \in final_todo /\ p \in DOMAIN g /\ g[p] = p})
FinalProduct ==
    LET result_edges_final == {c \in final_todo : final_com[c] = "covered"}
    IN  {g \in [{c[1] : c \in result_edges_final} -> SUBSET Nodes(files)] :
           \A p \in DOMAIN g : <<p, g[p]>> \in result_edges_final}

\* Mutant: the stays are edges, as in steps 7 and 8.
StaysAsEdges(g) == LET start == CombStart(comb) \cup FinalOrder(g)
                   IN  start \cup edge_weight(files) \cup implied_edges_same_iid(files, start)
PathStart(g) == LET start == CombStart(comb) \cup FinalOrder(g)
                IN  start \cup implied_edges_same_iid(files, start)
PathGraph(g) == Connected(files, PathStart(g), CombConcur(comb), FinalConcur(g))
PathConstraints(g, G) ==
    LET tr == TR(G)
        stay == tr \cap edge_weight(files)
    IN  Stays(files, stay) \cup AtLeast(tr \ stay, 1) \cup AtLeast(edge_weight(files), 0)
        \cup Weak(files, CombConcur(comb) \cup FinalConcur(g))
Possible(g) == LET G == PathGraph(g) IN ~Cyclic(G) /\ ~Unsat(Solve(PathConstraints(g, G)))

\* A combination whose finals are all ordered already gets no file; read_csv raises
\* where the report is missing; a combination that was not covered is passed over.
construct ==
    /\ pc = "construct"
    /\ IF final_todo # {} /\ set_r = "" THEN pc' = "aborted" /\ UNCHANGED paths
       ELSE /\ pc' = "cover_paths"
            /\ paths' = IF final_todo = {} \/ set_r # "covered" THEN {}
                        ELSE {g \in FinalProduct : Possible(g)}
    /\ UNCHANGED <<inputs, out, report, faults, whb_todo, results, leaveVars, orderVars,
                   comb, final_todo, set_r, final_com, realised>>

\* C_SETR of every path, under the assumptions for its orders.
AssumeHb(t, u, v) ==
    CASE u[1] = 1 /\ v[1] = 0 -> A_final_hb_enter(t, u[2], v[2])
      [] u[1] = 0 /\ v[1] = 1 -> A_enter_hb_final(t, u[2], v[2])
      [] u[1] = 1 /\ v[1] = 1 -> A_final_hb_final(t, u[2], v[2])
AssumeConcur(t, u, v) ==
    CASE u[1] = 1 /\ v[1] = 0 -> A_final_concur_enter(t, u[2], v[2])
      [] u[1] = 0 /\ v[1] = 1 -> A_enter_concur_final(t, u[2], v[2])
      [] u[1] = 1 /\ v[1] = 1 -> A_final_concur_final(t, u[2], v[2])
\* A pair is a key of pairs_final with the smaller name first.
Key(e) == IF \E i, j \in DOMAIN pl_names : i < j /\ e[1][2] = pl_names[i] /\ e[2][2] = pl_names[j]
          THEN e ELSE Rev(e)
OfPath(g) ==
    {t \in OfComb :
       /\ \A e \in FinalOrder(g) : AssumeHb(t, e[1], e[2])
       /\ \A r \in FinalConcur(g) : AssumeConcur(t, Key(Ends(r))[1], Key(Ends(r))[2])}
cover_paths ==
    /\ pc = "cover_paths" /\ pc' = "constructed"
    /\ \E lost \in Hit(paths) :
          /\ faults' = faults + Cardinality(lost)
          /\ realised' = {g \in paths \ lost : OfPath(g) # {}}
    /\ UNCHANGED <<inputs, out, report, whb_todo, results, leaveVars, orderVars,
                   comb, final_todo, set_r, final_com, paths>>

-----------------------------------------------------------------------------
Init == OrderInit /\ comb = <<>> /\ final_todo = {} /\ set_r = "" /\ final_com = <<>>
                  /\ paths = {} /\ realised = {}

Next == \/ EnterNext /\ UNCHANGED <<leaveVars, orderVars, pathVars>>
        \/ LeaveNext /\ UNCHANGED <<orderVars, pathVars>>
        \/ OrderNext /\ UNCHANGED pathVars
        \/ gen_finals \/ cover_finals \/ construct \/ cover_paths

\* The scripts end, stop on an error, or have no combination to go on with.
Done == /\ pc \in {"aborted", "raised", "constructed"} \/ (pc = "ordered" /\ comb_edges = {})
        /\ UNCHANGED allVars

PathSpec == Init /\ [][Next \/ Done]_allVars

-----------------------------------------------------------------------------
FinalFirst(t, p) == {u \in p : \A v \in p : Times(t)[u] <= Times(t)[v]}

\* The executions of the combination whose final orders step 8 asks for and step 9
\* should find again.
Sought == IF pc = "cover_paths" /\ final_todo # {} /\ set_r = "covered"
          THEN {t \in OfComb : Fits(t)} ELSE {}
TimedOutOn(t) == \E c \in final_todo : final_com[c] = "undetermined" /\ FinalFirst(t, c[1]) = c[2]
HasPath(t) == \E g \in paths : \A p \in DOMAIN g : FinalFirst(t, p) = g[p]

\* Entered in the cycle after the final cycle of another PL: neither C_final_hb_enter
\* nor C_final_concur_enter covers it.
JustAfter(t) == \E c \in final_todo : \E u, v \in c[1] :
                   u[1] = 1 /\ v[1] = 0 /\ Times(t)[v] = Times(t)[u] + 1

\* It orders two nodes against the one edge that the data flow graph has between them.
FinalsAgainstFlow(t) == \E r \in e_primes : /\ Rev(Edge(r)) \notin edge
                                            /\ Times(t)[Ends(r)[2]] < Times(t)[Ends(r)[1]]

\* Step 9 makes a path for every execution of the combination that the files allow,
\* unless the cover of one of its orders timed out, or one of its entries just follows
\* a final cycle, or an order of it was not asked for because the data flow graph has
\* only the opposite edge: the product, the graph and the solver drop no other.
PathsKept ==
    \A t \in Sought : HasPath(t) \/ TimedOutOn(t) \/ JustAfter(t) \/ FinalsAgainstFlow(t)

\* A path that JasperGold covers under the assumptions of step 9 is an order that some
\* execution has, although the assumptions are other formulas than the covers of step 8
\* it was put together from.
PathSound == \A g \in realised : \E t \in OfComb : \A p \in DOMAIN g : FinalFirst(t, p) = g[p]

\* What xCollectReEvalLeaveOrder/README.md says of step 8, "explore for each combintion
\* of entering order, the exit order", and run_an_instn_demo.sh:409 of step 9, "generate
\* all possible combination": no exception for an entry that just follows a final cycle.
ExitOrdersExplored == \A t \in Sought : HasPath(t) \/ TimedOutOn(t) \/ FinalsAgainstFlow(t)
=============================================================================
