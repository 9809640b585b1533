--------------------------- MODULE OrdersProofs ----------------------------
(***************************************************************************)
(* Steps 7 and 8 lose no execution and stop only on a contradiction, for   *)
(* any PLs, any horizon, any design, data flow graph and names, and any    *)
(* time-outs and lost reports.                                             *)
(***************************************************************************)
EXTENDS FilesProofs, Paths

-----------------------------------------------------------------------------
(***************************************************************************)
(* The invariant of steps 7 and 8: what the graph and the solver said when *)
(* a step went on or stopped is still what they say of the files.          *)
(***************************************************************************)
Early == {"gen", "prove", "gen_s2", "prove_s2", "pp", "entered", "prove_leaving",
          "gen_s2_leaving", "prove_s2_leaving", "pp_leaving", "left", "gen_orders"}
\* A verdict that is not a time-out is right about the executions of the set.
Verdicts == \A c \in DOMAIN com : /\ com[c] = "covered" => Covered(c)
                                  /\ com[c] # "undetermined" /\ Covered(c) => com[c] = "covered"
Asking == ~Cyclic(Graph7(files)) /\ todo = OrdersOf(Open(files, edge))
Acyclic == {f \in Product : ~Cyclic(CombGraph(f))}
Stopped7 == todo = {} /\ (Cyclic(Graph7(files)) \/ Unsat(Solve(Constraints7(files))))
Stopped8 == \E f \in Acyclic : Unsat(Solve(CombConstraints(f)))

\* gt1 is chosen among PLs with a count, after the counts.
Counts == /\ \A s \in DOMAIN max_cycle_per_pl : max_cycle_per_pl[s] \in Nat
          /\ gt1 \subseteq DOMAIN max_cycle_per_pl
          /\ pc \in Early /\ pc # "gen_orders" => gt1 = {}

OInv ==
    /\ exec \in Designs /\ edge \in Dfgs /\ reachable_sets \subseteq SUBSET PL
    /\ aSet \subseteq PL /\ gt1 \subseteq aSet
    /\ Counts
    /\ pc \in Early => todo = {} /\ com = <<>>
    /\ pc = "cover_orders" => com = <<>>
    /\ pc \in {"cover_orders", "gen_combs", "ordered"} => Asking
    /\ pc \in {"gen_combs", "ordered"} => Verdicts
    /\ pc = "ordered" => DOMAIN com = todo /\ comb_edges = Acyclic
    /\ pc = "raised" => Stopped7 \/ Stopped8

\* What the scripts read does not change after step 6 but for the set at hand.
Reads == <<exec, edge, reachable_sets, report, aSet, gt1, hb_proven, whb_proven, aws_concurrent,
           leaving_hb, leaving_concur, max_cycle_per_pl>>

LEMMA FilesSame ==
  ASSUME UNCHANGED Reads
  PROVE  files' = files /\ \A c : Covered(c)' = Covered(c)
PROOF
<1>1. mutual_whb' = mutual_whb
  BY DEF mutual_whb, whb_, EdgesWith, Asked, in_aset, get_result, Reads
<1>2. files' = files
  BY <1>1, Zenon DEF files, Reads
<1>3. \A c : Covered(c)' = Covered(c)
  BY DEF Covered, OfSet, Reads
<1> QED BY <1>2, <1>3, Zenon

LEMMA CombsSame ==
  ASSUME UNCHANGED Reads, UNCHANGED <<todo, com>>
  PROVE  /\ Acyclic' = Acyclic /\ Asking' = Asking /\ Verdicts' = Verdicts
         /\ Stopped7' = Stopped7 /\ Stopped8' = Stopped8
PROOF
<1>1. files' = files /\ \A c : Covered(c)' = Covered(c)
  BY FilesSame, Zenon
<1>2. Product' = Product
  BY DEF Product, result_edges, Reads
<1>3. ASSUME NEW f
      PROVE  /\ CombStart(f)' = CombStart(f) /\ CombConcur(f)' = CombConcur(f)
             /\ CombGraph(f)' = CombGraph(f) /\ CombConstraints(f)' = CombConstraints(f)
  <2>1. CombOrder(f)' = CombOrder(f) /\ CombConcur(f)' = CombConcur(f)
    BY DEF CombOrder, CombConcur, Reads
  <2>2. CombStart(f)' = CombStart(f)
    BY <1>1, <2>1, Zenon DEF CombStart
  <2>3. CombGraph(f)' = CombGraph(f)
    BY <1>1, <2>1, <2>2, Zenon DEF CombGraph
  <2>4. CombConstraints(f)' = CombConstraints(f)
    BY <1>1, <2>1, <2>2, <2>3, Zenon DEF CombConstraints
  <2> QED BY <2>1, <2>2, <2>3, <2>4, Zenon
<1>4. Acyclic' = Acyclic
  BY <1>2, <1>3 DEF Acyclic
<1>5. Asking' = Asking /\ Stopped7' = Stopped7
  BY <1>1, Zenon DEF Asking, Stopped7, Reads
<1>6. Verdicts' = Verdicts
  BY <1>1, Zenon DEF Verdicts
<1>7. Stopped8' = Stopped8
  BY <1>3, <1>4, Zenon DEF Stopped8
<1> QED BY <1>4, <1>5, <1>6, <1>7, Zenon

LEMMA CountsSame ==
  ASSUME Counts, UNCHANGED <<gt1, max_cycle_per_pl>>, pc' \in Early => pc \in Early \ {"gen_orders"}
  PROVE  Counts'
PROOF
  BY DEF Counts

LEMMA InitOInv == OrderInit => OInv
PROOF
<1> SUFFICES ASSUME OrderInit PROVE OInv
  OBVIOUS
<1>1. /\ exec \in Designs /\ edge \in Dfgs /\ pc = "gen"
      /\ reachable_sets \subseteq {Visited(t) : t \in exec}
      /\ aSet = {} /\ gt1 = {} /\ todo = {} /\ com = <<>> /\ max_cycle_per_pl = <<>>
  BY DEF OrderInit, LeaveInit, EnterInit
<1>2. reachable_sets \subseteq SUBSET PL
  BY <1>1, Zenon DEF Visited
<1>3. Counts
  BY <1>1 DEF Counts
<1> QED BY <1>1, <1>2, <1>3, Zenon DEF OInv, Early

LEMMA CountType == \A s : max_cyc(s) \in Nat
PROOF
<1> SUFFICES ASSUME NEW s PROVE max_cyc(s) \in Nat
  OBVIOUS
<1> DEFINE S == {k \in 1..T : \E t \in exec, n \in 1..T : consec(t, s, n, k)}
<1>1. IsFiniteSet(1..T)
  BY HorizonAssumption, FS_Interval
<1>2. S \in SUBSET (1..T)
  OBVIOUS
<1> HIDE DEF S
<1>3. IsFiniteSet(S)
  BY <1>1, <1>2, FS_Subset, Zenon
<1>4. Cardinality(S) \in Nat
  BY <1>3, FS_CardinalityType
<1> QED BY <1>4, Zenon DEF max_cyc, S

\* What step 5 writes is a number, and it writes once.
LEMMA LeaveCounts ==
  ASSUME Counts, LeaveNext, UNCHANGED gt1
  PROVE  Counts'
PROOF
<1>1. CASE gen_leaving
  <2>1. pc = "entered" /\ pc' = "prove_leaving"
    BY <1>1 DEF gen_leaving
  <2>2. \E late \in Hit(cv_perflocs) : \E guess \in [late -> Estimates] :
          max_cycle_per_pl' = [s \in cv_perflocs |-> IF s \in late THEN guess[s] ELSE max_cyc(s)]
    BY <1>1 DEF gen_leaving
  <2>3. PICK late, guess : guess \in [late -> Estimates] /\
          max_cycle_per_pl' = [s \in cv_perflocs |-> IF s \in late THEN guess[s] ELSE max_cyc(s)]
    BY <2>2, Zenon
  <2>4. \A s \in DOMAIN max_cycle_per_pl' : max_cycle_per_pl'[s] \in Nat
    BY <2>3, CountType, EstimateAssumption, Zenon
  <2>5. gt1 = {}
    BY <2>1 DEF Counts, Early
  <2> QED BY <2>4, <2>5 DEF Counts
<1>2. CASE \E from, to : /\ from \in {"prove_leaving", "prove_s2_leaving"}
                         /\ prove_leaving(from, to)
  <2>1. UNCHANGED max_cycle_per_pl /\ pc \in {"prove_leaving", "prove_s2_leaving"}
    BY <1>2 DEF prove_leaving
  <2> QED BY <2>1, CountsSame DEF Early
<1>3. CASE gen_s2_leaving
  <2>1. UNCHANGED max_cycle_per_pl /\ pc = "gen_s2_leaving"
    BY <1>3 DEF gen_s2_leaving
  <2> QED BY <2>1, CountsSame DEF Early
<1>4. CASE pp_leaving
  <2>1. UNCHANGED max_cycle_per_pl /\ pc = "pp_leaving"
    BY <1>4, Zenon DEF pp_leaving
  <2> QED BY <2>1, CountsSame DEF Early
<1> QED BY <1>1, <1>2, <1>3, <1>4 DEF LeaveNext

LEMMA EarlySteps ==
  /\ EnterNext => pc \in Early /\ pc' \in Early /\ UNCHANGED inputs
  /\ LeaveNext => pc \in Early /\ pc' \in Early \cup {"aborted"} /\ UNCHANGED inputs
PROOF
<1>1. EnterNext => pc \in Early /\ pc' \in Early /\ UNCHANGED inputs
  BY DEF EnterNext, gen, prove, gen_s2, pp, Early
<1>2. LeaveNext => pc \in Early /\ pc' \in Early \cup {"aborted"} /\ UNCHANGED inputs
  <2>1. gen_leaving => pc = "entered" /\ pc' = "prove_leaving" /\ UNCHANGED inputs
    BY Zenon DEF gen_leaving
  <2>2. ASSUME NEW from, NEW to
        PROVE  prove_leaving(from, to) => pc = from /\ pc' = to /\ UNCHANGED inputs
    BY DEF prove_leaving
  <2>3. gen_s2_leaving => /\ pc = "gen_s2_leaving" /\ pc' \in {"aborted", "prove_s2_leaving"}
                          /\ UNCHANGED inputs
    BY DEF gen_s2_leaving
  <2>4. pp_leaving => pc = "pp_leaving" /\ pc' \in {"aborted", "left"} /\ UNCHANGED inputs
    BY DEF pp_leaving
  <2> QED BY <2>1, <2>2, <2>3, <2>4, Zenon DEF LeaveNext, Early
<1> QED BY <1>1, <1>2, Zenon

\* What follows step 8's entering orders leaves them alone.
PathStep == gen_finals \/ cover_finals \/ construct \/ cover_paths

LEMMA PathSteps == PathStep => /\ pc' \in {"cover_finals", "construct", "aborted",
                                           "cover_paths", "constructed"}
                               /\ UNCHANGED <<inputs, leaveVars, orderVars>>
PROOF
<1>1. gen_finals => pc' = "cover_finals" /\ UNCHANGED <<inputs, leaveVars, orderVars>>
  BY Zenon DEF gen_finals
<1>2. cover_finals => pc' = "construct" /\ UNCHANGED <<inputs, leaveVars, orderVars>>
  BY DEF cover_finals
<1>3. construct => pc' \in {"aborted", "cover_paths"} /\ UNCHANGED <<inputs, leaveVars, orderVars>>
  BY Zenon DEF construct
<1>4. cover_paths => pc' = "constructed" /\ UNCHANGED <<inputs, leaveVars, orderVars>>
  BY DEF cover_paths
<1> QED BY <1>1, <1>2, <1>3, <1>4, Zenon DEF PathStep

LEMMA HitInside == \A S : \A X \in Hit(S) : X \subseteq S
PROOF
<1> SUFFICES ASSUME NEW S, NEW X \in Hit(S), X # {}, NEW x \in X PROVE x \in S
  OBVIOUS
<1>1. PICK f \in [1 .. Faults - faults -> S] : X = {f[i] : i \in DOMAIN f}
  BY DEF Hit
<1>2. PICK i \in DOMAIN f : x = f[i]
  BY <1>1, Zenon
<1> QED BY <1>2, Zenon

LEMMA CoverKeepsOInv == OInv /\ cover_orders => OInv'
PROOF
<1> SUFFICES ASSUME OInv, cover_orders PROVE OInv'
  BY Zenon
<1>1. /\ pc = "cover_orders" /\ pc' = "gen_combs"
      /\ UNCHANGED Reads /\ UNCHANGED todo
  BY DEF cover_orders, Reads, inputs, results, leaveVars, leavingFiles
<1>2. com = <<>> /\ Asking
  BY <1>1, Zenon DEF OInv
<1>3. files' = files /\ \A c : Covered(c)' = Covered(c)
  BY <1>1, FilesSame, Zenon
<1>4. Asking'
  BY <1>1, <1>2, <1>3, Zenon DEF Asking, Reads
<1>5. Verdicts'
  <2>1. CASE UNCHANGED com
    <3>1. DOMAIN com' = {}
      BY <1>2, <2>1
    <3> QED BY <3>1, Zenon DEF Verdicts
  <2>2. ASSUME NEW slow,
               com' = [c \in todo |-> IF c \in slow THEN "undetermined"
                                      ELSE IF Covered(c) THEN "covered" ELSE "unreachable"]
        PROVE  Verdicts'
    <3>1. ASSUME NEW c \in DOMAIN com'
          PROVE  /\ com'[c] = "covered" => Covered(c)
                 /\ com'[c] # "undetermined" /\ Covered(c) => com'[c] = "covered"
      <4>1. com'[c] = IF c \in slow THEN "undetermined"
                      ELSE IF Covered(c) THEN "covered" ELSE "unreachable"
        BY <2>2, <3>1, Zenon
      <4> QED BY <4>1, Zenon
    <3> QED BY <1>3, <3>1, Zenon DEF Verdicts
  <2> QED BY <2>1, <2>2, Zenon DEF cover_orders
<1>6. Counts'
  BY <1>1, CountsSame, Zenon DEF OInv, Reads, Early
<1> QED BY <1>1, <1>4, <1>5, <1>6, Zenon DEF OInv, Reads, Early

LEMMA CombsKeepsOInv == OInv /\ gen_combs => OInv'
PROOF
<1> SUFFICES ASSUME OInv, gen_combs PROVE OInv'
  OBVIOUS
<1>1. /\ pc = "gen_combs" /\ pc' \in {"aborted", "raised", "ordered"}
      /\ UNCHANGED Reads /\ UNCHANGED <<todo, com>>
      /\ pc' = "raised" => \E f \in Acyclic : Unsat(Solve(CombConstraints(f)))
      /\ pc' = "ordered" => DOMAIN com = todo /\ comb_edges' = Acyclic
  BY Zenon DEF gen_combs, Acyclic, Reads, inputs, results, leaveVars, leavingFiles
<1>2. Asking /\ Verdicts
  BY <1>1, Zenon DEF OInv
<1>3. Acyclic' = Acyclic /\ Asking' = Asking /\ Verdicts' = Verdicts /\ Stopped8' = Stopped8
  BY <1>1, CombsSame, Zenon
<1>4. pc' = "raised" => Stopped8'
  BY <1>1, <1>3, Zenon DEF Stopped8
<1>5. pc' = "ordered" => DOMAIN com' = todo' /\ comb_edges' = Acyclic'
  BY <1>1, <1>3, Zenon
<1>6. Counts'
  BY <1>1, CountsSame, Zenon DEF OInv, Reads, Early
<1> QED BY <1>1, <1>2, <1>3, <1>4, <1>5, <1>6 DEF OInv, Reads, Early

LEMMA NextOInv == OInv /\ [Next \/ Done]_allVars => OInv'
PROOF
<1> SUFFICES ASSUME OInv, [Next \/ Done]_allVars PROVE OInv'
  BY Zenon
<1>1. CASE EnterNext /\ UNCHANGED <<leaveVars, orderVars>>
  <2>1. pc \in Early /\ pc' \in Early /\ UNCHANGED <<inputs, orderVars>>
    BY <1>1, EarlySteps, Zenon
  <2>2. pc # "gen_orders"
    BY <1>1 DEF EnterNext, gen, prove, gen_s2, pp
  <2>3. Counts'
    BY <1>1, <2>1, <2>2, CountsSame, Zenon DEF OInv, leaveVars, orderVars
  <2> QED BY <2>1, <2>3, Zenon DEF OInv, Early, inputs, orderVars
<1>2. CASE LeaveNext /\ UNCHANGED orderVars
  <2>1. pc \in Early /\ pc' \in Early \cup {"aborted"} /\ UNCHANGED <<inputs, orderVars>>
    BY <1>2, EarlySteps, Zenon
  <2>2. Counts'
    BY <1>2, LeaveCounts, Zenon DEF OInv, orderVars
  <2> QED BY <2>1, <2>2, Zenon DEF OInv, Early, inputs, orderVars
<1>3. CASE cycle_count_gt1
  <2>1. pc = "left" /\ UNCHANGED <<inputs, todo, com, max_cycle_per_pl>>
    BY <1>3 DEF cycle_count_gt1, leaveVars
  <2>2. CASE pc' = "aborted" /\ UNCHANGED <<aSet, gt1>>
    <3>1. Counts'
      BY <2>1, <2>2, CountsSame DEF OInv, Early
    <3> QED BY <2>1, <2>2, <3>1 DEF OInv, Early, inputs
  <2>3. CASE /\ pc' = "gen_orders" /\ aSet' \in reachable_sets
             /\ \E late \in Hit(aSet' \cap over1cyc_pl) : gt1' = Longer(aSet') \cup late
    <3>1. PICK late \in Hit(aSet' \cap over1cyc_pl) : gt1' = Longer(aSet') \cup late
      BY <2>3, Zenon
    <3>2. late \subseteq aSet' \cap over1cyc_pl
      BY HitInside, Zenon
    <3>3. Longer(aSet') \subseteq aSet' \cap over1cyc_pl
      BY Zenon DEF Longer
    <3>4. aSet' \subseteq PL /\ gt1' \subseteq aSet' /\ gt1' \subseteq over1cyc_pl
      BY <2>3, <3>1, <3>2, <3>3, Zenon DEF OInv
    <3>5. Counts'
      BY <2>1, <2>3, <3>4, Zenon DEF OInv, Counts, over1cyc_pl
    <3> QED BY <2>1, <2>3, <3>4, <3>5, Zenon DEF OInv, Early, inputs
  <2> QED BY <1>3, <2>2, <2>3, Zenon DEF cycle_count_gt1
<1>4. CASE gen_orders
  <2>1. /\ pc = "gen_orders" /\ pc' \in {"raised", "cover_orders"}
        /\ UNCHANGED Reads /\ UNCHANGED com
        /\ pc' = "raised" => /\ UNCHANGED todo
                             /\ Cyclic(Graph7(files)) \/ Unsat(Solve(Constraints7(files)))
        /\ pc' = "cover_orders" => ~Cyclic(Graph7(files)) /\ todo' = OrdersOf(Open(files, edge))
    BY <1>4, Zenon DEF gen_orders, Reads, inputs, results, leaveVars, leavingFiles
  <2>2. todo = {} /\ com = <<>>
    BY <2>1, Zenon DEF OInv, Early
  <2>3. files' = files
    BY <2>1, FilesSame, Zenon
  <2>4. pc' = "raised" => Stopped7'
    BY <2>1, <2>2, <2>3, Zenon DEF Stopped7
  <2>5. pc' = "cover_orders" => Asking'
    BY <2>1, <2>3, Zenon DEF Asking, Reads
  <2>6. Counts'
    BY <2>1, Zenon DEF OInv, Counts, Reads, Early
  <2> QED BY <2>1, <2>2, <2>4, <2>5, <2>6, Zenon DEF OInv, Reads, Early
<1>5. CASE UNCHANGED <<vars, orderVars>>
  <2>1. /\ UNCHANGED Reads /\ UNCHANGED <<todo, com, pc, comb_edges>>
    BY <1>5, Zenon DEF vars, orderVars, enterVars, leaveVars, leavingFiles, inputs, results, Reads
  <2>2. /\ Acyclic' = Acyclic /\ Asking' = Asking /\ Verdicts' = Verdicts
        /\ Stopped7' = Stopped7 /\ Stopped8' = Stopped8
    BY <2>1, CombsSame, Zenon
  <2>3. Counts'
    BY <2>1, Zenon DEF OInv, Counts, Reads
  <2> QED BY <2>1, <2>2, <2>3, Zenon DEF OInv, Reads
<1>6. CASE PathStep
  <2>1. /\ pc' \in {"cover_finals", "construct", "aborted", "cover_paths", "constructed"}
        /\ UNCHANGED <<inputs, leaveVars, orderVars>>
    BY <1>6, PathSteps, Zenon
  <2>2. Counts'
    BY <2>1, CountsSame, Zenon DEF OInv, Early, leaveVars, orderVars
  <2> QED BY <2>1, <2>2, Zenon DEF OInv, Early, inputs, orderVars
<1>7. CASE UNCHANGED allVars
  BY <1>5, <1>7, Zenon DEF allVars
<1>8. Done => UNCHANGED allVars
  BY Zenon DEF Done
<1>9. Next => \/ EnterNext /\ UNCHANGED <<leaveVars, orderVars>>
              \/ LeaveNext /\ UNCHANGED orderVars
              \/ cycle_count_gt1 \/ gen_orders \/ cover_orders \/ gen_combs \/ PathStep
  BY Zenon DEF Next, OrderNext, PathStep
<1> QED BY <1>1, <1>2, <1>3, <1>4, <1>6, <1>7, <1>8, <1>9, CoverKeepsOInv, CombsKeepsOInv

-----------------------------------------------------------------------------
(***************************************************************************)
(* What the invariant says about the executions.                           *)
(***************************************************************************)
OneStatePerFSM == \A d \in Designs : \A t \in d : OneState(t)

\* The files at hand, and an execution of their set.
LEMMA FilesAtHand ==
  ASSUME OInv
  PROVE  /\ FilesType(files)
         /\ files.aSet = aSet /\ files.gt1 = gt1
         /\ \A t : Times(t) = Tm(files, t)
PROOF
<1>1. /\ files.aSet = aSet /\ files.gt1 = gt1
      /\ files.max_cyc = [s \in gt1 |-> max_cycle_per_pl[s]]
  BY Zenon DEF files
<1>2. \A s \in gt1 : max_cycle_per_pl[s] \in Int
  BY DEF OInv, Counts
<1>3. FilesType(files)
  BY <1>1, <1>2, Zenon DEF FilesType, OInv
<1>4. \A t : Times(t) = Tm(files, t)
  BY Zenon DEF Times, Tm
<1> QED BY <1>1, <1>3, <1>4, Zenon

LEMMA SetExecution ==
  ASSUME OInv, SingleStays, OneStatePerFSM, NEW t \in OfSet
  PROVE  /\ OfFiles(files, t) /\ OneState(t)
         /\ t \in Trace /\ Visited(t) = aSet
PROOF
<1>1. t \in exec /\ Visited(t) = aSet
  BY Zenon DEF OfSet
<1>2. exec \in Designs /\ exec \subseteq Trace /\ gt1 \subseteq aSet
  BY DesignAssumption, Zenon DEF OInv
<1>3. \A s \in Visited(t) : OneStay(t, s)
  BY <1>1, <1>2, Zenon DEF SingleStays
<1>4. OneState(t)
  BY <1>1, <1>2, Zenon DEF OneStatePerFSM
<1> QED BY <1>1, <1>2, <1>3, <1>4, FilesAtHand, Zenon DEF OfFiles

LEMMA Satisfied ==
  ASSUME OInv, SingleStays, OneStatePerFSM, NEW B, NEW t, Satisfies(t, B)
  PROVE  /\ t \in OfSet
         /\ Tm(files, t) \in [Nodes(files) -> Int]
         /\ \A c \in B : Bound(Tm(files, t), c)
PROOF
<1>1. t \in OfSet /\ \A c \in B : Times(t)[c[2]] >= Times(t)[c[1]] + c[3]
  BY Zenon DEF Satisfies
<1>2. Times(t) = Tm(files, t)
  BY FilesAtHand, Zenon
<1>3. OfFiles(files, t)
  BY <1>1, SetExecution, Zenon
<1>4. Tm(files, t) \in [Nodes(files) -> Int]
  BY <1>3, NodeTimes, Zenon
<1> QED BY <1>1, <1>2, <1>4, Zenon DEF Bound

\* The constraints of step 7 and of a combination are bounds between nodes.
LEMMA ConstraintsAtHand ==
  ASSUME OInv
  PROVE  /\ Constraints7(files) \in SUBSET Bounding(Nodes(files))
         /\ \A f : /\ CombOrder(f) \in SUBSET (Nodes(files) \X Nodes(files))
                   /\ AreEntries(CombOrder(f))
                   /\ CombConstraints(f) \in SUBSET Bounding(Nodes(files))
PROOF
<1> DEFINE d == files
<1>1. FilesType(d) /\ d.aSet = aSet
  BY FilesAtHand, Zenon
<1>2. hb_edge(d) \in SUBSET (Nodes(d) \X Nodes(d))
  BY HbEdgeType, Zenon
<1>3. Constraints7(d) \in SUBSET Bounding(Nodes(d))
  <2>1. IsGraph(Graph7(d)) /\ Graph7(d).node = Nodes(d)
    BY <1>1, <1>2, GraphType, Zenon DEF Graph7
  <2> QED BY <1>1, <2>1, ConstraintsType, Zenon DEF Constraints7
<1>4. ASSUME NEW f
      PROVE  /\ CombOrder(f) \in SUBSET (Nodes(d) \X Nodes(d))
             /\ AreEntries(CombOrder(f))
             /\ CombConstraints(f) \in SUBSET Bounding(Nodes(d))
  <2> HIDE DEF d
  <2>1. \A s \in aSet : <<0, s>> \in Nodes(d)
    BY <1>1 DEF Nodes, Entered
  <2>2. CombOrder(f) \in SUBSET (Nodes(d) \X Nodes(d)) /\ AreEntries(CombOrder(f))
    <3>1. ASSUME NEW X \in SUBSET (aSet \X aSet)
          PROVE  Entries(X) \in SUBSET (Nodes(d) \X Nodes(d)) /\ AreEntries(Entries(X))
      BY <2>1 DEF Entries, AreEntries
    <3> DEFINE X == {x \in aSet \X aSet : /\ {x[1], x[2]} \in DOMAIN f /\ x[1] # x[2]
                                          /\ f[{x[1], x[2]}] = {x[1]}}
    <3>2. X \in SUBSET (aSet \X aSet) /\ CombOrder(f) = Entries(X)
      BY Zenon DEF CombOrder
    <3> HIDE DEF X
    <3> QED BY <3>1, <3>2
  <2>3. CombStart(f) \in SUBSET (Nodes(d) \X Nodes(d))
    BY <1>2, <2>2, Zenon DEF CombStart, d
  <2>4. IsGraph(CombGraph(f)) /\ CombGraph(f).node = Nodes(d)
    BY <1>1, <2>3, GraphType, Zenon DEF CombGraph, d
  <2>5. CombConstraints(f) \in SUBSET Bounding(Nodes(d))
    BY <1>1, <2>4, ConstraintsType DEF CombConstraints, d
  <2> QED BY <2>2, <2>5
<1> QED BY <1>3, <1>4, Zenon

\* What stopped a script is a contradiction for the executions.
LEMMA StoppedContradicts ==
  ASSUME OInv, SingleStays, OneStatePerFSM
  PROVE  StopsOnlyOnContradiction
PROOF
<1>1. ASSUME NEW t, Fits(t), FollowsFiles(t), Stopped7 PROVE FALSE
  <2> DEFINE d == files
  <2>1. /\ t \in OfSet /\ Tm(d, t) \in [Nodes(d) -> Int]
        /\ \A c \in Constraints7(d) : Bound(Tm(d, t), c)
    BY <1>1, Satisfied, Zenon DEF Fits
  <2>2. OfFiles(d, t) /\ OneState(t)
    BY <2>1, SetExecution, Zenon
  <2>3. FilesType(d) /\ d.gt1 = gt1 /\ Times(t) = Tm(d, t)
    BY FilesAtHand, Zenon
  <2>4. /\ \A e \in hb_edge(d) \cup Inside(d, leaving_hb_proven_res_pairs(d)) :
              Tm(d, t)[e[1]] < Tm(d, t)[e[2]]
        /\ \A s \in d.gt1 : S2_STAY_AT_LEAST_TWO(t, s)
    BY <1>1, <2>3, Zenon DEF FollowsFiles
  <2>5. Constraints7(d) \in SUBSET Bounding(Nodes(d))
    BY ConstraintsAtHand, Zenon
  <2> HIDE DEF d
  <2>6. ~Cyclic(Graph7(d))
    BY <2>1, <2>2, <2>3, <2>4, FollowsAcyclic, Zenon
  <2>7. ~Unsat(Solve(Constraints7(d)))
    BY <2>1, <2>5, SatisfiedIsSat, Zenon
  <2> QED BY <1>1, <2>6, <2>7 DEF Stopped7, d
<1>2. ASSUME NEW t, NEW f, Satisfies(t, CombConstraints(f)), Unsat(Solve(CombConstraints(f)))
      PROVE  FALSE
  <2>1. /\ Tm(files, t) \in [Nodes(files) -> Int]
        /\ \A c \in CombConstraints(f) : Bound(Tm(files, t), c)
    BY <1>2, Satisfied, Zenon
  <2>2. CombConstraints(f) \in SUBSET Bounding(Nodes(files))
    BY ConstraintsAtHand, Zenon
  <2> QED BY <1>2, <2>1, <2>2, SatisfiedIsSat, Zenon
<1>3. Stopped7 => todo = {} /\ \A t \in exec : ~(Fits(t) /\ FollowsFiles(t))
  BY <1>1, Zenon DEF Stopped7
<1>4. Stopped8 => \E f \in Product : /\ ~Cyclic(CombGraph(f))
                                     /\ \A t \in exec : ~Satisfies(t, CombConstraints(f))
  BY <1>2, Zenon DEF Stopped8, Acyclic
<1> QED BY <1>3, <1>4 DEF OInv, StopsOnlyOnContradiction

\* The order in which an execution enters two PLs, as a set and as JasperGold covers it.
LEMMA PairOrder ==
  ASSUME NEW t \in Trace, NEW s \in Visited(t), NEW r \in Visited(t), s # r
  PROVE  /\ First(t, s) \in Nat /\ First(t, r) \in Nat
         /\ EntersFirst(t, {s, r}) = {s} <=> First(t, s) < First(t, r)
         /\ EntersFirst(t, {s, r}) = {s, r} <=> First(t, s) = First(t, r)
         /\ First(t, s) < First(t, r) => C_hb_prop(t, s, r)
         /\ First(t, s) = First(t, r) => C_concur_prop(t, s, r)
PROOF
<1>1. /\ First(t, s) \in 1..T /\ First(t, r) \in 1..T
      /\ Enter(t, s, First(t, s)) /\ Enter(t, r, First(t, r))
      /\ \A m \in 1..T : r \in t[m] => First(t, r) <= m
  BY EntryCycle, Zenon
<1>2. First(t, s) \in Nat /\ First(t, r) \in Nat
  BY <1>1, HorizonAssumption
<1>3. EntersFirst(t, {s, r}) = {s} <=> First(t, s) < First(t, r)
  BY <1>2 DEF EntersFirst
<1>4. EntersFirst(t, {s, r}) = {s, r} <=> First(t, s) = First(t, r)
  BY <1>2 DEF EntersFirst
<1>5. First(t, s) < First(t, r) => C_hb_prop(t, s, r)
  <2> SUFFICES ASSUME First(t, s) < First(t, r) PROVE ~Seen(t, r, First(t, s))
    BY <1>1, Zenon DEF C_hb_prop
  <2> QED BY <1>1, HorizonAssumption DEF Seen, hpn
<1>6. First(t, s) = First(t, r) => C_concur_prop(t, s, r)
  BY <1>1, Zenon DEF C_concur_prop
<1> QED BY <1>2, <1>3, <1>4, <1>5, <1>6, Zenon

\* Where an order is open, an execution that fits and has the opposite one leaves that
\* open too, if the data flow graph has its edge.
LEMMA OpenReverse ==
  ASSUME OInv, SingleStays, OneStatePerFSM, NEW t, Fits(t),
         NEW e \in Open(files, edge), Rev(e) \in edge, First(t, e[2]) < First(t, e[1])
  PROVE  Rev(e) \in Open(files, edge)
PROOF
<1> DEFINE d == files
           tc == TC(Graph7(d).edge)
           bounds == Solve(Constraints7(d))
           u == <<0, e[1]>>
           v == <<0, e[2]>>
<1>1. /\ e[1] \in d.aSet /\ e[2] \in d.aSet /\ {<<u, v>>, <<v, u>>} \cap tc = {}
      /\ {e, Rev(e)} \cap d.aws_concurrent = {}
      /\ check_hb_possibility(bounds, u, v) /\ e \in edge
  BY Zenon DEF Open
<1>2. e \in PL \X PL
  BY <1>1, DfgAssumption, Zenon DEF OInv
<1>3. Rev(Rev(e)) = e /\ Rev(e)[1] = e[2] /\ Rev(e)[2] = e[1]
  BY <1>2 DEF Rev
<1>4. /\ t \in OfSet /\ Tm(d, t) \in [Nodes(d) -> Int]
      /\ \A c \in Constraints7(d) : Bound(Tm(d, t), c)
  BY Satisfied, Zenon DEF Fits
<1>5. Constraints7(d) \in SUBSET Bounding(Nodes(d))
  BY ConstraintsAtHand, Zenon
<1>6. OfFiles(d, t)
  BY <1>4, SetExecution, Zenon
<1> HIDE DEF d
<1>7. bounds \in SoundSets(Nodes(d), Tm(d, t))
  BY <1>4, <1>5, SatisfiedIsSat, Zenon
<1>8. /\ Tm(d, t)[u] = First(t, e[1]) /\ Tm(d, t)[v] = First(t, e[2])
      /\ First(t, e[1]) \in 1..T /\ First(t, e[2]) \in 1..T
  BY <1>1, <1>6, NodeTimes
<1> HIDE DEF bounds, u, v, tc
<1>9. ~check_imp_hb(bounds, v, u)
  <2> SUFFICES ASSUME NEW c \in bounds, c[1] = v, c[2] = u, c[3] >= 1 PROVE FALSE
    BY Zenon DEF check_imp_hb
  <2>1. c \in Bounding(Nodes(d))
    BY <1>7, Zenon DEF SoundSets
  <2>2. c[3] \in Int /\ c[3] <= -1
    BY <1>1, <2>1, Zenon DEF check_hb_possibility, Bounding
  <2> QED BY <2>2
<1>10. check_hb_possibility(bounds, v, u)
  <2> SUFFICES ASSUME NEW c \in bounds, c[1] = u, c[2] = v PROVE c[3] <= -1
    BY Zenon DEF check_hb_possibility
  <2>1. c \in Bounding(Nodes(d)) /\ Bound(Tm(d, t), c)
    BY <1>7, Zenon DEF SoundSets
  <2>2. c[3] \in Int /\ Tm(d, t)[v] >= Tm(d, t)[u] + c[3]
    BY <2>1, Zenon DEF Bounding, Bound
  <2> QED BY <1>8, <2>2, HorizonAssumption
<1>11. {<<v, u>>, <<u, v>>} \cap tc = {} /\ {Rev(e), Rev(Rev(e))} \cap d.aws_concurrent = {}
  BY <1>1, <1>3, Zenon
<1> QED BY <1>1, <1>3, <1>9, <1>10, <1>11, ZenonT(30) DEF Open, u, v, d, bounds, tc

\* Every pair that was asked about was asked for the order of the execution, too.
LEMMA OrderAsked ==
  ASSUME OInv, SingleStays, OneStatePerFSM, NEW t, Fits(t), ~AgainstFlow(t),
         todo = OrdersOf(Open(files, edge)), NEW c \in todo
  PROVE  /\ <<c[1], EntersFirst(t, c[1])>> \in todo
         /\ \E s, r \in aSet : c[1] = {s, r}
PROOF
<1> DEFINE O == Open(files, edge)
           p == c[1]
<1>1. PICK e \in O : p = {e[1], e[2]}
  BY DEF OrdersOf
<1>2. e \in edge /\ e[1] \in aSet /\ e[2] \in aSet
  BY FilesAtHand, Zenon DEF Open
<1>3. t \in OfSet
  BY Satisfied, Zenon DEF Fits
<1>4. t \in Trace /\ Visited(t) = aSet
  BY <1>3, SetExecution, Zenon
<1>5. ASSUME NEW x \in O
      PROVE  <<{x[1], x[2]}, {x[1]}>> \in todo /\ <<{x[1], x[2]}, {x[1], x[2]}>> \in todo
  BY DEF OrdersOf
<1> HIDE DEF O, p
<1>6. CASE e[1] = e[2]
  <2>1. p = {e[1]} /\ First(t, e[1]) \in Nat
    BY <1>1, <1>2, <1>4, <1>6, EntryCycle, HorizonAssumption
  <2>2. EntersFirst(t, p) = {e[1]}
    BY <2>1 DEF EntersFirst
  <2> QED BY <1>1, <1>2, <1>5, <2>2, Zenon DEF p
<1>7. CASE e[1] # e[2]
  <2> DEFINE s == e[1]
             r == e[2]
  <2>1. /\ First(t, s) \in Nat /\ First(t, r) \in Nat
        /\ EntersFirst(t, {s, r}) = {s} <=> First(t, s) < First(t, r)
        /\ EntersFirst(t, {s, r}) = {s, r} <=> First(t, s) = First(t, r)
        /\ EntersFirst(t, {r, s}) = {r} <=> First(t, r) < First(t, s)
    <3>1. t \in Trace /\ s \in Visited(t) /\ r \in Visited(t) /\ s # r
      BY <1>2, <1>4, <1>7, Zenon
    <3> HIDE DEF s, r
    <3>2. /\ First(t, s) \in Nat /\ First(t, r) \in Nat
          /\ EntersFirst(t, {s, r}) = {s} <=> First(t, s) < First(t, r)
          /\ EntersFirst(t, {s, r}) = {s, r} <=> First(t, s) = First(t, r)
      BY <3>1, PairOrder
    <3>3. EntersFirst(t, {r, s}) = {r} <=> First(t, r) < First(t, s)
      BY <3>1, PairOrder, Zenon
    <3> QED BY <3>2, <3>3, Zenon
  <2>2. EntersFirst(t, {e[2], e[1]}) = {e[2]} <=> First(t, e[2]) < First(t, e[1])
    BY <2>1, Zenon
  <2>3. CASE First(t, e[1]) <= First(t, e[2])
    <3>1. EntersFirst(t, p) = {e[1]} \/ EntersFirst(t, p) = {e[1], e[2]}
      BY <1>1, <2>1, <2>3
    <3> QED BY <1>1, <1>2, <1>5, <3>1, Zenon DEF p
  <2>4. CASE First(t, e[2]) < First(t, e[1])
    <3>1. Rev(e) \in edge
      BY <1>2, <2>4, Zenon DEF AgainstFlow
    <3>2. Rev(e) \in O
      BY <1>1, <2>4, <3>1, OpenReverse, Zenon DEF O
    <3>3. Rev(e)[1] = e[2] /\ Rev(e)[2] = e[1]
      BY Zenon DEF Rev
    <3>4. <<{e[2], e[1]}, {e[2]}>> \in todo
      BY <1>5, <3>2, <3>3, Zenon
    <3>5. p = {e[2], e[1]} /\ EntersFirst(t, p) = {e[2]}
      BY <1>1, <2>2, <2>4
    <3> QED BY <1>1, <1>2, <3>4, <3>5 DEF p
  <2> QED BY <2>1, <2>3, <2>4
<1> QED BY <1>6, <1>7, Zenon

\* An execution of the set covers its own order of two PLs.
LEMMA CoversItself ==
  ASSUME NEW t \in OfSet, t \in Trace, Visited(t) = aSet,
         NEW s \in aSet, NEW r \in aSet, s # r
  PROVE  Covered(<<{s, r}, EntersFirst(t, {s, r})>>)
PROOF
<1> SUFFICES CoverEntry(t, <<{s, r}, EntersFirst(t, {s, r})>>)
  BY Zenon DEF Covered
<1> DEFINE E == EntersFirst(t, {s, r})
<1>1. /\ First(t, s) \in Nat /\ First(t, r) \in Nat
      /\ E = {s} <=> First(t, s) < First(t, r)
      /\ E = {s, r} <=> First(t, s) = First(t, r)
      /\ First(t, s) < First(t, r) => C_hb_prop(t, s, r)
      /\ First(t, s) = First(t, r) => C_concur_prop(t, s, r)
  BY PairOrder, Zenon
<1>2. /\ EntersFirst(t, {r, s}) = {r} <=> First(t, r) < First(t, s)
      /\ First(t, r) < First(t, s) => C_hb_prop(t, r, s)
  BY PairOrder, Zenon
<1>3. {s, r} = {r, s}
  BY Zenon
<1>4. E = {r} <=> First(t, r) < First(t, s)
  BY <1>2, <1>3, Zenon
<1> HIDE DEF E
<1>5. CASE First(t, s) = First(t, r)
  <2>1. E = {s, r} /\ C_concur_prop(t, s, r)
    BY <1>1, <1>5, Zenon
  <2> QED BY <2>1, Zenon DEF CoverEntry, E
<1>6. CASE First(t, s) < First(t, r)
  <2>1. E = {s} /\ C_hb_prop(t, s, r)
    BY <1>1, <1>6, Zenon
  <2>2. s \in E /\ r \in {s, r} \ E /\ {s, r} # E
    BY <2>1
  <2> QED BY <2>1, <2>2, Zenon DEF CoverEntry, E
<1>7. CASE First(t, r) < First(t, s)
  <2>1. E = {r} /\ C_hb_prop(t, r, s)
    BY <1>2, <1>4, <1>7, Zenon
  <2>2. r \in E /\ s \in {s, r} \ E /\ {s, r} # E
    BY <2>1, Zenon
  <2> QED BY <2>1, <2>2, Zenon DEF CoverEntry, E
<1> QED BY <1>1, <1>5, <1>6, <1>7

\* The combination of the orders that an execution has.
OwnOrders(t) == [p \in {c[1] : c \in result_edges} |-> EntersFirst(t, p)]

LEMMA OwnOrdersAcyclic ==
  ASSUME OInv, SingleStays, OneStatePerFSM, NEW t, Fits(t), ~Cyclic(Graph7(files))
  PROVE  ~Cyclic(CombGraph(OwnOrders(t)))
PROOF
<1> DEFINE d == files
           f == OwnOrders(t)
           tm == Tm(d, t)
<1>1. /\ t \in OfSet /\ tm \in [Nodes(d) -> Int]
      /\ \A c \in Constraints7(d) : Bound(tm, c)
  BY Satisfied, Zenon DEF Fits
<1>2. OfFiles(d, t) /\ OneState(t) /\ t \in Trace /\ Visited(t) = aSet
  BY <1>1, SetExecution, Zenon
<1>3. FilesType(d) /\ d.aSet = aSet
  BY FilesAtHand, Zenon
<1>4. CombOrder(f) \in SUBSET (Nodes(d) \X Nodes(d)) /\ AreEntries(CombOrder(f))
  BY ConstraintsAtHand, Zenon
<1>5. \A p \in DOMAIN f : f[p] = EntersFirst(t, p)
  BY Zenon DEF OwnOrders
<1> HIDE DEF d, f
<1>6. \A s \in aSet : tm[<<0, s>>] = First(t, s)
  BY <1>2, <1>3, NodeTimes, Zenon
<1> HIDE DEF tm
<1>7. ASSUME NEW e \in CombOrder(f) PROVE e \in StrictOf(Nodes(d), tm)
  <2>1. PICK x \in aSet \X aSet : /\ {x[1], x[2]} \in DOMAIN f /\ x[1] # x[2]
                                  /\ f[{x[1], x[2]}] = {x[1]} /\ e = <<<<0, x[1]>>, <<0, x[2]>>>>
    BY Zenon DEF CombOrder, Entries
  <2> DEFINE s == x[1]
             r == x[2]
  <2>2. s \in aSet /\ r \in aSet /\ s # r /\ EntersFirst(t, {s, r}) = {s}
        /\ e = <<<<0, s>>, <<0, r>>>>
    BY <1>5, <2>1
  <2> HIDE DEF s, r
  <2>3. First(t, s) < First(t, r)
    BY <1>2, <2>2, PairOrder
  <2>4. tm[e[1]] < tm[e[2]]
    BY <1>6, <2>2, <2>3, Zenon
  <2> QED BY <1>4, <2>4, Zenon DEF StrictOf
<1>8. ASSUME NEW r \in CombConcur(f) PROVE tm[Ends(r)[1]] = tm[Ends(r)[2]]
  <2>1. PICK x \in aSet \X aSet : /\ {x[1], x[2]} \in DOMAIN f
                                  /\ f[{x[1], x[2]}] = {x[1], x[2]} /\ r = EntryRel(x)
    BY Zenon DEF CombConcur, Earlier
  <2> DEFINE a == x[1]
             b == x[2]
  <2>2. a \in aSet /\ b \in aSet /\ EntersFirst(t, {a, b}) = {a, b}
    BY <1>5, <2>1
  <2>3. Ends(r)[1] = <<0, a>> /\ Ends(r)[2] = <<0, b>>
    BY <2>1 DEF Ends, EntryRel
  <2> HIDE DEF a, b
  <2>4. CASE a = b
    BY <2>3, <2>4
  <2>5. CASE a # b
    <3>1. First(t, a) = First(t, b)
      BY <1>2, <2>2, <2>5, PairOrder
    <3> QED BY <1>6, <2>2, <2>3, <3>1, Zenon
  <2> QED BY <2>4, <2>5, Zenon
<1>9. ~Cyclic(Graph(d, hb_edge(d) \cup CombOrder(f), CombConcur(f)))
  <2>1. CombOrder(f) \subseteq StrictOf(Nodes(d), Tm(d, t)) /\ ~Cyclic(Graph7(d))
    BY <1>7, Zenon DEF tm, d
  <2>2. AtOnce(d, Tm(d, t), CombConcur(f))
    BY <1>8, Zenon DEF tm, AtOnce
  <2>3. \A c \in Constraints7(d) : Bound(Tm(d, t), c)
    BY <1>1, Zenon DEF tm
  <2> QED BY <1>2, <1>3, <1>4, <2>1, <2>2, <2>3, CombAcyclic, Zenon
<1> QED BY <1>9, Zenon DEF CombGraph, CombStart, d, f

\* A covered order is one of two different PLs.
LEMMA CoveredPair ==
  ASSUME NEW c, Covered(c), c[2] \subseteq c[1]
  PROVE  \E s, r \in c[1] : s # r
PROOF
<1>1. PICK t : CoverEntry(t, c)
  BY Zenon DEF Covered
<1>2. CASE c[1] = c[2]
  BY <1>1, <1>2, Zenon DEF CoverEntry
<1>3. CASE c[1] # c[2]
  <2>1. PICK s \in c[2], r \in c[1] \ c[2] : C_hb_prop(t, s, r)
    BY <1>1, <1>3, Zenon DEF CoverEntry
  <2> QED BY <2>1, Zenon
<1> QED BY <1>2, <1>3, Zenon

LEMMA KeptWhenOrdered ==
  ASSUME OInv, SingleStays, OneStatePerFSM
  PROVE  OrdersKept
PROOF
<1> SUFFICES ASSUME pc = "ordered", NEW t \in exec, Fits(t), ~AgainstFlow(t),
                    \A c \in DOMAIN com : com[c] = "undetermined" => EntersFirst(t, c[1]) # c[2]
             PROVE  \E f \in comb_edges : Agrees(t, f)
  BY Zenon DEF OrdersKept
<1> DEFINE f == OwnOrders(t)
<1>1. /\ ~Cyclic(Graph7(files)) /\ todo = OrdersOf(Open(files, edge))
      /\ Verdicts /\ DOMAIN com = todo /\ comb_edges = Acyclic
  BY Zenon DEF OInv, Asking
<1>2. t \in OfSet
  BY Satisfied, Zenon DEF Fits
<1>3. t \in Trace /\ Visited(t) = aSet
  BY <1>2, SetExecution, Zenon
<1>4. ASSUME NEW c \in result_edges
      PROVE  <<c[1], EntersFirst(t, c[1])>> \in result_edges /\ c[1] \subseteq aSet
  <2> DEFINE o == <<c[1], EntersFirst(t, c[1])>>
  <2>1. c \in todo /\ com[c] = "covered" /\ Covered(c)
    BY <1>1, <1>4, Zenon DEF result_edges, Verdicts
  <2>2. o \in todo /\ \E s, r \in aSet : c[1] = {s, r}
    BY <1>1, <2>1, OrderAsked, Zenon
  <2>3. PICK s, r \in aSet : c[1] = {s, r}
    BY <2>2, Zenon
  <2>4. s # r
    <3>1. c[2] \subseteq c[1]
      BY <1>1, <2>1 DEF OrdersOf
    <3> QED BY <2>1, <2>3, <3>1, CoveredPair
  <2>5. Covered(<<{s, r}, EntersFirst(t, {s, r})>>)
    BY <1>2, <1>3, <2>4, CoversItself, Zenon
  <2>6. Covered(o)
    BY <2>3, <2>5, Zenon
  <2>7. o[1] = c[1] /\ o[2] = EntersFirst(t, c[1])
    BY Zenon
  <2> HIDE DEF o
  <2>8. com[o] # "undetermined"
    BY <1>1, <2>2, <2>7, Zenon
  <2>9. com[o] = "covered"
    BY <1>1, <2>2, <2>6, <2>8 DEF Verdicts
  <2>10. o \in result_edges
    BY <1>1, <2>2, <2>9, Zenon DEF result_edges
  <2> QED BY <2>3, <2>10, Zenon DEF o
<1>5. f \in Product
  <2> DEFINE D == {c[1] : c \in result_edges}
  <2>1. ASSUME NEW p \in D
        PROVE  <<p, EntersFirst(t, p)>> \in result_edges /\ EntersFirst(t, p) \subseteq aSet
    <3>1. PICK c \in result_edges : p = c[1]
      BY Zenon
    <3> QED BY <1>4, <3>1, Zenon DEF EntersFirst
  <2>2. f = [p \in D |-> EntersFirst(t, p)]
    BY Zenon DEF OwnOrders
  <2> HIDE DEF f, D
  <2>3. f \in [D -> SUBSET aSet] /\ \A p \in DOMAIN f : <<p, f[p]>> \in result_edges
    BY <2>1, <2>2, Zenon
  <2> QED BY <2>3, Zenon DEF Product, D
<1>6. ~Cyclic(CombGraph(f))
  BY <1>1, OwnOrdersAcyclic
<1>7. Agrees(t, f)
  BY DEF Agrees, OwnOrders
<1> HIDE DEF f
<1> QED BY <1>1, <1>5, <1>6, <1>7, Zenon DEF Acyclic

-----------------------------------------------------------------------------
\* Steps 7 and 8 lose no execution that the files of steps 4 to 6 allow: one of the
\* combinations that step 8 writes has its entering orders, unless the cover of one of
\* them timed out or the data flow graph has only the opposite edge.  An instruction
\* occupies a PL in one stay and an FSM is in one state at a time.
THEOREM OrdersKeptHolds ==
  ASSUME SingleStays, OneStatePerFSM
  PROVE  PathSpec => []OrdersKept
PROOF
<1>1. OInv => OrdersKept
  BY KeptWhenOrdered, Zenon
<1>2. Init => OInv
  BY InitOInv, ZenonT(30) DEF Init
<1> QED BY <1>1, <1>2, NextOInv, PTL DEF PathSpec

\* The scripts stop only on a contradiction: step 7 where no execution that fits has the
\* orders of the files, step 8 on a combination whose constraints no execution of the set
\* satisfies.  Following the concurrent pairs, closing the graph and chaining the bounds
\* add no contradiction of their own.
THEOREM StopsOnlyOnContradictionHolds ==
  ASSUME SingleStays, OneStatePerFSM
  PROVE  PathSpec => []StopsOnlyOnContradiction
PROOF
<1>1. OInv => StopsOnlyOnContradiction
  BY StoppedContradicts
<1>2. Init => OInv
  BY InitOInv, Zenon DEF Init
<1> QED BY <1>1, <1>2, NextOInv, PTL DEF PathSpec
=============================================================================
