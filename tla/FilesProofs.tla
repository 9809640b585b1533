---------------------------- MODULE FilesProofs -----------------------------
(***************************************************************************)
(* What the graph and the constraints that steps 7 and 8 build from the    *)
(* files say of an execution that the files are right about.               *)
(***************************************************************************)
EXTENDS GraphProofs

-----------------------------------------------------------------------------
(***************************************************************************)
(* The times of an execution as an order on the nodes.                     *)
(***************************************************************************)
\* Earlier, and earlier or in the same cycle with the entry of one before the final
\* cycle of another.
StrictOf(N, tm) == {x \in N \X N : tm[x[1]] < tm[x[2]]}
LooseOf(N, tm) ==
    {x \in N \X N : tm[x[1]] < tm[x[2]] \/ (tm[x[1]] = tm[x[2]] /\ x[1][1] = 0 /\ x[2][1] = 1)}

\* Two ends in the same cycle are before and after the same nodes, and so are two
\* entries in the same cycle in the second order.
LEMMA TimesShare ==
  ASSUME NEW N, NEW tm \in [N -> Int], NEW x, x[1] \in N, x[2] \in N, tm[x[1]] = tm[x[2]]
  PROVE  /\ Shares(StrictOf(N, tm), x)
         /\ x[1][1] = x[2][1] => Shares(LooseOf(N, tm), x)
PROOF
<1>1. ASSUME NEW e \in StrictOf(N, tm)
      PROVE  /\ e[2] = x[1] => <<e[1], x[2]>> \in StrictOf(N, tm)
             /\ e[2] = x[2] => <<e[1], x[1]>> \in StrictOf(N, tm)
             /\ e[1] = x[1] => <<x[2], e[2]>> \in StrictOf(N, tm)
             /\ e[1] = x[2] => <<x[1], e[2]>> \in StrictOf(N, tm)
  <2>1. e[1] \in N /\ e[2] \in N /\ tm[e[1]] < tm[e[2]]
    BY DEF StrictOf
  <2> QED BY <2>1 DEF StrictOf
<1>2. ASSUME NEW e \in LooseOf(N, tm), x[1][1] = x[2][1]
      PROVE  /\ e[2] = x[1] => <<e[1], x[2]>> \in LooseOf(N, tm)
             /\ e[2] = x[2] => <<e[1], x[1]>> \in LooseOf(N, tm)
             /\ e[1] = x[1] => <<x[2], e[2]>> \in LooseOf(N, tm)
             /\ e[1] = x[2] => <<x[1], e[2]>> \in LooseOf(N, tm)
  <2>1. /\ e[1] \in N /\ e[2] \in N
        /\ tm[e[1]] < tm[e[2]] \/ (tm[e[1]] = tm[e[2]] /\ e[1][1] = 0 /\ e[2][1] = 1)
    BY DEF LooseOf
  <2> QED BY <1>2, <2>1 DEF LooseOf
<1> QED BY <1>1, <1>2, Zenon DEF Shares

LEMMA LooseOrder ==
  ASSUME NEW N, NEW tm \in [N -> Int]
  PROVE  /\ Transitive(LooseOf(N, tm))
         /\ \A n : ~Has(LooseOf(N, tm), n, n)
         /\ StrictOf(N, tm) \subseteq LooseOf(N, tm)
PROOF
<1>1. ASSUME NEW n, NEW a, NEW b, Has(LooseOf(N, tm), a, n), Has(LooseOf(N, tm), n, b)
      PROVE  Has(LooseOf(N, tm), a, b)
  <2>1. /\ a \in N /\ n \in N /\ b \in N
        /\ tm[a] < tm[n] \/ (tm[a] = tm[n] /\ a[1] = 0 /\ n[1] = 1)
        /\ tm[n] < tm[b] \/ (tm[n] = tm[b] /\ n[1] = 0 /\ b[1] = 1)
    BY <1>1 DEF Has, LooseOf
  <2>2. tm[a] \in Int /\ tm[n] \in Int /\ tm[b] \in Int
    BY <2>1
  <2>3. tm[a] < tm[b]
    BY <2>1, <2>2
  <2> QED BY <2>1, <2>3 DEF Has, LooseOf
<1>2. ASSUME NEW n, Has(LooseOf(N, tm), n, n) PROVE FALSE
  <2>1. n \in N /\ (tm[n] < tm[n] \/ (n[1] = 0 /\ n[1] = 1))
    BY <1>2 DEF Has, LooseOf
  <2>2. tm[n] \in Int
    BY <2>1
  <2> QED BY <2>1, <2>2
<1>3. StrictOf(N, tm) \subseteq LooseOf(N, tm)
  BY DEF StrictOf, LooseOf
<1> QED BY <1>1, <1>2, <1>3 DEF Transitive, ClosedAt

\* A graph whose edges follow the times has no cycle.
LEMMA TimesAcyclic ==
  ASSUME NEW G, IsGraph(G), NEW tm \in [G.node -> Int], G.edge \subseteq LooseOf(G.node, tm)
  PROVE  ~Cyclic(G)
PROOF
<1> DEFINE R == LooseOf(G.node, tm)
<1>1. Transitive(R) /\ \A n : ~Has(R, n, n)
  BY LooseOrder
<1> HIDE DEF R
<1>2. \A a, b \in AllNodes : Has(G.edge, a, b) => Has(R, a, b)
  BY DEF Has, R
<1>3. G.edge \in Edges
  BY ClosureInside
<1>4. \A a, b \in AllNodes : Has(TC(G.edge), a, b) => Has(R, a, b)
  BY <1>1, <1>2, <1>3, Closure
<1>5. \A n \in G.node : ~Has(TC(G.edge), n, n)
  BY <1>1, <1>4 DEF IsGraph
<1> QED BY <1>5, Zenon DEF Cyclic, Has

\* The entry and the last cycle of a PL that an execution visits.
LEMMA EntryCycle ==
  ASSUME NEW t \in Trace, NEW s \in Visited(t)
  PROVE  /\ First(t, s) \in 1..T /\ s \in t[First(t, s)] /\ Enter(t, s, First(t, s))
         /\ \A m \in 1..T : s \in t[m] => First(t, s) <= m
PROOF
<1> DEFINE S == {n \in 1..T : s \in t[n]}
<1>1. S # {} /\ S \subseteq Nat
  BY DEF Visited
<1>2. PICK n \in S : \A m \in S : n <= m
  <2> HIDE DEF S
  <2> QED BY <1>1, Least, Zenon
<1>3. \E k \in 1..T : s \in t[k] /\ \A m \in 1..T : s \in t[m] => k <= m
  BY <1>2
<1>4. /\ First(t, s) \in 1..T /\ s \in t[First(t, s)]
      /\ \A m \in 1..T : s \in t[m] => First(t, s) <= m
  BY <1>3 DEF First
<1>5. ~hpn(t, s, First(t, s))
  BY <1>4, HorizonAssumption DEF hpn
<1> QED BY <1>4, <1>5 DEF Enter

LEMMA FinalCycle ==
  ASSUME NEW t \in Trace, NEW s \in Visited(t)
  PROVE  /\ Final(t, s) \in 1..T /\ s \in t[Final(t, s)]
         /\ \A m \in 1..T : s \in t[m] => m <= Final(t, s)
PROOF
<1> DEFINE S == {k \in 0..T : T - k \in 1..T /\ s \in t[T - k]}
<1>1. ASSUME NEW m \in 1..T, s \in t[m] PROVE T - m \in S
  <2>1. T - m \in 0..T /\ T - (T - m) = m
    BY HorizonAssumption
  <2> QED BY <1>1, <2>1
<1>2. S # {} /\ S \subseteq Nat
  BY <1>1 DEF Visited
<1>3. PICK k \in S : \A j \in S : k <= j
  <2> HIDE DEF S
  <2> QED BY <1>2, Least, Zenon
<1>4. ASSUME NEW m \in 1..T, s \in t[m] PROVE m <= T - k
  <2>1. k <= T - m /\ k \in 0..T
    BY <1>1, <1>3, <1>4, Zenon
  <2> QED BY <2>1, HorizonAssumption
<1>5. \E n \in 1..T : s \in t[n] /\ \A m \in 1..T : s \in t[m] => m <= n
  <2>1. T - k \in 1..T /\ s \in t[T - k]
    BY <1>3
  <2> QED BY <1>4, <2>1, Zenon
<1> QED BY <1>5 DEF Final

\* A stay of two cycles or more ends after its entry.
LEMMA LongStay ==
  ASSUME NEW t \in Trace, NEW s \in Visited(t), S2_STAY_AT_LEAST_TWO(t, s)
  PROVE  First(t, s) < Final(t, s)
PROOF
<1>1. PICK n \in 1 .. T - 1 : s \in t[n] /\ s \in t[n+1]
  BY DEF S2_STAY_AT_LEAST_TWO
<1>2. n \in 1..T /\ n + 1 \in 1..T
  BY HorizonAssumption
<1>3. First(t, s) <= n /\ n + 1 <= Final(t, s) /\ First(t, s) \in 1..T /\ Final(t, s) \in 1..T
  BY <1>1, <1>2, EntryCycle, FinalCycle, Zenon
<1> QED BY <1>3, HorizonAssumption

\* The times of an execution of the set, at the nodes of the files d.
Tm(d, t) == [n \in Nodes(d) |-> Time(t, n[1], n[2])]
OfFiles(d, t) == /\ t \in Trace /\ \A s \in Visited(t) : OneStay(t, s)
                 /\ d.aSet = Visited(t) /\ d.gt1 \subseteq d.aSet

LEMMA NodeTimes ==
  ASSUME NEW d, NEW t, OfFiles(d, t)
  PROVE  /\ Tm(d, t) \in [Nodes(d) -> Int]
         /\ \A s \in d.aSet : /\ <<0, s>> \in Nodes(d) /\ Tm(d, t)[<<0, s>>] = First(t, s)
                              /\ First(t, s) \in 1..T /\ Final(t, s) \in 1..T
         /\ \A s \in d.gt1 : <<1, s>> \in Nodes(d) /\ Tm(d, t)[<<1, s>>] = Final(t, s)
PROOF
<1>1. ASSUME NEW s \in d.aSet PROVE First(t, s) \in 1..T /\ Final(t, s) \in 1..T
  BY EntryCycle, FinalCycle, Zenon DEF OfFiles
<1>2. ASSUME NEW n \in Nodes(d) PROVE Time(t, n[1], n[2]) \in Int
  <2>1. n[2] \in d.aSet
    BY DEF Nodes, Entered, OfFiles
  <2> QED BY <1>1, <2>1, HorizonAssumption DEF Time
<1>3. Tm(d, t) \in [Nodes(d) -> Int]
  BY <1>2 DEF Tm
<1>4. ASSUME NEW s \in d.aSet PROVE <<0, s>> \in Nodes(d) /\ Tm(d, t)[<<0, s>>] = First(t, s)
  <2>1. <<0, s>> \in Nodes(d)
    BY DEF Nodes, Entered
  <2> QED BY <2>1 DEF Tm, Time
<1>5. ASSUME NEW s \in d.gt1 PROVE <<1, s>> \in Nodes(d) /\ Tm(d, t)[<<1, s>>] = Final(t, s)
  <2>1. <<1, s>> \in Nodes(d)
    BY DEF Nodes
  <2> QED BY <2>1 DEF Tm, Time
<1> QED BY <1>1, <1>3, <1>4, <1>5, Zenon

-----------------------------------------------------------------------------
(***************************************************************************)
(* The graph of the files and what the solver is given.                    *)
(***************************************************************************)
FilesType(d) == /\ d.aSet \subseteq PL /\ d.gt1 \subseteq d.aSet
                /\ d.max_cyc \in [d.gt1 -> Int]

LEMMA RelsLen ==
  /\ Len(entryRels) \in Nat /\ Len(finalRels) \in Nat
  /\ \A i \in 1 .. Len(entryRels) : Ends(entryRels[i])[1][1] = Ends(entryRels[i])[2][1]
PROOF
<1>1. Len(dfg_e) \in Nat /\ DOMAIN dfg_e = 1 .. Len(dfg_e)
  BY FileAssumption
<1>2. entryRels \in [1 .. Len(dfg_e) -> {EntryRel(dfg_e[i]) : i \in 1 .. Len(dfg_e)}]
  BY <1>1 DEF entryRels
<1>3. entryRels \in Seq({EntryRel(dfg_e[i]) : i \in 1 .. Len(dfg_e)}) /\ Len(entryRels) = Len(dfg_e)
  BY <1>1, <1>2
<1> DEFINE m == 3 * Len(dfg_e)
           S == {finalRels[i] : i \in 1 .. m}
<1>4. m \in Nat
  BY <1>1
<1>5. finalRels \in [1 .. m -> S]
  BY DEF finalRels
<1> HIDE DEF m, S
<1>6. Len(finalRels) = m
  BY <1>4, <1>5
<1>7. ASSUME NEW i \in 1 .. Len(entryRels)
      PROVE  Ends(entryRels[i])[1][1] = Ends(entryRels[i])[2][1]
  <2>1. entryRels[i] = EntryRel(dfg_e[i])
    BY <1>1, <1>3, Zenon DEF entryRels
  <2> QED BY <2>1 DEF EntryRel, Ends
<1> QED BY <1>1, <1>3, <1>4, <1>6, <1>7, Zenon

\* The edges a graph is begun with.
Base(d, start) == start \cup edge_weight(d) \cup implied_edges_same_iid(d, start)
                  \cup Inside(d, leaving_hb_proven_res_pairs(d))

LEMMA InsideType ==
  ASSUME NEW d, NEW X
  PROVE  /\ Inside(d, Entries(X)) \in SUBSET (Nodes(d) \X Nodes(d))
         /\ Inside(d, {Ends(r) : r \in X}) \in SUBSET (Nodes(d) \X Nodes(d))
PROOF
<1>1. ASSUME NEW e \in Inside(d, Entries(X)) PROVE e \in Nodes(d) \X Nodes(d)
  BY DEF Inside, Entries
<1>2. ASSUME NEW e \in Inside(d, {Ends(r) : r \in X}) PROVE e \in Nodes(d) \X Nodes(d)
  BY DEF Inside, Ends
<1> QED BY <1>1, <1>2, Zenon

LEMMA BaseType ==
  ASSUME NEW d, FilesType(d), NEW start \in SUBSET (Nodes(d) \X Nodes(d))
  PROVE  /\ Nodes(d) \subseteq AllNodes
         /\ edge_weight(d) \in SUBSET (Nodes(d) \X Nodes(d))
         /\ implied_edges_same_iid(d, start) \in SUBSET (Nodes(d) \X Nodes(d))
         /\ Base(d, start) \in SUBSET (Nodes(d) \X Nodes(d))
PROOF
<1>1. Nodes(d) \subseteq AllNodes
  BY DEF Nodes, Entered, AllNodes, FilesType
<1>2. edge_weight(d) \in SUBSET (Nodes(d) \X Nodes(d))
  BY DEF edge_weight, Nodes, Entered, FilesType
<1>3. implied_edges_same_iid(d, start) \in SUBSET (Nodes(d) \X Nodes(d))
  <2>1. ASSUME NEW e \in start, e[1] \in Entered(d.gt1)
        PROVE  <<<<1, e[1][2]>>, e[2]>> \in Nodes(d) \X Nodes(d)
    <3>1. e[1][2] \in d.gt1 /\ e[2] \in Nodes(d)
      BY <2>1 DEF Entered
    <3> QED BY <3>1, Zenon DEF Nodes
  <2> QED BY <2>1, Zenon DEF implied_edges_same_iid
<1>4. Inside(d, leaving_hb_proven_res_pairs(d)) \in SUBSET (Nodes(d) \X Nodes(d))
  BY InsideType, Zenon DEF leaving_hb_proven_res_pairs
<1> QED BY <1>1, <1>2, <1>3, <1>4, Zenon DEF Base

\* The passes over the files, and the graph.
EntryPass2(d, E) == Pass(d, Pass(d, E, entryRels, firstRels(d)),
                         entryRels, concurrentRels(d) \ firstRels(d))

LEMMA InFilesPass ==
  \A d, E : InFiles(d, E) = Pass(d, EntryPass2(d, E), finalRels, d.leaving_concur)
PROOF
  BY DEF InFiles, EntryPass2

LEMMA ConcurrentPass ==
  ASSUME NEW d, NEW E \in SUBSET (Nodes(d) \X Nodes(d)), NEW F \in SUBSET (Nodes(d) \X Nodes(d))
  PROVE  /\ EntryPass2(d, E) \in SUBSET (Nodes(d) \X Nodes(d))
         /\ EntryPass2(d, F) \in SUBSET (Nodes(d) \X Nodes(d))
         /\ EntryPass2(d, E \cup F) = EntryPass2(d, E) \cup EntryPass2(d, F)
PROOF
<1> DEFINE C == concurrentRels(d) \ firstRels(d)
<1>1. PICK A : A = Pass(d, E, entryRels, firstRels(d))
  OBVIOUS
<1>2. PICK B : B = Pass(d, F, entryRels, firstRels(d))
  OBVIOUS
<1>3. /\ A \in SUBSET (Nodes(d) \X Nodes(d)) /\ B \in SUBSET (Nodes(d) \X Nodes(d))
      /\ Pass(d, E \cup F, entryRels, firstRels(d)) = A \cup B
  BY <1>1, <1>2, RelsLen, PassType, PassUnion
<1> HIDE DEF C
<1>4. /\ Pass(d, A, entryRels, C) \in SUBSET (Nodes(d) \X Nodes(d))
      /\ Pass(d, B, entryRels, C) \in SUBSET (Nodes(d) \X Nodes(d))
      /\ Pass(d, A \cup B, entryRels, C) = Pass(d, A, entryRels, C) \cup Pass(d, B, entryRels, C)
  BY <1>3, RelsLen, PassType, PassUnion
<1> QED BY <1>1, <1>2, <1>3, <1>4, Zenon DEF EntryPass2, C

LEMMA FilesPass ==
  ASSUME NEW d, NEW E \in SUBSET (Nodes(d) \X Nodes(d)), NEW F \in SUBSET (Nodes(d) \X Nodes(d))
  PROVE  /\ InFiles(d, E) \in SUBSET (Nodes(d) \X Nodes(d))
         /\ InFiles(d, E \cup F) = InFiles(d, E) \cup InFiles(d, F)
PROOF
<1> DEFINE P(X) == EntryPass2(d, X)
<1>1. /\ P(E) \in SUBSET (Nodes(d) \X Nodes(d)) /\ P(F) \in SUBSET (Nodes(d) \X Nodes(d))
      /\ P(E \cup F) = P(E) \cup P(F)
  BY ConcurrentPass
<1> HIDE DEF P
<1> DEFINE A == P(E)
           B == P(F)
           Q(X) == Pass(d, X, finalRels, d.leaving_concur)
<1>2. A \in SUBSET (Nodes(d) \X Nodes(d)) /\ B \in SUBSET (Nodes(d) \X Nodes(d))
  BY <1>1, Zenon
<1> HIDE DEF A, B
<1>3. Q(A) \in SUBSET (Nodes(d) \X Nodes(d)) /\ Q(A \cup B) = Q(A) \cup Q(B)
  BY <1>2, RelsLen, PassType, PassUnion
<1>4. InFiles(d, E) = Q(A) /\ InFiles(d, F) = Q(B)
  BY InFilesPass DEF A, B, P
<1>5. InFiles(d, E \cup F) = Q(A \cup B)
  <2>1. InFiles(d, E \cup F) = Q(P(E \cup F))
    BY InFilesPass DEF P
  <2>2. P(E \cup F) = A \cup B
    BY <1>1, Zenon DEF A, B
  <2> QED BY <2>1, <2>2, Zenon
<1> QED BY <1>3, <1>4, <1>5, Zenon

LEMMA GraphType ==
  ASSUME NEW d, FilesType(d), NEW start \in SUBSET (Nodes(d) \X Nodes(d)), NEW concur
  PROVE  LET G == Graph(d, start, concur)
         IN  /\ IsGraph(G) /\ G.node = Nodes(d)
             /\ G.edge = Pass(d, InFiles(d, Base(d, start)), entryRels, concur)
             /\ concur = {} => G.edge = InFiles(d, Base(d, start))
PROOF
<1> DEFINE G == Graph(d, start, concur)
           E == InFiles(d, Base(d, start))
           F == Pass(d, E, entryRels, concur)
<1>1. Base(d, start) \in SUBSET (Nodes(d) \X Nodes(d)) /\ Nodes(d) \subseteq AllNodes
  BY BaseType, Zenon
<1>2. E \in SUBSET (Nodes(d) \X Nodes(d))
  BY <1>1, FilesPass, Zenon
<1>3. G = [node |-> Nodes(d), edge |-> Pass(d, F, finalRels, {})]
  BY DEF Graph, Connected, Base
<1> HIDE DEF E, G
<1>4. F \in SUBSET (Nodes(d) \X Nodes(d)) /\ (concur = {} => F = E)
  <2>1. F \in SUBSET (Nodes(d) \X Nodes(d))
    BY <1>2, RelsLen, PassType, Zenon
  <2>2. Pass(d, E, entryRels, {}) = E
    BY <1>2, RelsLen, PassNone, Zenon
  <2> QED BY <2>1, <2>2, Zenon
<1> HIDE DEF F
<1>5. Pass(d, F, finalRels, {}) = F
  BY <1>4, RelsLen, PassNone, Zenon
<1>6. G.node = Nodes(d) /\ G.edge = F
  BY <1>3, <1>5, Zenon
<1>7. IsGraph(G)
  BY <1>1, <1>4, <1>6, Zenon DEF IsGraph
<1> QED BY <1>4, <1>6, <1>7 DEF E, F, G

\* What the solver is given bounds differences between nodes.
LEMMA ConstraintsType ==
  ASSUME NEW d, FilesType(d), NEW start, NEW concur, NEW G, IsGraph(G), G.node = Nodes(d)
  PROVE  add_constraints(d, start, concur, G) \in SUBSET Bounding(Nodes(d))
PROOF
<1> DEFINE N == Nodes(d)
           tr == TR(G)
           stay == tr \cap edge_weight(d)
           same == Inside(d, {Ends(r) : r \in concurrentRels(d) \cup d.leaving_concur \cup concur})
           weak == Inside(d, Entries(d.whb_proven)) \cup same \cup {Rev(e) : e \in same}
<1>1. tr \in SUBSET (N \X N)
  BY DEF TR, IsGraph
<1>2. same \in SUBSET (N \X N) /\ Inside(d, Entries(d.whb_proven)) \in SUBSET (N \X N)
  BY InsideType, Zenon
<1> HIDE DEF N, tr, same
<1>3. weak \in SUBSET (N \X N)
  <2>1. \A e \in same : Rev(e) \in N \X N
    BY <1>2 DEF Rev
  <2> QED BY <1>2, <2>1
<1>4. ASSUME NEW es \in SUBSET (N \X N), NEW w \in Int PROVE AtLeast(es, w) \in SUBSET Bounding(N)
  BY DEF AtLeast, Bounding
<1>5. ASSUME NEW es \in SUBSET (N \X N), NEW w \in Int
      PROVE  {<<e[2], e[1], w>> : e \in es} \in SUBSET Bounding(N)
  BY DEF Bounding
<1>6. Stays(d, stay) \in SUBSET Bounding(N)
  <2>1. AtLeast(stay, 0) \in SUBSET Bounding(N)
    BY <1>1, <1>4
  <2>2. ASSUME NEW e \in stay PROVE <<e[2], e[1], 1 - d.max_cyc[e[1][2]]>> \in Bounding(N)
    <3>1. e[1] \in N /\ e[2] \in N
      BY <1>1, Zenon
    <3>2. e[1][2] \in d.gt1
      BY DEF edge_weight
    <3>3. d.max_cyc[e[1][2]] \in Int
      BY <3>2, Zenon DEF FilesType
    <3>4. 1 - d.max_cyc[e[1][2]] \in Int
      BY <3>3
    <3> QED BY <3>1, <3>4, Zenon DEF Bounding
  <2> QED BY <2>1, <2>2, Zenon DEF Stays
<1> HIDE DEF stay, weak
<1> DEFINE plus1 == {e \in tr \ stay : e \in implied_edges_same_iid(d, start) \/ SameIid(e)}
<1>7. plus1 \in SUBSET (N \X N) /\ tr \ stay \in SUBSET (N \X N)
  BY <1>1, Zenon
<1>8. add_constraints(d, start, concur, G) =
        Stays(d, stay) \cup AtLeast(tr \ stay, 1) \cup {<<e[2], e[1], -1>> : e \in plus1}
        \cup AtLeast(weak, 0)
  BY Zenon DEF add_constraints, Weak, tr, stay, weak, same
<1> HIDE DEF plus1
<1>9. /\ AtLeast(tr \ stay, 1) \in SUBSET Bounding(N) /\ AtLeast(weak, 0) \in SUBSET Bounding(N)
      /\ {<<e[2], e[1], -1>> : e \in plus1} \in SUBSET Bounding(N)
  BY <1>3, <1>4, <1>5, <1>7
<1> QED BY <1>6, <1>8, <1>9, Zenon DEF N

\* Where some times satisfy what the solver is given, it finds a solution.
LEMMA SatisfiedIsSat ==
  ASSUME NEW N, NEW tm \in [N -> Int], NEW B \in SUBSET Bounding(N), \A c \in B : Bound(tm, c)
  PROVE  Solve(B) \in SoundSets(N, tm) /\ ~Unsat(Solve(B))
PROOF
<1>1. B \in SoundSets(N, tm)
  BY DEF SoundSets
<1> DEFINE S == Solve(B)
<1>2. S \in SoundSets(N, tm)
  BY <1>1, SolveSound, Zenon
<1> HIDE DEF S
<1>3. ASSUME NEW c \in S, c[1] = c[2], c[3] > 0 PROVE FALSE
  <2>1. c \in Bounding(N) /\ Bound(tm, c)
    BY <1>2, Zenon DEF SoundSets
  <2>2. c[1] \in N /\ c[3] \in Int /\ tm[c[1]] \in Int
    BY <2>1 DEF Bounding
  <2> QED BY <1>3, <2>1, <2>2 DEF Bound
<1>4. ~Unsat(S)
  BY <1>3, Zenon DEF Unsat
<1> QED BY <1>2, <1>4, Zenon DEF S

\* The times put the pairs of C, or the concurrent pairs of the files, into the same
\* cycle.
AtOnce(d, tm, C) ==
    \A r \in C : Ends(r)[1] \in Nodes(d) /\ Ends(r)[2] \in Nodes(d)
                 => tm[Ends(r)[1]] = tm[Ends(r)[2]]
SameInFiles(d, tm) == AtOnce(d, tm, concurrentRels(d) \cup d.leaving_concur)

\* Times that satisfy it follow the reduction, the final cycle of a stay not before its
\* entry, and put concurrent ends into the same cycle.
LEMMA ConstraintsMean ==
  ASSUME NEW d, FilesType(d), NEW start, NEW concur, NEW G, IsGraph(G), G.node = Nodes(d),
         NEW tm \in [Nodes(d) -> Int],
         \A c \in add_constraints(d, start, concur, G) : Bound(tm, c)
  PROVE  /\ TR(G) \subseteq LooseOf(Nodes(d), tm)
         /\ SameInFiles(d, tm)
PROOF
<1> DEFINE N == Nodes(d)
           tr == TR(G)
           stay == tr \cap edge_weight(d)
           same == Inside(d, {Ends(r) : r \in concurrentRels(d) \cup d.leaving_concur \cup concur})
<1>1. tr \in SUBSET (N \X N)
  BY Zenon DEF TR, IsGraph
<1>2. /\ \A c \in AtLeast(stay, 0) : Bound(tm, c)
      /\ \A c \in AtLeast(tr \ stay, 1) : Bound(tm, c)
      /\ \A c \in AtLeast(same, 0) : Bound(tm, c)
      /\ \A c \in AtLeast({Rev(e) : e \in same}, 0) : Bound(tm, c)
  <2>1. /\ AtLeast(stay, 0) \subseteq add_constraints(d, start, concur, G)
        /\ AtLeast(tr \ stay, 1) \subseteq add_constraints(d, start, concur, G)
    BY Zenon DEF add_constraints, Stays
  <2>2. /\ AtLeast(same, 0) \subseteq Weak(d, concur)
        /\ AtLeast({Rev(e) : e \in same}, 0) \subseteq Weak(d, concur)
    BY Zenon DEF Weak, AtLeast
  <2>3. Weak(d, concur) \subseteq add_constraints(d, start, concur, G)
    BY DEF add_constraints
  <2> HIDE DEF tr, stay, same
  <2> QED BY <2>1, <2>2, <2>3, Zenon
<1>3. ASSUME NEW es, NEW w \in Int, \A c \in AtLeast(es, w) : Bound(tm, c), NEW e \in es
      PROVE  tm[e[2]] >= tm[e[1]] + w
  <2>1. <<e[1], e[2], w>> \in AtLeast(es, w)
    BY DEF AtLeast
  <2>2. Bound(tm, <<e[1], e[2], w>>)
    BY <1>3, <2>1
  <2> QED BY <2>2 DEF Bound
<1>4. \A e \in stay : e[1][1] = 0 /\ e[2][1] = 1
  BY DEF edge_weight
<1> HIDE DEF N, tr, stay, same
<1>5. ASSUME NEW e \in tr PROVE e \in LooseOf(N, tm)
  <2>1. e \in N \X N /\ tm[e[1]] \in Int /\ tm[e[2]] \in Int
    BY <1>1, Zenon DEF N
  <2>2. CASE e \in stay
    <3>1. tm[e[2]] >= tm[e[1]] + 0
      BY <1>2, <1>3, <2>2
    <3> QED BY <1>4, <2>1, <2>2, <3>1 DEF LooseOf
  <2>3. CASE e \notin stay
    <3>1. tm[e[2]] >= tm[e[1]] + 1
      <4>1. e \in tr \ stay
        BY <2>3, Zenon
      <4> QED BY <1>2, <1>3, <4>1
    <3> QED BY <2>1, <3>1 DEF LooseOf
  <2> QED BY <2>2, <2>3
<1>6. ASSUME NEW r \in concurrentRels(d) \cup d.leaving_concur, Ends(r)[1] \in N, Ends(r)[2] \in N
      PROVE  tm[Ends(r)[1]] = tm[Ends(r)[2]]
  <2> DEFINE e == Ends(r)
  <2>1. e \in same
    BY <1>6, Zenon DEF same, Inside, N
  <2>2. Rev(e) \in {Rev(x) : x \in same}
    BY <2>1, Zenon
  <2> HIDE DEF e
  <2>3. tm[e[2]] >= tm[e[1]] + 0
    BY <1>2, <1>3, <2>1
  <2>4. tm[Rev(e)[2]] >= tm[Rev(e)[1]] + 0
    <3> DEFINE es == {Rev(x) : x \in same}
               f == Rev(e)
    <3>1. f \in es /\ \A c \in AtLeast(es, 0) : Bound(tm, c)
      BY <1>2, <2>2, Zenon
    <3> HIDE DEF es, f
    <3>2. tm[f[2]] >= tm[f[1]] + 0
      BY <1>3, <3>1
    <3> QED BY <3>2, Zenon DEF f
  <2>5. tm[e[1]] >= tm[e[2]] + 0
    BY <2>4, Zenon DEF Rev
  <2>6. tm[e[1]] \in Int /\ tm[e[2]] \in Int
    BY <1>6, Zenon DEF e, N
  <2> QED BY <2>3, <2>5, <2>6 DEF e
<1>7. SameInFiles(d, tm)
  BY <1>6, Zenon DEF SameInFiles, AtOnce, N
<1> QED BY <1>5, <1>7, Zenon DEF N, tr

-----------------------------------------------------------------------------
(***************************************************************************)
(* The graph against an execution.                                         *)
(***************************************************************************)
\* An FSM is in one state at a time, so that of two of its PLs the earlier one is left
\* before the later one is entered.
OneState(t) == \A n \in 1..T : \A s, r \in t[n] : s # r => iid_map[s] # iid_map[r]
AreEntries(E) == \A e \in E : e[1][1] = 0 /\ e[2][1] = 0

LEMMA ImpliedOrder ==
  ASSUME NEW d, NEW t, FilesType(d), OfFiles(d, t), OneState(t),
         NEW start, start \subseteq StrictOf(Nodes(d), Tm(d, t)), AreEntries(start)
  PROVE  implied_edges_same_iid(d, start) \subseteq StrictOf(Nodes(d), Tm(d, t))
PROOF
<1> SUFFICES ASSUME NEW e \in start, e[1] \in Entered(d.gt1), SameIid(e)
             PROVE  <<<<1, e[1][2]>>, e[2]>> \in StrictOf(Nodes(d), Tm(d, t))
  BY Zenon DEF implied_edges_same_iid
<1>1. e[1] \in Nodes(d) /\ e[2] \in Nodes(d) /\ Tm(d, t)[e[1]] < Tm(d, t)[e[2]]
  BY Zenon DEF StrictOf
<1>2. PICK s \in d.gt1 : e[1] = <<0, s>>
  BY Zenon DEF Entered
<1>3. PICK r \in d.aSet : e[2] = <<0, r>>
  <2>1. e[2][1] = 0
    BY Zenon DEF AreEntries
  <2>2. e[2] \in Entered(d.aSet) \/ \E q \in d.gt1 : e[2] = <<1, q>>
    BY <1>1, Zenon DEF Nodes
  <2>3. e[2] \in Entered(d.aSet)
    BY <2>1, <2>2
  <2> QED BY <2>3, Zenon DEF Entered
<1>4. s \in d.aSet /\ s \in Visited(t) /\ r \in Visited(t) /\ t \in Trace
  BY Zenon DEF OfFiles
<1>5. /\ Tm(d, t)[e[1]] = First(t, s) /\ Tm(d, t)[e[2]] = First(t, r)
      /\ <<1, s>> \in Nodes(d) /\ Tm(d, t)[<<1, s>>] = Final(t, s)
      /\ First(t, s) \in 1..T /\ Final(t, s) \in 1..T /\ First(t, r) \in 1..T
  BY <1>2, <1>3, <1>4, NodeTimes
<1>6. First(t, s) < First(t, r)
  BY <1>1, <1>5, Zenon
<1>7. r \in t[First(t, r)] /\ \A n \in First(t, s) .. Final(t, s) : s \in t[n]
  BY <1>4, EntryCycle, Zenon DEF OfFiles, OneStay
<1>8. iid_map[s] = iid_map[r] /\ s # r
  BY <1>2, <1>3, <1>6, <1>5, HorizonAssumption DEF SameIid
<1>9. s \notin t[First(t, r)]
  BY <1>5, <1>7, <1>8, Zenon DEF OneState
<1>10. Final(t, s) < First(t, r)
  BY <1>5, <1>6, <1>7, <1>9, HorizonAssumption
<1>11. <<1, e[1][2]>> = <<1, s>>
  BY <1>2
<1>12. Tm(d, t)[<<1, s>>] < Tm(d, t)[e[2]]
  BY <1>5, <1>10, Zenon
<1> QED BY <1>1, <1>5, <1>11, <1>12, Zenon DEF StrictOf

\* Following the concurrent pairs of the files keeps to the times, if these put the
\* pairs into the same cycle.
LEMMA FilesOrder ==
  ASSUME NEW d, NEW tm \in [Nodes(d) -> Int], SameInFiles(d, tm),
         NEW E \in SUBSET (Nodes(d) \X Nodes(d)), E \subseteq StrictOf(Nodes(d), tm)
  PROVE  InFiles(d, E) \subseteq StrictOf(Nodes(d), tm)
PROOF
<1> DEFINE R == StrictOf(Nodes(d), tm)
           F == Pass(d, E, entryRels, firstRels(d))
           rest == concurrentRels(d) \ firstRels(d)
           H == Pass(d, F, entryRels, rest)
<1>0. firstRels(d) \subseteq concurrentRels(d) /\ rest \subseteq concurrentRels(d)
  BY DEF firstRels, concurrentRels
<1>1. ASSUME NEW C, C \subseteq concurrentRels(d) \cup d.leaving_concur, NEW r, Takes(d, C, r)
      PROVE  Shares(R, Ends(r))
  <2>1. /\ Ends(r)[1] \in Nodes(d) /\ Ends(r)[2] \in Nodes(d)
        /\ tm[Ends(r)[1]] = tm[Ends(r)[2]]
    BY <1>1, Zenon DEF SameInFiles, AtOnce, Takes
  <2> QED BY <2>1, TimesShare, Zenon
<1> HIDE DEF R, rest
<1>2. /\ \A i \in 1 .. Len(entryRels) :
            /\ Takes(d, firstRels(d), entryRels[i]) => Shares(R, Ends(entryRels[i]))
            /\ Takes(d, rest, entryRels[i]) => Shares(R, Ends(entryRels[i]))
      /\ \A i \in 1 .. Len(finalRels) :
            Takes(d, d.leaving_concur, finalRels[i]) => Shares(R, Ends(finalRels[i]))
  BY <1>0, <1>1, Zenon
<1>3. Len(entryRels) \in Nat /\ Len(finalRels) \in Nat /\ E \subseteq R
  BY RelsLen, Zenon DEF R
<1>4. F \subseteq R
  BY <1>2, <1>3, PassWithin, Zenon
<1>5. F \in SUBSET (Nodes(d) \X Nodes(d))
  BY <1>3, PassType, Zenon
<1> HIDE DEF F
<1>6. H \subseteq R
  BY <1>2, <1>3, <1>4, <1>5, PassWithin, Zenon
<1>7. H \in SUBSET (Nodes(d) \X Nodes(d))
  BY <1>3, <1>5, PassType, Zenon
<1> HIDE DEF H
<1>8. Pass(d, H, finalRels, d.leaving_concur) \subseteq R
  BY <1>2, <1>3, <1>6, <1>7, PassWithin, Zenon
<1> QED BY <1>8, Zenon DEF InFiles, F, H, R, rest

\* The edges of hb_proven between the nodes.
LEMMA HbEdgeType ==
  ASSUME NEW d
  PROVE  hb_edge(d) \in SUBSET (Nodes(d) \X Nodes(d)) /\ AreEntries(hb_edge(d))
PROOF
<1>1. hb_edge(d) \in SUBSET (Nodes(d) \X Nodes(d))
  BY InsideType, Zenon DEF hb_edge
<1>2. AreEntries(hb_edge(d))
  BY DEF hb_edge, Inside, Entries, AreEntries
<1> QED BY <1>1, <1>2, Zenon

\* An execution that satisfies the constraints of step 7, whose graph has no cycle,
\* follows the whole graph.
LEMMA FitsGraph ==
  ASSUME NEW d, NEW tm \in [Nodes(d) -> Int], FilesType(d), ~Cyclic(Graph7(d)),
         \A c \in Constraints7(d) : Bound(tm, c)
  PROVE  /\ InFiles(d, Base(d, hb_edge(d))) \subseteq LooseOf(Nodes(d), tm)
         /\ SameInFiles(d, tm)
PROOF
<1> DEFINE G == Graph7(d)
           R == LooseOf(Nodes(d), tm)
<1>1. IsGraph(G) /\ G.node = Nodes(d) /\ G.edge = InFiles(d, Base(d, hb_edge(d)))
  BY HbEdgeType, GraphType, Zenon DEF Graph7
<1> HIDE DEF G
<1>2. ~Cyclic(G) /\ \A c \in add_constraints(d, hb_edge(d), {}, G) : Bound(tm, c)
  BY Zenon DEF Constraints7, G
<1>3. TR(G) \subseteq R /\ SameInFiles(d, tm)
  BY <1>1, <1>2, ConstraintsMean, Zenon
<1>4. Transitive(R)
  BY LooseOrder, Zenon
<1> HIDE DEF R
<1>5. \A a, b \in AllNodes : Has(TR(G), a, b) => Has(R, a, b)
  BY <1>3, Zenon DEF Has
<1>6. \A a, b \in AllNodes : Has(TC(G.edge), a, b) => Has(R, a, b)
  BY <1>1, <1>2, <1>4, <1>5, Reduction, Zenon
<1>7. G.edge \in Edges
  BY <1>1, ClosureInside, Zenon
<1>8. \A a, b \in AllNodes : Has(G.edge, a, b) => Has(TC(G.edge), a, b)
  BY <1>7, Closure, Zenon
<1>9. G.edge \subseteq R
  BY <1>6, <1>7, <1>8 DEF Has, Edges
<1> QED BY <1>1, <1>3, <1>9, Zenon DEF R

\* Orders that the times have, added to the ones the graph is begun with, leave what the
\* passes over the files make of them within the times.
LEMMA MoreOrders ==
  ASSUME NEW d, FilesType(d), NEW tm \in [Nodes(d) -> Int], SameInFiles(d, tm),
         NEW hb \in SUBSET (Nodes(d) \X Nodes(d)),
         InFiles(d, Base(d, hb)) \subseteq LooseOf(Nodes(d), tm),
         NEW co, co \cup implied_edges_same_iid(d, co) \subseteq StrictOf(Nodes(d), tm)
  PROVE  /\ InFiles(d, Base(d, hb \cup co)) \in SUBSET (Nodes(d) \X Nodes(d))
         /\ InFiles(d, Base(d, hb \cup co)) \subseteq LooseOf(Nodes(d), tm)
PROOF
<1>1. PICK X : X = co \cup implied_edges_same_iid(d, co)
  BY Zenon
<1>2. X \subseteq StrictOf(Nodes(d), tm)
  BY <1>1
<1>3. X \in SUBSET (Nodes(d) \X Nodes(d))
  BY <1>2 DEF StrictOf
<1>4. PICK B : B = Base(d, hb)
  BY Zenon
<1>5. B \in SUBSET (Nodes(d) \X Nodes(d))
  BY <1>4, BaseType, Zenon
<1>6. Base(d, hb \cup co) = B \cup X
  BY <1>1, <1>4, Zenon DEF Base, implied_edges_same_iid
<1>7. /\ InFiles(d, B \cup X) = InFiles(d, B) \cup InFiles(d, X)
      /\ InFiles(d, B) \in SUBSET (Nodes(d) \X Nodes(d))
  BY <1>3, <1>5, FilesPass
<1>8. InFiles(d, X) \subseteq StrictOf(Nodes(d), tm)
  BY <1>2, <1>3, FilesOrder, Zenon
<1>9. StrictOf(Nodes(d), tm) \subseteq LooseOf(Nodes(d), tm)
  BY LooseOrder, Zenon
<1>10. InFiles(d, X) \in SUBSET (Nodes(d) \X Nodes(d))
  BY <1>3, FilesPass, Zenon
<1> QED BY <1>4, <1>6, <1>7, <1>8, <1>9, <1>10, Zenon

\* So does one more pass over entries the times put into the same cycle.
LEMMA EntryPass ==
  ASSUME NEW d, NEW tm \in [Nodes(d) -> Int], NEW C, AtOnce(d, tm, C),
         NEW E \in SUBSET (Nodes(d) \X Nodes(d)), E \subseteq LooseOf(Nodes(d), tm)
  PROVE  Pass(d, E, entryRels, C) \subseteq LooseOf(Nodes(d), tm)
PROOF
<1>1. ASSUME NEW i \in 1 .. Len(entryRels), Takes(d, C, entryRels[i])
      PROVE  Shares(LooseOf(Nodes(d), tm), Ends(entryRels[i]))
  <2>1. PICK x : x = Ends(entryRels[i])
    BY Zenon
  <2>2. x[1] \in Nodes(d) /\ x[2] \in Nodes(d) /\ tm[x[1]] = tm[x[2]]
    BY <1>1, <2>1, Zenon DEF Takes, AtOnce
  <2>3. x[1][1] = x[2][1]
    BY <2>1, RelsLen, Zenon
  <2>4. Shares(LooseOf(Nodes(d), tm), x)
    BY <2>2, <2>3, TimesShare, Zenon
  <2> QED BY <2>1, <2>4, Zenon
<1>2. PICK R : R = LooseOf(Nodes(d), tm)
  BY Zenon
<1>3. Len(entryRels) \in Nat /\ E \subseteq R
  BY <1>2, RelsLen, Zenon
<1>4. \A i \in 1 .. Len(entryRels) :
         Takes(d, C, entryRels[i]) => Shares(R, Ends(entryRels[i]))
  BY <1>1, <1>2, Zenon
<1>5. Pass(d, E, entryRels, C) \subseteq R
  BY <1>3, <1>4, PassWithin, Zenon
<1> QED BY <1>2, <1>5, Zenon

\* With orders and concurrent entries that the execution has, the graph of step 8 has no
\* cycle either.
LEMMA CombTimes ==
  ASSUME NEW d, FilesType(d), NEW tm \in [Nodes(d) -> Int], SameInFiles(d, tm),
         InFiles(d, Base(d, hb_edge(d))) \subseteq LooseOf(Nodes(d), tm),
         NEW co, co \cup implied_edges_same_iid(d, co) \subseteq StrictOf(Nodes(d), tm),
         NEW C, AtOnce(d, tm, C)
  PROVE  ~Cyclic(Graph(d, hb_edge(d) \cup co, C))
PROOF
<1>1. PICK hb : hb = hb_edge(d)
  BY Zenon
<1>2. hb \in SUBSET (Nodes(d) \X Nodes(d))
  BY <1>1, HbEdgeType, Zenon
<1>3. co \in SUBSET (Nodes(d) \X Nodes(d))
  BY Zenon DEF StrictOf
<1>4. PICK E : E = InFiles(d, Base(d, hb \cup co))
  BY Zenon
<1>5. E \in SUBSET (Nodes(d) \X Nodes(d)) /\ E \subseteq LooseOf(Nodes(d), tm)
  BY <1>1, <1>2, <1>4, MoreOrders, Zenon
<1>6. Pass(d, E, entryRels, C) \subseteq LooseOf(Nodes(d), tm)
  BY <1>5, EntryPass, Zenon
<1>7. PICK G : G = Graph(d, hb \cup co, C)
  BY Zenon
<1>8. hb \cup co \in SUBSET (Nodes(d) \X Nodes(d))
  BY <1>2, <1>3, Zenon
<1>9. IsGraph(G) /\ G.node = Nodes(d) /\ G.edge = Pass(d, E, entryRels, C)
  BY <1>4, <1>7, <1>8, GraphType, Zenon
<1>10. G.edge \subseteq LooseOf(G.node, tm) /\ tm \in [G.node -> Int]
  BY <1>6, <1>9, Zenon
<1> QED BY <1>1, <1>7, <1>9, <1>10, TimesAcyclic, Zenon

LEMMA CombAcyclic ==
  ASSUME NEW d, NEW t, FilesType(d), OfFiles(d, t), OneState(t), ~Cyclic(Graph7(d)),
         \A c \in Constraints7(d) : Bound(Tm(d, t), c),
         NEW co, co \subseteq StrictOf(Nodes(d), Tm(d, t)), AreEntries(co),
         NEW C, AtOnce(d, Tm(d, t), C)
  PROVE  ~Cyclic(Graph(d, hb_edge(d) \cup co, C))
PROOF
<1>1. co \cup implied_edges_same_iid(d, co) \subseteq StrictOf(Nodes(d), Tm(d, t))
  BY ImpliedOrder, Zenon
<1>2. PICK tm : tm = Tm(d, t)
  BY Zenon
<1>3. tm \in [Nodes(d) -> Int]
  BY <1>2, NodeTimes, Zenon
<1>4. \A c \in Constraints7(d) : Bound(tm, c)
  BY <1>2, Zenon
<1>5. InFiles(d, Base(d, hb_edge(d))) \subseteq LooseOf(Nodes(d), tm) /\ SameInFiles(d, tm)
  BY <1>3, <1>4, FitsGraph, Zenon
<1> QED BY <1>1, <1>2, <1>3, <1>5, CombTimes, Zenon

\* The times of an execution with the long stays that the files list have the edges
\* between entry and final cycle.
LEMMA StayEdges ==
  ASSUME NEW d, NEW t, FilesType(d), OfFiles(d, t),
         \A s \in d.gt1 : S2_STAY_AT_LEAST_TWO(t, s)
  PROVE  edge_weight(d) \subseteq StrictOf(Nodes(d), Tm(d, t))
PROOF
<1>1. ASSUME NEW s \in d.gt1 PROVE <<<<0, s>>, <<1, s>>>> \in StrictOf(Nodes(d), Tm(d, t))
  <2>1. s \in d.aSet /\ s \in Visited(t) /\ t \in Trace /\ OneStay(t, s)
    BY Zenon DEF FilesType, OfFiles
  <2>2. First(t, s) < Final(t, s)
    BY <2>1, LongStay, Zenon
  <2>3. /\ Tm(d, t)[<<0, s>>] = First(t, s) /\ Tm(d, t)[<<1, s>>] = Final(t, s)
        /\ <<0, s>> \in Nodes(d) /\ <<1, s>> \in Nodes(d)
    BY <2>1, NodeTimes
  <2>4. Tm(d, t)[<<0, s>>] < Tm(d, t)[<<1, s>>]
    BY <2>2, <2>3, Zenon
  <2> QED BY <2>3, <2>4, Zenon DEF StrictOf
<1> QED BY <1>1, Zenon DEF edge_weight

\* A graph whose first edges follow the times has no cycle.
LEMMA BaseAcyclic ==
  ASSUME NEW d, FilesType(d), NEW tm \in [Nodes(d) -> Int], SameInFiles(d, tm),
         Base(d, hb_edge(d)) \subseteq StrictOf(Nodes(d), tm)
  PROVE  ~Cyclic(Graph7(d))
PROOF
<1>1. PICK G : G = Graph7(d)
  BY Zenon
<1>2. hb_edge(d) \in SUBSET (Nodes(d) \X Nodes(d))
  BY HbEdgeType, Zenon
<1>3. IsGraph(G) /\ G.node = Nodes(d) /\ G.edge = InFiles(d, Base(d, hb_edge(d)))
  BY <1>1, <1>2, GraphType, ZenonT(30) DEF Graph7
<1>4. Base(d, hb_edge(d)) \in SUBSET (Nodes(d) \X Nodes(d))
  BY <1>2, BaseType, Zenon
<1>5. InFiles(d, Base(d, hb_edge(d))) \subseteq StrictOf(Nodes(d), tm)
  BY <1>4, FilesOrder, Zenon
<1>6. StrictOf(Nodes(d), tm) \subseteq LooseOf(Nodes(d), tm)
  BY LooseOrder, Zenon
<1>7. G.edge \subseteq LooseOf(G.node, tm) /\ tm \in [G.node -> Int]
  BY <1>3, <1>5, <1>6, Zenon
<1> QED BY <1>1, <1>3, <1>7, TimesAcyclic, Zenon

\* Times that satisfy the constraints of step 7 put the pairs of the files together.
LEMMA FitsTogether ==
  ASSUME NEW d, FilesType(d), NEW tm \in [Nodes(d) -> Int],
         \A c \in Constraints7(d) : Bound(tm, c)
  PROVE  SameInFiles(d, tm)
PROOF
<1>1. PICK G : G = Graph7(d)
  BY Zenon
<1>2. hb_edge(d) \in SUBSET (Nodes(d) \X Nodes(d))
  BY HbEdgeType
<1>3. IsGraph(G) /\ G.node = Nodes(d)
  BY <1>1, <1>2, GraphType, ZenonT(30) DEF Graph7
<1>4. \A c \in add_constraints(d, hb_edge(d), {}, G) : Bound(tm, c)
  BY <1>1, Zenon DEF Constraints7
<1> QED BY <1>3, <1>4, ConstraintsMean, Zenon

\* An execution that has the orders of the files and satisfies the constraints shows
\* that the graph of step 7 has no cycle and the solver a solution.
LEMMA FollowsAcyclic ==
  ASSUME NEW d, NEW t, FilesType(d), OfFiles(d, t), OneState(t),
         \A c \in Constraints7(d) : Bound(Tm(d, t), c),
         \A e \in hb_edge(d) \cup Inside(d, leaving_hb_proven_res_pairs(d)) :
            Tm(d, t)[e[1]] < Tm(d, t)[e[2]],
         \A s \in d.gt1 : S2_STAY_AT_LEAST_TWO(t, s)
  PROVE  ~Cyclic(Graph7(d))
PROOF
<1>1. PICK tm : tm = Tm(d, t)
  OBVIOUS
<1>2. tm \in [Nodes(d) -> Int] /\ \A c \in Constraints7(d) : Bound(tm, c)
  BY <1>1, NodeTimes, ZenonT(30)
<1>3. SameInFiles(d, tm)
  BY <1>2, FitsTogether, Zenon
<1>4. hb_edge(d) \in SUBSET (Nodes(d) \X Nodes(d)) /\ AreEntries(hb_edge(d))
  BY HbEdgeType, Zenon
<1>5. Inside(d, leaving_hb_proven_res_pairs(d)) \in SUBSET (Nodes(d) \X Nodes(d))
  BY InsideType, ZenonT(30) DEF leaving_hb_proven_res_pairs
<1>6. /\ hb_edge(d) \subseteq StrictOf(Nodes(d), tm)
      /\ Inside(d, leaving_hb_proven_res_pairs(d)) \subseteq StrictOf(Nodes(d), tm)
  BY <1>1, <1>4, <1>5, Zenon DEF StrictOf
<1>7. implied_edges_same_iid(d, hb_edge(d)) \subseteq StrictOf(Nodes(d), tm)
  BY <1>1, <1>4, <1>6, ImpliedOrder, Zenon
<1>8. edge_weight(d) \subseteq StrictOf(Nodes(d), tm)
  BY <1>1, StayEdges, Zenon
<1>9. Base(d, hb_edge(d)) \subseteq StrictOf(Nodes(d), tm)
  BY <1>6, <1>7, <1>8, Zenon DEF Base
<1> QED BY <1>2, <1>3, <1>9, BaseAcyclic, Zenon
=============================================================================
