--------------------------- MODULE PipelineProofs ---------------------------
(***************************************************************************)
(* The steps around the property checker, for every value of their         *)
(* constants: the enumeration of the sets of PLs (PLSets) loses no         *)
(* execution silently, the search for the longest stay (CycleSearch) never *)
(* runs out of rounds and shows what it misses, and the pool that runs the *)
(* checker (BatchRun) starts it at most once for a property file, strands  *)
(* a file for good and strands at most one per worker and crash.           *)
(***************************************************************************)
EXTENDS PLSets, CycleSearch, BatchRun, FiniteSetTheorems, TLAPS

(***************************************************************************)
(* PLSets.  GenComb agrees with plset_cnt, for every number of PLs, every  *)
(* design and every choice of undetermined verdicts.                       *)
(***************************************************************************)

Types ==
  /\ exec \in Designs /\ common \in Files
  /\ pc \in {"cover", "always", "pairs", "comb", "done"}
  /\ cover_individual \subseteq PL /\ undetermined \subseteq PL
  /\ always_reach \subseteq cover_individual
  /\ implication \subseteq Pairs /\ undetermined_impl \subseteq Pairs
  /\ exclusive \subseteq Pairs /\ undetermined_excl \subseteq Pairs
  /\ idx \in 1 .. N + 1
  /\ res \subseteq SUBSET (cover_individual \cap 1 .. idx - 1)

\* Steps 1 and 2 write down only what holds of the design; an implication read off
\* a register holds of the executions that visit no undetermined PL.
Facts ==
  /\ CommonHolds(common, exec)
  /\ pc # "cover" =>
       \A r \in exec : Visited(r) \subseteq cover_individual \cup undetermined
  /\ \A r \in exec : always_reach \subseteq Visited(r)
  /\ \A r \in exec, pair \in exclusive : ~ (pair[1] \in Visited(r) /\ pair[2] \in Visited(r))
  /\ \A r \in exec, pair \in implication :
       (Visited(r) \cap undetermined = {} /\ pair[2] \in Visited(r)) => pair[1] \in Visited(r)

\* Before step 3 nothing is decided and no pair is known before step 2.
Fresh ==
  /\ pc \in {"cover", "always", "pairs"} =>
       /\ idx = 1 /\ res = {{}}
       /\ implication = {} /\ undetermined_impl = {}
       /\ exclusive = {} /\ undetermined_excl = {}
  /\ pc = "cover" => cover_individual = {} /\ undetermined = {}
  /\ pc \in {"cover", "always"} => always_reach = {}

\* The partial set of every set that plset_cnt keeps is among the partial sets.
Complete ==
  \A S \in SUBSET cover_individual :
    (~ pruned(S) /\ ~ pruned_based_undet_pairwise(S)) => S \cap 1 .. idx - 1 \in res

\* A partial set respects the proven relations among the PLs decided so far.
Respects(acc) ==
  /\ always_reach \cap 1 .. idx - 1 \subseteq acc
  /\ \A pair \in exclusive : ~ (pair[1] \in acc /\ pair[2] \in acc)
  /\ \A pair \in implication : (pair[2] \in acc /\ pair[1] < idx) => pair[1] \in acc

Consistent == pc \in {"comb", "done"} => \A acc \in res : Respects(acc)

Classified ==
  pc = "done" =>
    /\ idx > N
    /\ potential_subset = reachable_set \cup unreachable_set \cup undetermined_set
    /\ \A S \in unreachable_set : ~ Realised(S)

Inv == Types /\ Facts /\ Fresh /\ Complete /\ Consistent /\ Classified

\* Nothing is known before step 1.
LEMMA InitInv == Init => Inv
  <1> SUFFICES ASSUME Init PROVE Inv
    OBVIOUS
  <1>1. Types
    BY SizeAssumption DEF Init, Types, Pairs
  <1>2. Facts /\ Fresh /\ Consistent /\ Classified
    BY DEF Init, Facts, Fresh, Consistent, Classified
  <1>3. Complete
    <2>1. \A S : S \cap 1 .. 0 = {}
      OBVIOUS
    <2> QED  BY <2>1 DEF Init, Complete
  <1> QED  BY <1>1, <1>2, <1>3 DEF Inv

\* Step 1, first batch.
LEMMA CoverIndividualInv ==
  ASSUME Inv, CoverIndividual
  PROVE  Inv'
  <1>1. PICK U \in SUBSET PL :
          /\ pc = "cover" /\ pc' = "always"
          /\ cover_individual' = {p \in PL \ U : \E r \in exec : p \in Visited(r)}
          /\ undetermined' = U
          /\ UNCHANGED <<exec, common, always_reach, implication, undetermined_impl,
                         exclusive, undetermined_excl, idx, res>>
    BY DEF CoverIndividual, step2
  <1>2. /\ idx = 1 /\ res = {{}} /\ always_reach = {}
        /\ implication = {} /\ undetermined_impl = {}
        /\ exclusive = {} /\ undetermined_excl = {}
    BY <1>1 DEF Inv, Fresh
  <1>3. Types'
    BY <1>1, <1>2, SizeAssumption DEF Inv, Types, Pairs
  <1>4. Facts'
    <2>1. CommonHolds(common, exec)'
      BY <1>1 DEF Inv, Facts, CommonHolds, Visited
    <2>2. \A r \in exec : Visited(r) \subseteq cover_individual' \cup undetermined'
      BY <1>1 DEF Visited
    <2> QED  BY <1>1, <1>2, <2>1, <2>2 DEF Facts, Visited
  <1>5. Complete'
    <2>1. \A S : S \cap 1 .. 0 = {}
      OBVIOUS
    <2> QED  BY <1>1, <1>2, <2>1 DEF Complete
  <1>6. Fresh' /\ Consistent' /\ Classified'
    BY <1>1, <1>2 DEF Fresh, Consistent, Classified
  <1> QED  BY <1>3, <1>4, <1>5, <1>6 DEF Inv

\* Step 1, second batch.
LEMMA AlwaysReachInv ==
  ASSUME Inv, AlwaysReach
  PROVE  Inv'
  <1>1. PICK U \in SUBSET cover_individual :
          /\ pc = "always" /\ pc' = "pairs"
          /\ always_reach' = {p \in cover_individual \ U : \A r \in exec : p \in Visited(r)}
          /\ UNCHANGED <<exec, common, cover_individual, undetermined, implication,
                         undetermined_impl, exclusive, undetermined_excl, idx, res>>
    BY DEF AlwaysReach, step2
  <1>2. /\ idx = 1 /\ res = {{}}
        /\ implication = {} /\ undetermined_impl = {}
        /\ exclusive = {} /\ undetermined_excl = {}
    BY <1>1 DEF Inv, Fresh
  <1>3. Types'
    BY <1>1, <1>2, SizeAssumption DEF Inv, Types, Pairs
  <1>4. Facts'
    <2>1. CommonHolds(common, exec)'
      BY <1>1 DEF Inv, Facts, CommonHolds, Visited
    <2>2. \A r \in exec : Visited(r) \subseteq cover_individual \cup undetermined
      BY <1>1 DEF Inv, Facts
    <2> QED  BY <1>1, <1>2, <2>1, <2>2 DEF Facts, Visited
  <1>5. Complete'
    <2>1. \A S : S \cap 1 .. 0 = {}
      OBVIOUS
    <2> QED  BY <1>1, <1>2, <2>1 DEF Complete
  <1>6. Fresh' /\ Consistent' /\ Classified'
    BY <1>1, <1>2 DEF Fresh, Consistent, Classified
  <1> QED  BY <1>3, <1>4, <1>5, <1>6 DEF Inv

\* An implication taken from the xCommon files holds of an execution that visits no
\* undetermined PL: the covered PL of its register is the only one it can visit.
LEMMA CommonImplies ==
  ASSUME Inv, pc = "pairs", NEW r \in exec, NEW pair \in Pairs,
         imp_already(pair[1], pair[2]),
         Visited(r) \cap undetermined = {}, pair[2] \in Visited(r)
  PROVE  pair[1] \in Visited(r)
  <1>1. CASE <<pair[1], pair[2]>> \in common.implication_set_pls
    <2>1. \A q \in common.implication_set_pls : q[2] \in Visited(r) => q[1] \in Visited(r)
      BY DEF Inv, Facts, CommonHolds
    <2> QED  BY <1>1, <2>1
  <1>2. CASE dom(pair[1], pair[2])
    <2> DEFINE d == <<iid_map[pair[1]], iid_map[pair[2]]>>
    <2>1. d \in common.implication_set_iids /\ d[1] = iid_map[pair[1]] /\ d[2] = iid_map[pair[2]]
      BY <1>2 DEF dom
    <2>2. \E p \in Visited(r) : iid_map[p] = d[1]
      BY <2>1 DEF Inv, Facts, CommonHolds
    <2>3. PICK p \in Visited(r) : iid_map[p] = iid_map[pair[1]]
      BY <2>1, <2>2
    <2>4. p \in cover_individual
      BY <2>3 DEF Inv, Facts
    <2>5. p = pair[1]
      BY <1>2, <2>3, <2>4 DEF dom
    <2> QED  BY <2>3, <2>5
  <1> QED  BY <1>1, <1>2 DEF imp_already

\* An exclusion taken from the xCommon files holds of every execution.
LEMMA CommonExcludes ==
  ASSUME Inv, NEW r \in exec, NEW p \in Visited(r), NEW q \in Visited(r), exclusive_already(p, q)
  PROVE  FALSE
  <1>0. \A d \in common.exclusive_set_iids, x, y \in Visited(r) :
          ~ (iid_map[x] = d[1] /\ iid_map[y] = d[2])
    BY DEF Inv, Facts, CommonHolds
  <1>1. CASE <<iid_map[p], iid_map[q]>> \in common.exclusive_set_iids
    BY <1>0, <1>1
  <1>2. CASE <<iid_map[q], iid_map[p]>> \in common.exclusive_set_iids
    BY <1>0, <1>2
  <1> QED  BY <1>1, <1>2 DEF exclusive_already

\* Step 2: what it proves or takes over holds of the executions.
LEMMA PairwiseDepInv ==
  ASSUME Inv, PairwiseDep
  PROVE  Inv'
  <1>1. PICK U \in SUBSET ImpliesToProve, V \in SUBSET ExcludesToProve :
          /\ pc = "pairs" /\ pc' = "comb"
          /\ implication' =
               {pair \in ImpliesToProve \ U : \A r \in exec : ~ WithoutEarlier(r, pair[1], pair[2])}
               \cup {pair \in Pairs : imp_already(pair[1], pair[2])}
          /\ undetermined_impl' = U
          /\ exclusive' =
               {pair \in ExcludesToProve \ V :
                  \A r \in exec : ~ (pair[1] \in Visited(r) /\ pair[2] \in Visited(r))}
               \cup {pair \in Pairs : exclusive_already(pair[1], pair[2])}
          /\ undetermined_excl' = V
          /\ UNCHANGED <<exec, common, cover_individual, undetermined, always_reach, idx, res>>
    BY DEF PairwiseDep, step1
  <1>2. idx = 1 /\ res = {{}}
    BY <1>1 DEF Inv, Fresh
  <1>p. /\ ImpliesToProve \subseteq Pairs /\ ExcludesToProve \subseteq Pairs /\ Pairs' = Pairs
        /\ \A pair \in Pairs : pair[1] \in PL /\ pair[2] \in PL
    BY <1>1 DEF ImpliesToProve, ExcludesToProve, Pairs, perflocs, Inv, Types
  <1>3. Types'
    <2>1. implication' \subseteq Pairs /\ undetermined_impl' \subseteq Pairs
      BY <1>1, <1>p
    <2>2. exclusive' \subseteq Pairs /\ undetermined_excl' \subseteq Pairs
      BY <1>1, <1>p
    <2> QED  BY <1>1, <1>p, <2>1, <2>2 DEF Inv, Types
  <1>4. Facts'
    <2>1. CommonHolds(common, exec)'
      BY <1>1 DEF Inv, Facts, CommonHolds, Visited
    <2>2. ASSUME NEW r \in exec, NEW pair \in implication',
                 Visited(r) \cap undetermined = {}, pair[2] \in Visited(r)
          PROVE  pair[1] \in Visited(r)
      <3>1. CASE pair \in Pairs /\ imp_already(pair[1], pair[2])
        BY <1>1, <2>2, <3>1, CommonImplies
      <3>2. CASE pair \in ImpliesToProve /\ ~ WithoutEarlier(r, pair[1], pair[2])
        <4>1. r \in [PL -> Nat]
          BY DesignAssumption DEF Inv, Types, Execution
        <4> QED  BY <1>p, <2>2, <3>2, <4>1 DEF WithoutEarlier, Visited
      <3> QED  BY <1>1, <2>2, <3>1, <3>2
    <2>3. ASSUME NEW r \in exec, NEW pair \in exclusive',
                 pair[1] \in Visited(r), pair[2] \in Visited(r)
          PROVE  FALSE
      BY <1>1, <2>3, CommonExcludes
    <2>4. /\ \A r \in exec : Visited(r) \subseteq cover_individual \cup undetermined
          /\ \A r \in exec : always_reach \subseteq Visited(r)
      BY <1>1 DEF Inv, Facts
    <2> QED  BY <1>1, <2>1, <2>2, <2>3, <2>4 DEF Facts, Visited
  <1>5. Complete'
    <2>1. \A S : S \cap 1 .. 0 = {}
      OBVIOUS
    <2> QED  BY <1>1, <1>2, <2>1 DEF Complete
  <1>6. Consistent'
    <2>1. \A pair \in Pairs : pair[1] # 0 /\ pair[1] >= 1
      BY <1>p, SizeAssumption DEF PL
    <2> QED  BY <1>1, <1>2, <1>3, <2>1 DEF Consistent, Respects, Types
  <1>7. Fresh' /\ Classified'
    BY <1>1 DEF Fresh, Classified
  <1> QED  BY <1>3, <1>4, <1>5, <1>6, <1>7 DEF Inv

\* A set that plset_cnt keeps is extended the way it is decided.
LEMMA KeepsComplete ==
  ASSUME Inv, get_all_combination
  PROVE  Complete'
  <1> SUFFICES ASSUME NEW S \in SUBSET cover_individual,
                      ~ pruned(S), ~ pruned_based_undet_pairwise(S)
               PROVE  S \cap 1 .. idx \in Decided(idx)
    <2>1. /\ idx \in Nat /\ idx' = idx + 1 /\ res' = Decided(idx)
          /\ UNCHANGED <<cover_individual, always_reach, implication, undetermined_impl,
                         exclusive, undetermined_excl>>
      BY SizeAssumption DEF Inv, Types, get_all_combination, step1, step2
    <2>2. idx' - 1 = idx
      BY <2>1
    <2> QED  BY <2>1, <2>2 DEF Complete, pruned, pruned_based_undet_pairwise, Breaks
  <1> DEFINE acc == S \cap 1 .. idx - 1
  <1>1. idx \in 1 .. N /\ N \in Nat /\ acc \in res /\ S \subseteq 1 .. N
    BY SizeAssumption DEF Inv, Types, Complete, get_all_combination, PL
  <1>2. /\ always_reach \subseteq S
        /\ \A pair \in exclusive \cup undetermined_excl : ~ (pair[1] \in S /\ pair[2] \in S)
        /\ \A pair \in implication \cup undetermined_impl : pair[2] \in S => pair[1] \in S
    BY DEF pruned, pruned_based_undet_pairwise, Breaks
  <1>3. \A x \in S : x < idx => x \in acc
    BY <1>1
  <1>4. CASE idx \in S
    <2>1. S \cap 1 .. idx = acc \cup {idx}
      BY <1>1, <1>4
    <2>2. acc \subseteq S
      OBVIOUS
    <2> HIDE DEF acc
    <2>3. ~ Clashes(exclusive, acc, idx) /\ ~ Clashes(undetermined_excl, acc, idx)
      BY <1>2, <1>4, <2>2 DEF Clashes
    <2>4. ~ \E pair \in implication : pair[2] = idx /\ pair[1] \notin acc /\ pair[1] < idx
      BY <1>2, <1>3, <1>4
    <2> QED  BY <1>1, <1>4, <2>1, <2>3, <2>4 DEF Decided, MayInclude
  <1>5. CASE idx \notin S
    <2>1. S \cap 1 .. idx = acc
      BY <1>1, <1>5
    <2>2. acc \subseteq S
      OBVIOUS
    <2> HIDE DEF acc
    <2>3. MayExclude(acc, idx)
      BY <1>2, <1>5, <2>2 DEF MayExclude
    <2> QED  BY <1>1, <2>1, <2>3 DEF Decided
  <1> QED  BY <1>4, <1>5

\* What a partial set becomes: it gains idx or stays as it is.
LEMMA DecidedFrom ==
  ASSUME Inv, idx <= N, NEW b \in Decided(idx)
  PROVE  \/ \E a \in res : b = a \cup {idx} /\ MayInclude(a, idx) /\ idx \in cover_individual
         \/ b \in res /\ (idx \in cover_individual => MayExclude(b, idx))
  BY DEF Decided

\* GenComb keeps its partial sets consistent with the proven relations.
LEMMA KeepsConsistent ==
  ASSUME Inv, get_all_combination
  PROVE  Consistent'
  <1>1. /\ idx \in 1 .. N /\ N \in Nat /\ idx' = idx + 1 /\ res' = Decided(idx) /\ pc = "comb"
        /\ UNCHANGED <<cover_individual, always_reach, implication, exclusive>>
    BY SizeAssumption DEF Inv, Types, get_all_combination, step1, step2
  <1>2. /\ \A a \in res : Respects(a) /\ a \subseteq 1 .. idx - 1
        /\ always_reach \subseteq cover_individual
        /\ \A pair \in implication : pair[1] \in 1 .. N /\ pair[1] \in cover_individual
                                        /\ pair[1] # pair[2]
        /\ \A pair \in exclusive : pair[1] # pair[2]
    BY <1>1 DEF Inv, Types, Consistent, Pairs, perflocs, PL
  <1> SUFFICES ASSUME NEW b \in Decided(idx)
               PROVE  /\ always_reach \cap 1 .. idx \subseteq b
                      /\ \A pair \in exclusive : ~ (pair[1] \in b /\ pair[2] \in b)
                      /\ \A pair \in implication :
                           (pair[2] \in b /\ pair[1] < idx + 1) => pair[1] \in b
    <2>1. idx' - 1 = idx
      BY <1>1
    <2> QED  BY <1>1, <2>1 DEF Consistent, Respects
  <1>3. CASE \E a \in res : b = a \cup {idx} /\ MayInclude(a, idx)
    <2>1. PICK a \in res : b = a \cup {idx} /\ MayInclude(a, idx)
      BY <1>3
    <2>2. /\ always_reach \cap 1 .. idx - 1 \subseteq a
          /\ \A pair \in exclusive : ~ (pair[1] \in a /\ pair[2] \in a)
          /\ \A pair \in implication : (pair[2] \in a /\ pair[1] < idx) => pair[1] \in a
      BY <1>2, <2>1 DEF Respects
    <2>3. always_reach \cap 1 .. idx \subseteq b
      BY <1>1, <2>1, <2>2
    <2>4. \A pair \in exclusive : ~ (pair[1] \in b /\ pair[2] \in b)
      BY <1>2, <2>1, <2>2 DEF MayInclude, Clashes
    <2>5. ASSUME NEW pair \in implication, pair[2] \in b, pair[1] < idx + 1
          PROVE  pair[1] \in b
      <3>1. pair[1] \in Nat /\ (pair[1] < idx \/ pair[1] = idx)
        BY <1>1, <1>2, <2>5
      <3> QED  BY <1>2, <2>1, <2>2, <2>5, <3>1 DEF MayInclude
    <2> QED  BY <2>3, <2>4, <2>5
  <1>4. CASE b \in res /\ (idx \in cover_individual => MayExclude(b, idx))
    <2>2. /\ always_reach \cap 1 .. idx - 1 \subseteq b
          /\ \A pair \in exclusive : ~ (pair[1] \in b /\ pair[2] \in b)
          /\ \A pair \in implication : (pair[2] \in b /\ pair[1] < idx) => pair[1] \in b
      BY <1>2, <1>4 DEF Respects
    <2>3. idx \notin always_reach
      BY <1>2, <1>4 DEF MayExclude
    <2>4. always_reach \cap 1 .. idx \subseteq b
      BY <1>1, <2>2, <2>3
    <2>5. ASSUME NEW pair \in implication, pair[2] \in b, pair[1] < idx + 1
          PROVE  pair[1] \in b
      <3>1. pair[1] \in Nat /\ (pair[1] < idx \/ pair[1] = idx)
        BY <1>1, <1>2, <2>5
      <3>2. pair[1] # idx
        BY <1>2, <1>4, <2>5 DEF MayExclude
      <3> QED  BY <2>2, <2>5, <3>1, <3>2
    <2> QED  BY <2>2, <2>4, <2>5
  <1> QED  BY <1>1, <1>3, <1>4, DecidedFrom

\* One round of GenComb.
LEMMA CombinationInv ==
  ASSUME Inv, get_all_combination
  PROVE  Inv'
  <1>1. /\ idx \in 1 .. N /\ N \in Nat /\ idx' = idx + 1 /\ res' = Decided(idx) /\ pc = "comb"
        /\ UNCHANGED <<exec, common, pc, cover_individual, undetermined, always_reach,
                       implication, undetermined_impl, exclusive, undetermined_excl>>
    BY SizeAssumption DEF Inv, Types, get_all_combination, step1, step2
  <1>2. Types'
    <2>1. ASSUME NEW b \in Decided(idx)
          PROVE  b \subseteq cover_individual \cap 1 .. idx
      <3>1. \A a \in res : a \subseteq cover_individual /\ a \subseteq 1 .. idx - 1
        BY DEF Inv, Types
      <3>2. 1 .. idx - 1 \subseteq 1 .. idx /\ idx \in 1 .. idx
        BY <1>1
      <3> QED  BY <1>1, <3>1, <3>2, DecidedFrom
    <2>2. idx' - 1 = idx /\ idx' \in 1 .. N + 1
      BY <1>1
    <2>3. Pairs' = Pairs
      BY <1>1, SMTT(30) DEF Pairs, perflocs
    <2> QED  BY <1>1, <2>1, <2>2, <2>3 DEF Inv, Types
  <1>3. Facts'
    BY <1>1 DEF Inv, Facts, CommonHolds, Visited
  <1>4. Fresh' /\ Classified'
    BY <1>1 DEF Fresh, Classified
  <1> QED  BY <1>2, <1>3, <1>4, KeepsComplete, KeepsConsistent DEF Inv

\* The verdicts on the candidates.
LEMMA CoverSetsInv ==
  ASSUME Inv, CoverSets
  PROVE  Inv'
  <1>1. PICK U \in SUBSET potential_subset :
          /\ pc = "comb" /\ pc' = "done" /\ idx > N
          /\ reachable_set' = {S \in potential_subset \ U : Realised(S)}
          /\ unreachable_set' = {S \in potential_subset \ U : ~ Realised(S)}
          /\ undetermined_set' = U
          /\ UNCHANGED <<exec, common, cover_individual, undetermined, always_reach, implication,
                         undetermined_impl, exclusive, undetermined_excl, idx, res>>
    BY DEF CoverSets, step1, step2
  <1>2. potential_subset' = potential_subset /\ Pairs' = Pairs
    BY <1>1 DEF potential_subset, Pairs, perflocs
  <1>3. Classified'
    <2>1. potential_subset = reachable_set' \cup unreachable_set' \cup undetermined_set'
      BY <1>1
    <2>2. \A S \in unreachable_set' : ~ Realised(S)'
      BY <1>1 DEF Realised, Visited
    <2> QED  BY <1>1, <1>2, <2>1, <2>2 DEF Classified
  <1>4. Types'
    BY <1>1, <1>2, SMTT(30) DEF Inv, Types
  <1>5. Facts'
    BY <1>1 DEF Inv, Facts, CommonHolds, Visited
  <1>6. Complete' /\ Consistent' /\ Fresh'
    BY <1>1 DEF Inv, Complete, Consistent, Fresh, Respects, pruned,
                pruned_based_undet_pairwise, Breaks
  <1> QED  BY <1>3, <1>4, <1>5, <1>6 DEF Inv

\* Every step keeps the invariant.
LEMMA NextInv == Inv /\ [Next]_vars => Inv'
  <1> SUFFICES ASSUME Inv, [Next]_vars PROVE Inv'
    OBVIOUS
  <1>1. CASE CoverIndividual
    BY <1>1, CoverIndividualInv
  <1>2. CASE AlwaysReach
    BY <1>2, AlwaysReachInv
  <1>3. CASE PairwiseDep
    BY <1>3, PairwiseDepInv
  <1>4. CASE get_all_combination
    BY <1>4, CombinationInv
  <1>5. CASE CoverSets
    BY <1>5, CoverSetsInv
  <1>6. CASE UNCHANGED vars
    <2>1. UNCHANGED <<exec, common, pc, cover_individual, undetermined, always_reach, implication,
                      undetermined_impl, exclusive, undetermined_excl, idx, res,
                      reachable_set, unreachable_set, undetermined_set>>
      BY <1>6 DEF vars, step1, step2, step3
    <2> USE <2>1 DEF Inv
    <2>2. Types'
      BY SMTT(30) DEF Types, Pairs, perflocs
    <2>3. Facts'
      BY DEF Facts, CommonHolds, Visited
    <2>4. Fresh' /\ Complete' /\ Consistent'
      BY DEF Fresh, Complete, Consistent, Respects, pruned, pruned_based_undet_pairwise, Breaks
    <2>5. Classified'
      BY DEF Classified, potential_subset, Realised, Visited
    <2> QED  BY <2>2, <2>3, <2>4, <2>5
  <1> QED  BY <1>1, <1>2, <1>3, <1>4, <1>5, <1>6 DEF Next, Stop

\* The inductive invariant of steps 1 to 3: the facts in the files hold of the design,
\* and the partial sets of GenComb cover every execution and break no proven relation.
THEOREM Invariance == Spec => []Inv
  BY InitInv, NextInv, PTL DEF Spec

\* GenComb proposes no set that a relation proven in steps 1 and 2 rules out.
THEOREM CandidatesConsistentHolds == Spec => []CandidatesConsistent
  <1>1. Inv => CandidatesConsistent
    <2> SUFFICES ASSUME Inv, idx > N, NEW S \in res PROVE ~ pruned(S)
      BY DEF CandidatesConsistent
    <2>0. implication \subseteq Pairs /\ \A pair \in Pairs : pair[1] \in cover_individual
      BY DEF Inv, Types, Pairs, perflocs
    <2>i. N \in Nat /\ idx = N + 1
      BY SizeAssumption DEF Inv, Types
    <2>a. cover_individual \subseteq 1 .. N /\ always_reach \subseteq cover_individual
      BY DEF Inv, Types, PL
    <2>1. /\ N \in Nat /\ idx = N + 1 /\ always_reach \subseteq 1 .. N
          /\ \A pair \in implication : pair[1] \in 1 .. N
      BY <2>0, <2>i, <2>a
    <2>2. pc \in {"comb", "done"} \/ (S = {} /\ N = 0)
      BY <2>1 DEF Inv, Types, Fresh
    <2>3. CASE pc \in {"comb", "done"}
      <3>1. Respects(S)
        BY <2>3 DEF Inv, Consistent
      <3>2. always_reach \subseteq S
        BY <2>1, <3>1 DEF Respects
      <3>3. \A pair \in implication : pair[1] < idx
        BY <2>1
      <3> QED  BY <3>1, <3>2, <3>3 DEF Respects, pruned, Breaks
    <2>4. CASE S = {} /\ N = 0
      <3>1. always_reach = {}
        BY <2>1, <2>4
      <3> QED  BY <2>4, <3>1 DEF pruned, Breaks
    <2> QED  BY <2>2, <2>3, <2>4
  <1> QED  BY <1>1, Invariance, PTL

\* Every set that plset_cnt keeps has a verdict: its assert(0) is unreachable.
THEOREM EveryCandidateClassifiedHolds == Spec => []EveryCandidateClassified
  <1>1. Inv => EveryCandidateClassified
    <2> SUFFICES ASSUME Inv, pc = "done", NEW S \in (SUBSET cover_individual) \ {{}},
                        ~ pruned(S), ~ pruned_based_undet_pairwise(S)
                 PROVE  S \in reachable_set \cup unreachable_set \cup undetermined_set
      BY DEF EveryCandidateClassified
    <2>1. N \in Nat /\ idx - 1 = N /\ S \subseteq 1 .. N
      BY SizeAssumption DEF Inv, Types, Classified, PL
    <2>2. S \cap 1 .. idx - 1 = S
      BY <2>1
    <2> QED  BY <2>2 DEF Inv, Complete, Classified, potential_subset
  <1> QED  BY <1>1, Invariance, PTL

\* The PL set of every execution of the design is reported reachable or undetermined,
\* unless an undetermined PL or pair in the logs accounts for its absence.
THEOREM NothingLostHolds == Spec => []NothingLost
  <1>1. Inv => NothingLost
    <2> SUFFICES ASSUME Inv, pc = "done", NEW r \in exec,
                        Visited(r) \cap undetermined = {},
                        ~ pruned_based_undet_pairwise(Visited(r))
                 PROVE  Visited(r) \in reachable_set \cup undetermined_set
      BY DEF NothingLost
    <2>1. Visited(r) \subseteq cover_individual /\ Visited(r) # {}
      BY DesignAssumption DEF Inv, Types, Facts, Visited
    <2>2. ~ pruned(Visited(r))
      BY DEF Inv, Facts, pruned, Breaks
    <2>3. Visited(r) \in reachable_set \cup unreachable_set \cup undetermined_set
      <3>1. N \in Nat /\ idx - 1 = N /\ Visited(r) \subseteq 1 .. N
        BY SizeAssumption DEF Inv, Types, Classified, PL, Visited
      <3>2. Visited(r) \cap 1 .. idx - 1 = Visited(r)
        BY <3>1
      <3> QED  BY <2>1, <2>2, <3>2 DEF Inv, Complete, Classified, potential_subset
    <2>4. Realised(Visited(r))
      BY <2>1 DEF Realised
    <2> QED  BY <2>3, <2>4 DEF Inv, Classified
  <1> QED  BY <1>1, Invariance, PTL

-----------------------------------------------------------------------------
(***************************************************************************)
(* CycleSearch, for every set of stays of the design and every limit that  *)
(* LimitsAssumption admits.                                                *)
(***************************************************************************)

\* The part of the state the argument is about.
SearchType ==
  /\ stays \in Stays
  /\ min \in 0 .. MAX + 1 /\ max \in -1 .. MAX /\ cnt \in Nat
  /\ covered \subseteq 0 .. MAX
  /\ unreachable \subseteq 0 .. MAX
  /\ undetermined_cyc \subseteq 0 .. MAX
  /\ stage \in {"search", "report", "enumerate", "done", "aborted"}

\* Everything below min up to the last covered probe can be covered, everything
\* above max was given up, and the two ends meet when the search ends.
Bracket ==
  /\ min <= max + 1
  /\ min > 0 => min - 1 \in covered
  /\ max < MAX => max + 1 \in unreachable \cup undetermined_cyc
  /\ \A k \in covered : k < min
  /\ \A k \in unreachable : k > max /\ ~ Coverable(k)
  /\ \A k \in undetermined_cyc : k > max
  /\ stage # "search" => min = max + 1

\* The interval halves in every round, so it is empty after eight.
Within(c, d) ==
  \/ c = 0 /\ d < 128
  \/ c = 1 /\ d < 64
  \/ c = 2 /\ d < 32
  \/ c = 3 /\ d < 16
  \/ c = 4 /\ d < 8
  \/ c = 5 /\ d < 4
  \/ c = 6 /\ d < 2
  \/ c = 7 /\ d < 1
  \/ c = 8 /\ d < 0

Halving == stage = "search" => Within(cnt, max - min)

\* What Report keeps is the lower end of the closed interval.
Kept == Reported => min > 0 /\ max_cyc_covered = min - 1

SearchInv == SearchType /\ Bracket /\ Halving /\ Kept

\* The midpoint of a non-empty interval lies in it, and of an empty one just below.
LEMMA Midpoint ==
  ASSUME NEW lo \in Nat, NEW hi \in Int, lo <= hi + 1
  PROVE  /\ pivotValue(lo, hi) \in Int
         /\ lo <= hi => lo <= pivotValue(lo, hi) /\ pivotValue(lo, hi) <= hi
         /\ lo = hi + 1 => pivotValue(lo, hi) = hi
         /\ 2 * pivotValue(lo, hi) <= lo + hi
         /\ lo + hi <= 2 * pivotValue(lo, hi) + 1
  BY DEF pivotValue

\* A probe at least halves the interval that the remaining rounds must close.
LEMMA WithinHalf ==
  ASSUME NEW c \in Nat, NEW d \in Int, NEW e \in Int, Within(c, d), d >= 0, 2 * e < d
  PROVE  Within(c + 1, e)
  BY DEF Within

\* The interval 0..MAX at the start of template.tcl.
LEMMA InitSearchInv == SearchInit => SearchInv
  <1> SUFFICES ASSUME SearchInit PROVE SearchInv
    OBVIOUS
  <1>1. SearchType /\ Bracket
    BY LimitsAssumption DEF SearchInit, SearchType, Bracket
  <1>2. Halving
    BY LimitsAssumption DEF SearchInit, Halving, Within
  <1>3. Kept
    BY DEF SearchInit, Kept, Reported
  <1> QED  BY <1>1, <1>2, <1>3 DEF SearchInv

\* The only way a search ends: its interval is empty.
LEMMA EndsEmpty ==
  ASSUME SearchInv, EndSearch
  PROVE  min = max + 1
  <1>1. /\ min \in Nat /\ max \in Int /\ cnt \in Nat /\ min <= max + 1 /\ max <= MAX
        /\ stage = "search"
    BY LimitsAssumption DEF SearchInv, SearchType, Bracket, EndSearch
  <1>2. cnt # CNT
    BY <1>1, LimitsAssumption DEF SearchInv, Halving, Within
  <1>3. CoverFails(pivotValue(min, max))
    BY <1>2 DEF EndSearch
  <1>4. SUFFICES ASSUME min <= max PROVE FALSE
    BY <1>1
  <1>5. /\ pivotValue(min, max) \in Int
        /\ min <= pivotValue(min, max) /\ pivotValue(min, max) <= max
    BY <1>1, <1>4, Midpoint
  <1>6. pivotValue(min, max) \in Probed
    BY <1>1, <1>3, <1>5 DEF CoverFails
  <1> QED  BY <1>1, <1>5, <1>6 DEF SearchInv, SearchType, Bracket, Probed

\* A probe lies in a non-empty interval.
LEMMA ProbesInside ==
  ASSUME SearchInv, Probe
  PROVE  /\ pivotValue(min, max) \in Int
         /\ min <= pivotValue(min, max) /\ pivotValue(min, max) <= max
  <1>1. /\ min \in Nat /\ max \in Int /\ min <= max + 1
        /\ ~ CoverFails(pivotValue(min, max))
    BY LimitsAssumption DEF SearchInv, SearchType, Bracket, Probe
  <1>2. CASE min <= max
    BY <1>1, <1>2, Midpoint
  <1>3. CASE min = max + 1
    <2>1. pivotValue(min, max) = max
      BY <1>1, <1>3, Midpoint
    <2>2. max < 0 \/ max \in covered
      BY <1>1, <1>3 DEF SearchInv, Bracket
    <2> QED  BY <1>1, <2>1, <2>2 DEF CoverFails, Probed
  <1> QED  BY <1>1, <1>2, <1>3

\* A round of the loop keeps the invariant, whatever the verdict.
LEMMA ProbeInv ==
  ASSUME SearchInv, Probe
  PROVE  SearchInv'
  <1> DEFINE k == pivotValue(min, max)
  <1>k. /\ k \in Int /\ min <= k /\ k <= max
        /\ 2 * k <= min + max /\ min + max <= 2 * k + 1
    <2>1. min \in Nat /\ max \in Int /\ min <= max + 1
      BY LimitsAssumption DEF SearchInv, SearchType, Bracket
    <2> QED  BY <2>1, ProbesInside, Midpoint
  <1>t. /\ MAX \in Nat /\ min \in 0 .. MAX + 1 /\ max \in -1 .. MAX /\ cnt \in Nat
        /\ stage = "search" /\ stage' = stage /\ stays' = stays /\ cnt' = cnt + 1
    BY LimitsAssumption DEF SearchInv, SearchType, Probe
  <1>s. \A j : Coverable(j)' <=> Coverable(j)
    BY <1>t DEF Coverable
  <1>c. \/ /\ Coverable(k)
           /\ covered' = covered \cup {k} /\ min' = k + 1
           /\ max' = max /\ unreachable' = unreachable /\ undetermined_cyc' = undetermined_cyc
        \/ /\ ~ Coverable(k)
           /\ unreachable' = unreachable \cup {k} /\ max' = k - 1
           /\ min' = min /\ covered' = covered /\ undetermined_cyc' = undetermined_cyc
        \/ /\ undetermined_cyc' = undetermined_cyc \cup {k} /\ max' = k - 1
           /\ min' = min /\ covered' = covered /\ unreachable' = unreachable
    BY DEF Probe, above, below
  <1> HIDE DEF k
  <1>b. /\ covered \subseteq 0 .. MAX /\ unreachable \subseteq 0 .. MAX
        /\ undetermined_cyc \subseteq 0 .. MAX /\ k \in 0 .. MAX
    BY <1>k, <1>t DEF SearchInv, SearchType
  <1>1. SearchType'
    <2>1. /\ covered' \subseteq 0 .. MAX /\ unreachable' \subseteq 0 .. MAX
          /\ undetermined_cyc' \subseteq 0 .. MAX
      BY <1>b, <1>c
    <2>2. min' \in 0 .. MAX + 1 /\ max' \in -1 .. MAX /\ cnt' \in Nat
      BY <1>k, <1>t, <1>c
    <2>3. stays' \in Stays /\ stage' = "search"
      BY <1>t DEF SearchInv, SearchType
    <2> QED  BY <2>1, <2>2, <2>3 DEF SearchType
  <1>2. Bracket'
    <2>1. CASE covered' = covered \cup {k} /\ min' = k + 1 /\ max' = max
               /\ unreachable' = unreachable /\ undetermined_cyc' = undetermined_cyc
      BY <1>k, <1>t, <1>s, <1>b, <2>1 DEF SearchInv, Bracket
    <2>2. CASE ~ Coverable(k) /\ unreachable' = unreachable \cup {k} /\ max' = k - 1
               /\ min' = min /\ covered' = covered /\ undetermined_cyc' = undetermined_cyc
      BY <1>k, <1>t, <1>s, <1>b, <2>2 DEF SearchInv, Bracket
    <2>3. CASE undetermined_cyc' = undetermined_cyc \cup {k} /\ max' = k - 1
               /\ min' = min /\ covered' = covered /\ unreachable' = unreachable
      BY <1>k, <1>t, <1>s, <1>b, <2>3 DEF SearchInv, Bracket
    <2> QED  BY <1>c, <2>1, <2>2, <2>3
  <1>3. Halving'
    <2>1. min' \in Int /\ max' \in Int /\ 2 * (max' - min') < max - min
      BY <1>k, <1>t, <1>c
    <2>2. min \in Int /\ max \in Int /\ max - min >= 0 /\ Within(cnt, max - min)
      BY <1>k, <1>t DEF SearchInv, Halving
    <2>3. max - min \in Int /\ max' - min' \in Int
      BY <2>1, <2>2
    <2> QED  BY <1>t, <2>1, <2>2, <2>3, WithinHalf DEF Halving
  <1>4. Kept'
    BY <1>t DEF Kept, Reported
  <1> QED  BY <1>1, <1>2, <1>3, <1>4 DEF SearchInv

\* The longest covered length is the last covered probe.
LEMMA LongestCovered ==
  ASSUME SearchInv, covered # {}
  PROVE  min > 0 /\ Max(covered) = min - 1
  <1>1. /\ min \in Nat /\ covered \subseteq Nat
        /\ min > 0 => min - 1 \in covered
        /\ \A j \in covered : j < min
    BY LimitsAssumption DEF SearchInv, SearchType, Bracket
  <1>2. min > 0
    <2>1. PICK j \in covered : TRUE
      OBVIOUS
    <2>2. j \in Nat /\ j < min
      BY <1>1, <2>1
    <2> QED  BY <1>1, <2>2
  <1>3. min - 1 \in covered /\ \A y \in covered : min - 1 >= y
    BY <1>1, <1>2
  <1>4. Max(covered) \in covered /\ \A y \in covered : Max(covered) >= y
    BY <1>3 DEF Max
  <1>5. Max(covered) \in Nat /\ Max(covered) < min /\ Max(covered) >= min - 1
    BY <1>1, <1>3, <1>4
  <1> QED  BY <1>1, <1>2, <1>5

\* Every step keeps the invariant.
LEMMA NextSearchInv == SearchInv /\ [SearchNext]_searchVars => SearchInv'
  <1> SUFFICES ASSUME SearchInv, [SearchNext]_searchVars PROVE SearchInv'
    OBVIOUS
  <1> USE DEF search, report, answer
  <1>1. CASE Probe
    BY <1>1, ProbeInv
  <1>2. CASE EndSearch
    <2>1. min = max + 1
      BY <1>2, EndsEmpty
    <2> QED  BY <1>2, <2>1 DEF SearchInv, SearchType, Bracket, Halving, Kept, Reported, EndSearch, Coverable
  <1>3. CASE Abort
    BY <1>3 DEF SearchInv, SearchType, Bracket, Halving, Kept, Reported, Abort, Coverable
  <1>4. CASE Report
    <2>1. min > 0 /\ Max(covered) = min - 1
      BY <1>4, LongestCovered DEF Report
    <2>2. /\ max_cyc_covered' = min - 1 /\ stage' \in {"enumerate", "done"} /\ stage = "report"
          /\ UNCHANGED <<stays, min, max, cnt, covered, unreachable, undetermined_cyc>>
      BY <1>4, <2>1 DEF Report
    <2> QED  BY <2>1, <2>2 DEF SearchInv, SearchType, Bracket, Halving, Kept, Reported, Coverable
  <1>5. CASE Enumerate
    BY <1>5 DEF SearchInv, SearchType, Bracket, Halving, Kept, Reported, Enumerate, Coverable
  <1>6. CASE EndOfLoop
    BY <1>6 DEF SearchInv, SearchType, Bracket, Halving, Kept, Reported, EndOfLoop, Coverable
  <1>7. CASE UNCHANGED searchVars
    BY <1>7 DEF searchVars, SearchInv, SearchType, Bracket, Halving, Kept, Reported, Coverable
  <1> QED  BY <1>1, <1>2, <1>3, <1>4, <1>5, <1>6, <1>7 DEF SearchNext, Finished

\* The inductive invariant of the search in template.tcl and of proc behind it: every
\* length the design can do is at most max, or was undetermined; the covered lengths
\* are those below min; and the interval halves with every round.
THEOREM SearchInvariance == SearchSpec => []SearchInv
  BY InitSearchInv, NextSearchInv, PTL DEF SearchSpec

\* The ten-round limit of template.tcl never cuts the search short.
THEOREM BudgetSufficesHolds == SearchSpec => []BudgetSuffices
  <1>1. SearchInv => BudgetSuffices
    BY LimitsAssumption DEF SearchInv, SearchType, Halving, Within, BudgetSuffices
  <1> QED  BY <1>1, SearchInvariance, PTL

\* A longest stay that the search misses is one it was not told about: an
\* undetermined probe that the design can cover lies above the reported length.
THEOREM ShortfallIsVisibleHolds == SearchSpec => []ShortfallIsVisible
  <1>1. SearchInv => ShortfallIsVisible
    <2> SUFFICES ASSUME SearchInv, Reported,
                        NEW k \in 0 .. MAX, Coverable(k), k > max_cyc_covered
                 PROVE  \E u \in undetermined_cyc : max_cyc_covered < u /\ Coverable(u)
      BY DEF ShortfallIsVisible
    <2>1. /\ MAX \in Nat /\ min \in Nat /\ max \in Int /\ min = max + 1 /\ min > 0
          /\ max_cyc_covered = max
          /\ max < MAX => max + 1 \in unreachable \cup undetermined_cyc
      BY LimitsAssumption DEF SearchInv, SearchType, Bracket, Kept, Reported
    <2>2. max + 1 <= k /\ max + 1 \in unreachable \cup undetermined_cyc
      BY <2>1
    <2>3. Coverable(max + 1)
      <3>1. stays \subseteq Nat
        BY StaysAssumption DEF SearchInv, SearchType
      <3>2. PICK s \in stays : k <= s
        BY <2>1 DEF Coverable
      <3>3. s \in Nat /\ max + 1 <= s
        BY <2>1, <2>2, <3>1, <3>2
      <3> QED  BY <3>3 DEF Coverable
    <2> QED  BY <2>1, <2>2, <2>3 DEF SearchInv, Bracket
  <1> QED  BY <1>1, SearchInvariance, PTL

-----------------------------------------------------------------------------
(***************************************************************************)
(* The estimate that proc writes.  No length has two verdicts, because the *)
(* script never asks for one twice, and the lengths not refuted have a     *)
(* greatest one.                                                           *)
(***************************************************************************)
HasMax(S) == S # {} => \E m \in S : \A y \in S : m >= y

Verdicts ==
  /\ unreachable \cap Unrefuted = {}
  /\ HasMax(Unrefuted)
  /\ EstimateUnrefuted

LEMMA MaxAdd ==
  ASSUME NEW S \in SUBSET Nat, HasMax(S), NEW k \in Nat
  PROVE  HasMax(S \cup {k})
  <1>1. CASE S = {}
    BY <1>1 DEF HasMax
  <1>2. CASE S # {}
    <2>1. PICK m \in S : \A y \in S : m >= y
      BY <1>2 DEF HasMax
    <2>2. CASE k >= m
      <3>1. \A y \in S \cup {k} : k >= y
        BY <2>1, <2>2
      <3> QED BY <3>1 DEF HasMax
    <2>3. CASE ~ (k >= m)
      <3>1. \A y \in S \cup {k} : m >= y
        BY <2>1, <2>3
      <3> QED BY <2>1, <3>1 DEF HasMax
    <2> QED BY <2>2, <2>3
  <1> QED BY <1>1, <1>2

\* What proc returns at the end of a search with a covered length.
LEMMA MaxCycleUnrefuted ==
  ASSUME SearchInv, Verdicts, stage = "report", covered # {}
  PROVE  /\ MaxCycle >= Max(covered) /\ MaxCycle \in Unrefuted
         /\ \A u \in unreachable : MaxCycle < u
  <1> DEFINE top == Max(Unrefuted)
             proven == {k \in covered : \A u \in RefutedBelow : k < u}
  <1>1. /\ min \in Nat /\ max \in Int /\ min = max + 1
        /\ covered \subseteq Nat /\ undetermined_cyc \subseteq Nat /\ unreachable \subseteq Nat
        /\ \A k \in covered : k < min
        /\ \A k \in unreachable : k > max
    BY LimitsAssumption DEF SearchInv, SearchType, Bracket
  <1>2. min > 0 /\ Max(covered) = min - 1 /\ min - 1 \in covered
    BY <1>1, LongestCovered DEF SearchInv, Bracket
  <1>3. top \in Unrefuted /\ \A y \in Unrefuted : top >= y
    <2>1. \E m \in Unrefuted : \A y \in Unrefuted : m >= y
      BY DEF Verdicts, HasMax, Unrefuted
    <2> QED BY <2>1 DEF Max
  <1> HIDE DEF top
  <1>4. CASE RefutedBelow = {}
    <2>1. MaxCycle = top
      BY <1>4 DEF MaxCycle, top
    <2>2. \A u \in unreachable : top < u
      <3> SUFFICES ASSUME NEW u \in unreachable PROVE top < u
        OBVIOUS
      <3>1. u \in Nat /\ top \in Nat /\ u # top
        BY <1>1, <1>3 DEF Verdicts, Unrefuted
      <3>2. ~ (u < top)
        BY <1>4 DEF RefutedBelow, top
      <3> QED BY <3>1, <3>2
    <2>3. top >= Max(covered)
      BY <1>2, <1>3 DEF Unrefuted
    <2> QED BY <1>3, <2>1, <2>2, <2>3
  <1>5. CASE RefutedBelow # {}
    <2>1. proven = covered
      <3>1. \A k \in covered, u \in unreachable : k < u
        <4> SUFFICES ASSUME NEW k \in covered, NEW u \in unreachable PROVE k < u
          OBVIOUS
        <4> QED BY <1>1
      <3>2. RefutedBelow \subseteq unreachable
        BY DEF RefutedBelow
      <3> QED BY <3>1, <3>2
    <2>2. MaxCycle = Max(covered)
      BY <1>5, <2>1 DEF MaxCycle
    <2>3. /\ Max(covered) \in Int /\ Max(covered) \in Unrefuted
          /\ \A u \in unreachable : Max(covered) < u
      BY <1>1, <1>2 DEF Unrefuted
    <2> QED BY <2>2, <2>3
  <1> QED BY <1>4, <1>5

LEMMA NextVerdicts == SearchInv /\ Verdicts /\ [SearchNext]_searchVars => Verdicts'
  <1> SUFFICES ASSUME SearchInv, Verdicts, [SearchNext]_searchVars PROVE Verdicts'
    OBVIOUS
  <1> USE DEF search, report, answer
  <1>1. CASE Probe
    <2> DEFINE k == pivotValue(min, max)
    <2>1. k \in Nat
      BY <1>1, ProbesInside, LimitsAssumption DEF SearchInv, SearchType
    <2>2. /\ k \notin unreachable /\ k \notin Unrefuted /\ ~ Reported'
          /\ \/ Unrefuted' = Unrefuted \cup {k} /\ unreachable' = unreachable
             \/ Unrefuted' = Unrefuted /\ unreachable' = unreachable \cup {k}
      BY <1>1 DEF Probe, CoverFails, Probed, Unrefuted, Reported
    <2> HIDE DEF k
    <2>3. Unrefuted \in SUBSET Nat
      BY LimitsAssumption DEF SearchInv, SearchType, Unrefuted
    <2>4. HasMax(Unrefuted')
      BY <2>1, <2>2, <2>3, MaxAdd DEF Verdicts
    <2>5. unreachable' \cap Unrefuted' = {}
      BY <2>2 DEF Verdicts
    <2>6. EstimateUnrefuted'
      BY <2>2 DEF EstimateUnrefuted
    <2> QED BY <2>4, <2>5, <2>6 DEF Verdicts, HasMax
  <1>2. CASE EndSearch \/ Abort
    BY <1>2 DEF EndSearch, Abort, Verdicts, HasMax, EstimateUnrefuted, Reported, Unrefuted
  <1>3. CASE Report
    <2>1. /\ max_cyc_covered' = Max(covered) /\ cyc' = MaxCycle
          /\ UNCHANGED <<covered, unreachable, undetermined_cyc>>
      BY <1>3 DEF Report
    <2>2. /\ MaxCycle >= Max(covered) /\ MaxCycle \in Unrefuted
          /\ \A u \in unreachable : MaxCycle < u
      BY <1>3, MaxCycleUnrefuted DEF Report
    <2>3. EstimateUnrefuted'
      BY <2>1, <2>2 DEF EstimateUnrefuted, Unrefuted
    <2> QED BY <2>1, <2>3 DEF Verdicts, HasMax, Unrefuted
  <1>4. CASE Enumerate \/ EndOfLoop
    BY <1>4 DEF Enumerate, EndOfLoop, Verdicts, HasMax, EstimateUnrefuted, Reported, Unrefuted
  <1>5. CASE UNCHANGED searchVars
    BY <1>5 DEF searchVars, Verdicts, HasMax, EstimateUnrefuted, Reported, Unrefuted
  <1> QED BY <1>1, <1>2, <1>3, <1>4, <1>5 DEF SearchNext, Finished

\* The number of cycles that proc writes to max_cycle_per_pl.txt is not below the
\* longest covered length, was covered or left undetermined, and no length up to
\* it was found unreachable.
THEOREM EstimateUnrefutedHolds == SearchSpec => []EstimateUnrefuted
  <1>1. SearchInit => Verdicts
    BY DEF SearchInit, Verdicts, HasMax, Unrefuted, EstimateUnrefuted, Reported
  <1>2. Verdicts => EstimateUnrefuted
    BY DEF Verdicts
  <1> QED BY <1>1, <1>2, NextVerdicts, SearchInvariance, PTL DEF SearchSpec

-----------------------------------------------------------------------------
(***************************************************************************)
(* BatchRun, for every set of jobs, every size of the pool and any number  *)
(* of batches and crashes.                                                 *)
(***************************************************************************)

Busy(w) == at[w] # "idle"

\* Where a worker is tells what the file system says of its job.
Claims ==
  \A w \in Worker : Busy(w) =>
    /\ job[w] \notin csv \cup failed
    /\ job[w] \in rundir <=> at[w] # "claim"
    /\ at[w] # "prove" => starts[job[w]] = 0

\* A job is with one worker, or waits, and only p.map hands jobs out.
Exclusive ==
  /\ \A v, w \in Worker : (Busy(v) /\ Busy(w) /\ job[v] = job[w]) => v = w
  /\ \A w \in Worker : Busy(w) => job[w] \notin tasks
  /\ batch # "map" => \A w \in Worker : ~ Busy(w)

\* What has been started has a run directory, and so has what has ended.
Marked ==
  /\ \A j \in Job : starts[j] <= 1 /\ (j \notin rundir => starts[j] = 0)
  /\ csv \cup failed \subseteq rundir

BatchInv == TypeOK /\ Claims /\ Exclusive /\ Marked

\* No job is claimed at first.
LEMMA InitBatchInv == BatchInit => BatchInv
  BY PoolAssumption DEF BatchInit, BatchInv, TypeOK, Claims, Exclusive, Marked, Busy

\* Every step of the pool, the driver and a crash keeps the bookkeeping.
LEMMA NextBatchInv == BatchInv /\ [BatchNext]_batchVars => BatchInv'
  <1> SUFFICES ASSUME BatchInv, [BatchNext]_batchVars PROVE BatchInv'
    OBVIOUS
  <1> USE PoolAssumption DEF BatchInv, Busy, files, pool, history
  <1>1. CASE List
    <2>1. TypeOK'
      BY <1>1 DEF TypeOK, List, Listed
    <2>2. Claims' /\ Exclusive' /\ Marked'
      BY <1>1 DEF Claims, Exclusive, Marked, List
    <2> QED  BY <2>1, <2>2
  <1>2. CASE Return
    BY <1>2 DEF TypeOK, Claims, Exclusive, Marked, Return, MapDone
  <1>3. CASE Generate
    BY <1>3 DEF TypeOK, Claims, Exclusive, Marked, Generate
  <1>4. CASE Crash
    BY <1>4 DEF TypeOK, Claims, Exclusive, Marked, Crash
  <1>5. ASSUME NEW w \in Worker, Take(w) PROVE BatchInv'
    <2>1. PICK j \in tasks :
            /\ batch = "map" /\ at[w] = "idle" /\ tasks' = tasks \ {j}
            /\ IF running(j) THEN UNCHANGED <<at, job>>
               ELSE at' = [at EXCEPT ![w] = "claim"] /\ job' = [job EXCEPT ![w] = j]
            /\ UNCHANGED <<tcl, out, rundir, csv, batch, starts, failed, crashes>>
      BY <1>5 DEF Take, Untaken
    <2>2. j \in Job
      BY <2>1 DEF TypeOK
    <2>3. CASE running(j)
      BY <2>1, <2>3 DEF TypeOK, Claims, Exclusive, Marked
    <2>4. CASE ~ running(j)
      <3>1. at' = [at EXCEPT ![w] = "claim"] /\ job' = [job EXCEPT ![w] = j]
        BY <2>1, <2>4
      <3>2. TypeOK'
        BY <2>1, <2>2, <3>1 DEF TypeOK
      <3>3. j \notin rundir /\ j \notin csv /\ j \notin failed /\ starts[j] = 0
        BY <2>2, <2>4 DEF running, Marked
      <3>4. Claims'
        BY <2>1, <3>1, <3>3 DEF TypeOK, Claims
      <3>5. Exclusive' /\ Marked'
        BY <2>1, <3>1 DEF TypeOK, Exclusive, Marked
      <3> QED  BY <3>2, <3>4, <3>5
    <2> QED  BY <2>3, <2>4
  <1>6. ASSUME NEW w \in Worker, Mkdir(w) PROVE BatchInv'
    <2>1. TypeOK'
      BY <1>6 DEF TypeOK, Mkdir
    <2>2. Claims'
      BY <1>6 DEF TypeOK, Claims, Exclusive, Mkdir
    <2>3. Exclusive' /\ Marked'
      BY <1>6 DEF TypeOK, Exclusive, Marked, Mkdir
    <2> QED  BY <2>1, <2>2, <2>3
  <1>7. ASSUME NEW w \in Worker, RunJG(w) PROVE BatchInv'
    <2>0. job[w] \in Job /\ starts[job[w]] = 0 /\ job[w] \in rundir
      BY <1>7 DEF TypeOK, Claims, RunJG
    <2>1. TypeOK'
      BY <1>7 DEF TypeOK, RunJG
    <2>2. Claims'
      BY <1>7 DEF TypeOK, Claims, Exclusive, RunJG
    <2>3. Exclusive'
      BY <1>7 DEF TypeOK, Exclusive, RunJG
    <2>4. Marked'
      BY <1>7, <2>0 DEF TypeOK, Marked, RunJG
    <2> QED  BY <2>1, <2>2, <2>3, <2>4
  <1>8. ASSUME NEW w \in Worker, Finish(w) PROVE BatchInv'
    <2>0. job[w] \in Job /\ job[w] \in rundir
      BY <1>8 DEF TypeOK, Claims, Finish
    <2>1. TypeOK'
      BY <1>8, <2>0 DEF TypeOK, Finish, Release
    <2>2. Claims'
      BY <1>8 DEF TypeOK, Claims, Exclusive, Finish, Release
    <2>3. Exclusive' /\ Marked'
      BY <1>8, <2>0 DEF TypeOK, Exclusive, Marked, Finish, Release
    <2> QED  BY <2>1, <2>2, <2>3
  <1>9. CASE UNCHANGED batchVars
    BY <1>9 DEF batchVars, TypeOK, Claims, Exclusive, Marked
  <1> QED  BY <1>1, <1>2, <1>3, <1>4, <1>5, <1>6, <1>7, <1>8, <1>9 DEF BatchNext, Work

\* The bookkeeping invariant of the batch runner.
THEOREM BatchInvariance == BatchSpec => []BatchInv
  BY InitBatchInv, NextBatchInv, PTL DEF BatchSpec

\* A worker holds a job exactly while it works on one, and the task list never
\* names a job whose property file is gone.
THEOREM BatchTypeCorrect == BatchSpec => []TypeOK
  <1>1. BatchInv => TypeOK
    BY DEF BatchInv
  <1> QED BY BatchInvariance, <1>1, PTL

\* No property file is ever given to JasperGold twice.
THEOREM ProvedAtMostOnceHolds == BatchSpec => []ProvedAtMostOnce
  <1>1. BatchInv => ProvedAtMostOnce
    BY DEF BatchInv, Marked, ProvedAtMostOnce
  <1> QED  BY <1>1, BatchInvariance, PTL

\* A job stranded by a crash is never taken up again.
THEOREM StrandedForGoodHolds == BatchSpec => StrandedForGood
  <1>1. ASSUME BatchInv, [BatchNext]_batchVars, NEW j \in Stranded
        PROVE  j \in Stranded' /\ starts'[j] = starts[j]
    <2>0. /\ j \in rundir /\ j \notin csv /\ j \notin failed /\ j \in Job
          /\ \A w \in Worker : job[w] # j
      BY <1>1, PoolAssumption DEF Stranded, Held, BatchInv, TypeOK
    <2>1. SUFFICES /\ j \in rundir' /\ j \notin csv' /\ j \notin failed'
                   /\ starts'[j] = starts[j]
                   /\ \A w \in Worker : job'[w] # j
      BY <2>0 DEF Stranded, Held
    <2> USE <2>0, PoolAssumption DEF files, pool, history
    <2>2. CASE List \/ Return \/ Generate \/ UNCHANGED batchVars
      BY <2>2 DEF List, Return, Generate, batchVars
    <2>3. CASE Crash
      BY <2>3 DEF Crash
    <2>4. ASSUME NEW w \in Worker, Work(w)
          PROVE  /\ j \in rundir' /\ j \notin csv' /\ j \notin failed'
                 /\ starts'[j] = starts[j]
                 /\ \A v \in Worker : job'[v] # j
      <3> USE <1>1 DEF BatchInv, TypeOK
      <3>1. CASE Take(w)
        BY <3>1 DEF Take, running
      <3>2. CASE Mkdir(w)
        BY <3>2 DEF Mkdir
      <3>3. CASE RunJG(w)
        BY <3>3 DEF RunJG
      <3>4. CASE Finish(w)
        BY <3>4 DEF Finish, Release
      <3> QED  BY <2>4, <3>1, <3>2, <3>3, <3>4 DEF Work
    <2> QED  BY <1>1, <2>2, <2>3, <2>4 DEF BatchNext
  <1>2. BatchInv /\ [BatchNext]_batchVars => [\A j \in Stranded : j \in Stranded' /\ starts'[j] = starts[j]]_batchVars
    BY <1>1
  <1> QED  BY <1>2, BatchInvariance, PTL DEF BatchSpec, StrandedForGood

-----------------------------------------------------------------------------
(***************************************************************************)
(* What crashes cost.  While p.map runs, a property file of the directory  *)
(* waits, is held, or has been marked by a run directory or a report; and  *)
(* the marked ones that nobody holds and that have not ended are at most   *)
(* NNN per crash, because a crash lets go of at most one job per worker.   *)
(***************************************************************************)
Accounted ==
  /\ batch = "map" => out \subseteq tasks \cup rundir \cup csv \cup Held
  /\ batch = "returned" => out \subseteq rundir \cup csv

Cost == Accounted /\ Cardinality(Stranded) <= NNN * crashes

LEMMA HeldBound ==
  ASSUME BatchInv
  PROVE  IsFiniteSet(Held) /\ Cardinality(Held) \in Nat /\ Cardinality(Held) <= NNN
  <1> DEFINE T == {job[w] : w \in Worker}
  <1>1. IsFiniteSet(Worker) /\ Cardinality(Worker) = NNN
    BY PoolAssumption, FS_Interval DEF Worker
  <1>2. job \in Surjection(Worker, T)
    BY DEF BatchInv, TypeOK, Surjection
  <1>3. IsFiniteSet(T) /\ Cardinality(T) <= NNN
    BY <1>1, <1>2, FS_Surjection
  <1>4. Held \in SUBSET T
    BY DEF Held
  <1>5. IsFiniteSet(Held) /\ Cardinality(Held) <= Cardinality(T)
    BY <1>3, <1>4, FS_Subset
  <1>6. Cardinality(Held) \in Nat /\ Cardinality(T) \in Nat
    BY <1>3, <1>5, FS_CardinalityType
  <1> QED BY <1>3, <1>5, <1>6, PoolAssumption

\* The jobs are finitely many, and a smaller set of them counts less.
LEMMA FewerStranded ==
  ASSUME BatchInv, BatchInv', Cost, Stranded' \subseteq Stranded, crashes' = crashes
  PROVE  Cardinality(Stranded)' <= NNN * crashes'
  <1>1. Stranded \in SUBSET Job
    BY DEF BatchInv, TypeOK, Stranded
  <1>2. IsFiniteSet(Stranded)
    BY <1>1, PoolAssumption, FS_Subset
  <1>3. Cardinality(Stranded') <= Cardinality(Stranded) /\ IsFiniteSet(Stranded')
    BY <1>2, FS_Subset
  <1>4. Cardinality(Stranded) \in Nat /\ Cardinality(Stranded') \in Nat
    BY <1>2, <1>3, FS_CardinalityType
  <1>5. Cardinality(Stranded) <= NNN * crashes /\ NNN * crashes \in Nat
    BY PoolAssumption DEF Cost, BatchInv, TypeOK
  <1> QED BY <1>3, <1>4, <1>5

LEMMA InitCost == BatchInit => Cost
  <1> SUFFICES ASSUME BatchInit PROVE Cost
    OBVIOUS
  <1>1. Stranded = {} /\ Accounted /\ crashes = 0
    BY DEF BatchInit, Stranded, Accounted
  <1> QED BY <1>1, FS_EmptySet, PoolAssumption DEF Cost

\* A crash strands what the workers hold, and nothing else does.
LEMMA NextCost == BatchInv /\ BatchInv' /\ Cost /\ [BatchNext]_batchVars => Cost'
  <1> SUFFICES ASSUME BatchInv, BatchInv', Cost, [BatchNext]_batchVars PROVE Cost'
    OBVIOUS
  <1> USE DEF files, pool, history
  <1>h. Held = {j \in Job : \E w \in Worker : job[w] = j}
    BY PoolAssumption DEF Held, BatchInv, TypeOK
  <1>g. Held' = {j \in Job : \E w \in Worker : job'[w] = j}
    BY PoolAssumption DEF Held, BatchInv, TypeOK
  <1>1. CASE List
    <2>1. Accounted'
      BY <1>1 DEF Accounted, List, Listed
    <2>2. Stranded' \subseteq Stranded /\ crashes' = crashes
      BY <1>1 DEF Stranded, Held, List
    <2> QED BY <2>1, <2>2, FewerStranded DEF Cost
  <1>2. CASE Return
    <2>1. Held = {}
      BY <1>2, PoolAssumption DEF Return, MapDone, Held, BatchInv, TypeOK
    <2>2. Accounted'
      BY <1>2, <2>1 DEF Cost, Accounted, Return, MapDone
    <2>3. Stranded' \subseteq Stranded /\ crashes' = crashes
      BY <1>2 DEF Stranded, Held, Return
    <2> QED BY <2>2, <2>3, FewerStranded DEF Cost
  <1>3. CASE Generate
    <2>1. Accounted'
      BY <1>3 DEF Accounted, Generate
    <2>2. Stranded' \subseteq Stranded /\ crashes' = crashes
      BY <1>3 DEF Stranded, Held, Generate
    <2> QED BY <2>1, <2>2, FewerStranded DEF Cost
  <1>4. CASE Crash
    <2>1. Accounted' /\ crashes' = crashes + 1
      BY <1>4 DEF Accounted, Crash
    <2>2. Stranded' \in SUBSET (Stranded \cup Held)
      BY <1>4 DEF Stranded, Crash
    <2>3. Stranded \in SUBSET Job
      BY DEF Stranded, BatchInv, TypeOK
    <2>4. IsFiniteSet(Stranded) /\ IsFiniteSet(Held)
      BY <2>3, PoolAssumption, FS_Subset, HeldBound
    <2>5. /\ IsFiniteSet(Stranded \cup Held)
          /\ Cardinality(Stranded \cup Held)
               = Cardinality(Stranded) + Cardinality(Held) - Cardinality(Stranded \cap Held)
      BY <2>4, FS_Union
    <2>6. IsFiniteSet(Stranded \cap Held)
      BY <2>4, FS_Intersection
    <2>7. IsFiniteSet(Stranded') /\ Cardinality(Stranded') <= Cardinality(Stranded \cup Held)
      BY <2>2, <2>5, FS_Subset
    <2>8. /\ Cardinality(Stranded) \in Nat /\ Cardinality(Stranded \cap Held) \in Nat
          /\ Cardinality(Stranded') \in Nat /\ Cardinality(Stranded \cup Held) \in Nat
      BY <2>4, <2>5, <2>6, <2>7, FS_CardinalityType
    <2>9. Cardinality(Held) \in Nat /\ Cardinality(Held) <= NNN
      BY HeldBound
    <2>10. Cardinality(Stranded') <= Cardinality(Stranded) + NNN
      BY <2>5, <2>7, <2>8, <2>9, PoolAssumption
    <2>11. /\ Cardinality(Stranded) <= NNN * crashes /\ NNN * crashes \in Nat
           /\ NNN * (crashes + 1) = NNN * crashes + NNN
      BY PoolAssumption DEF Cost, BatchInv, TypeOK
    <2>12. Cardinality(Stranded') <= NNN * crashes'
      BY <2>1, <2>8, <2>10, <2>11, PoolAssumption
    <2> QED BY <2>1, <2>12 DEF Cost
  <1>5. ASSUME NEW w \in Worker, Take(w) PROVE Cost'
    <2>1. PICK j \in tasks :
            /\ batch = "map" /\ at[w] = "idle" /\ tasks' = tasks \ {j}
            /\ IF running(j) THEN UNCHANGED <<at, job>>
               ELSE at' = [at EXCEPT ![w] = "claim"] /\ job' = [job EXCEPT ![w] = j]
            /\ UNCHANGED <<tcl, out, rundir, csv, batch, starts, failed, crashes>>
      BY <1>5 DEF Take, Untaken
    <2>2. j \in Job /\ job[w] = NoJob
      BY <2>1 DEF BatchInv, TypeOK
    <2>3. Held \subseteq Held' /\ (running(j) \/ j \in Held')
      BY <1>h, <1>g, <2>1, <2>2, PoolAssumption DEF BatchInv, TypeOK
    <2>4. Accounted'
      BY <2>1, <2>3 DEF Cost, Accounted, running
    <2>5. Stranded' \subseteq Stranded /\ crashes' = crashes
      BY <2>1, <2>3 DEF Stranded
    <2> QED BY <2>4, <2>5, FewerStranded DEF Cost
  <1>6. ASSUME NEW w \in Worker, Mkdir(w) PROVE Cost'
    <2>1. /\ rundir' = rundir \cup {job[w]}
          /\ UNCHANGED <<out, csv, batch, tasks, job, failed, crashes>> /\ job[w] \in Held
      BY <1>h, <1>6, PoolAssumption DEF Mkdir, BatchInv, TypeOK
    <2>2. Held' = Held
      BY <2>1 DEF Held
    <2>3. Accounted'
      BY <2>1, <2>2 DEF Cost, Accounted
    <2>4. Stranded' \subseteq Stranded /\ crashes' = crashes
      BY <2>1, <2>2 DEF Stranded
    <2> QED BY <2>3, <2>4, FewerStranded DEF Cost
  <1>7. ASSUME NEW w \in Worker, RunJG(w) PROVE Cost'
    <2>1. UNCHANGED <<out, rundir, csv, batch, tasks, job, failed, crashes>>
      BY <1>7 DEF RunJG
    <2> QED BY <2>1, FewerStranded DEF Cost, Accounted, Stranded, Held
  <1>8. ASSUME NEW w \in Worker, Finish(w) PROVE Cost'
    <2>1. /\ UNCHANGED <<out, rundir, batch, tasks, crashes>>
          /\ csv \subseteq csv' /\ failed \subseteq failed' /\ job[w] \in csv' \cup failed'
          /\ job' = [job EXCEPT ![w] = NoJob] /\ job[w] \in rundir
      BY <1>8 DEF Finish, Release, BatchInv, Claims, Busy
    <2>2. Held \subseteq Held' \cup {job[w]}
      BY <1>h, <1>g, <2>1 DEF BatchInv, TypeOK
    <2>3. Accounted'
      BY <2>1, <2>2 DEF Cost, Accounted
    <2>4. Stranded' \subseteq Stranded /\ crashes' = crashes
      BY <2>1, <2>2 DEF Stranded
    <2> QED BY <2>3, <2>4, FewerStranded DEF Cost
  <1>9. CASE UNCHANGED batchVars
    BY <1>9 DEF batchVars, Cost, Accounted, Stranded, Held
  <1> QED BY <1>1, <1>2, <1>3, <1>4, <1>5, <1>6, <1>7, <1>8, <1>9 DEF BatchNext, Work

\* A batch that has returned lacks the outcome of at most one property file per
\* worker and crash.
THEOREM CrashCostsAtMostNNNHolds == BatchSpec => []CrashCostsAtMostNNN
  <1>1. BatchSpec => []Cost
    BY InitCost, NextCost, BatchInvariance, PTL DEF BatchSpec
  <1>2. BatchInv /\ Cost => CrashCostsAtMostNNN
    <2> SUFFICES ASSUME BatchInv, Cost, batch = "returned"
                 PROVE  Cardinality(out \ (csv \cup failed)) <= NNN * crashes
      BY DEF CrashCostsAtMostNNN
    <2>1. Held = {}
      BY PoolAssumption DEF BatchInv, TypeOK, Exclusive, Busy, Held
    <2>2. out \ (csv \cup failed) \in SUBSET Stranded
      BY <2>1 DEF Cost, Accounted, Stranded
    <2>3. Stranded \in SUBSET Job
      BY DEF Stranded, BatchInv, TypeOK
    <2>4. IsFiniteSet(Stranded)
      BY <2>3, PoolAssumption, FS_Subset
    <2>5. /\ IsFiniteSet(out \ (csv \cup failed))
          /\ Cardinality(out \ (csv \cup failed)) <= Cardinality(Stranded)
      BY <2>2, <2>4, FS_Subset
    <2>6. Cardinality(Stranded) \in Nat /\ Cardinality(out \ (csv \cup failed)) \in Nat
      BY <2>4, <2>5, FS_CardinalityType
    <2>7. Cardinality(Stranded) <= NNN * crashes /\ NNN * crashes \in Nat
      BY PoolAssumption DEF Cost, BatchInv, TypeOK
    <2> QED BY <2>5, <2>6, <2>7
  <1> QED BY <1>1, <1>2, BatchInvariance, PTL
=============================================================================
