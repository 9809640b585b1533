------------------------------- MODULE PLSets --------------------------------
(***************************************************************************)
(* Steps 1 to 3 of RTL2MuPATH: which sets of performing locations (PLs)    *)
(* can an execution of the instruction under verification visit?           *)
(*                                                                         *)
(*   1. xCoverAPerflocDiv   which PLs are reachable, which always visited  *)
(*   2. xPairwiseDepDiv     which pairs exclude or imply each other        *)
(*   3. xPerfLocSubsetDiv   which sets survive (GenComb), and the verdict  *)
(*                          on each survivor                               *)
(*                                                                         *)
(* An execution of the design is the function giving the cycle in which it *)
(* first visits each PL, 0 for never.  JasperGold answers a property       *)
(* correctly or leaves it undetermined.                                    *)
(***************************************************************************)
EXTENDS Integers, FiniteSets

CONSTANTS
  N,          \* number of PLs in the header
  IID,        \* instruction-identifier registers
  iid_map,    \* the register of each PL
  Designs,    \* the designs: each a set of executions
  Files,      \* the possible contents of the xCommon files
  Timeouts    \* bound: undetermined verdicts in one run of the three steps

\* A PL is its position in the header file, which is the order of every list.
PL == 1 .. N

Execution == [PL -> Nat]

ASSUME SizeAssumption == N \in Nat /\ Timeouts \in Nat
ASSUME IidAssumption == iid_map \in [PL -> IID]

\* Every execution is fetched: it visits some PL.
ASSUME DesignAssumption ==
  \A design \in Designs :
    design \subseteq Execution /\ \A r \in design : \E p \in PL : r[p] > 0

ASSUME FilesAssumption ==
  Files \subseteq [exclusive_set_iids : SUBSET (IID \X IID),
                   implication_set_iids : SUBSET (IID \X IID),
                   implication_set_pls : SUBSET (PL \X PL)]

VARIABLES
  exec,         \* the executions of the design
  common,       \* xCommon: relations proven once for all instructions
  pc,
  timeouts,     \* undetermined verdicts so far
  cover_individual, undetermined, always_reach,           \* step 1
  implication, undetermined_impl, exclusive, undetermined_excl,   \* step 2
  idx, res,                                               \* GenComb
  reachable_set, unreachable_set, undetermined_set        \* step 3

step1 == <<cover_individual, undetermined, always_reach>>
step2 == <<implication, undetermined_impl, exclusive, undetermined_excl>>
step3 == <<reachable_set, unreachable_set, undetermined_set>>
vars == <<exec, common, pc, timeouts, step1, step2, idx, res, step3>>

Visited(r) == {p \in PL : r[p] > 0}

\* The cover property DEP_b, `!p_hpn && q_hpn`: q was visited and p not yet.
WithoutEarlier(r, p, q) == r[q] > 0 /\ (r[p] = 0 \/ r[q] < r[p])

\* What the xCommon files say of a design that has them proven.
CommonHolds(facts, design) ==
  \A r \in design :
    /\ \A pair \in facts.exclusive_set_iids, p, q \in Visited(r) :
         ~ (iid_map[p] = pair[1] /\ iid_map[q] = pair[2])
    /\ \A pair \in facts.implication_set_iids, q \in Visited(r) :
         iid_map[q] = pair[2] => \E p \in Visited(r) : iid_map[p] = pair[1]
    /\ \A pair \in facts.implication_set_pls :
         pair[2] \in Visited(r) => pair[1] \in Visited(r)

Init ==
  /\ exec \in Designs
  /\ common \in {facts \in Files : CommonHolds(facts, exec)}
  /\ pc = "cover" /\ timeouts = 0
  /\ cover_individual = {} /\ undetermined = {} /\ always_reach = {}
  /\ implication = {} /\ undetermined_impl = {}
  /\ exclusive = {} /\ undetermined_excl = {}
  /\ idx = 1 /\ res = {{}}
  /\ reachable_set = {} /\ unreachable_set = {} /\ undetermined_set = {}

\* JasperGold runs out of time on the properties of U.
TimesOut(U) == /\ timeouts + Cardinality(U) <= Timeouts
               /\ timeouts' = timeouts + Cardinality(U)

-----------------------------------------------------------------------------
\* Step 1, gen and pp: the PLs some execution visits.
CoverIndividual ==
  \E U \in SUBSET PL :
    /\ pc = "cover" /\ TimesOut(U)
    /\ cover_individual' = {p \in PL \ U : \E r \in exec : p \in Visited(r)}
    /\ undetermined' = U
    /\ pc' = "always"
    /\ UNCHANGED <<exec, common, always_reach, step2, idx, res, step3>>

\* Step 1, gen_s2 and pp: the covered PLs whose absence contradicts the header.
AlwaysReach ==
  \E U \in SUBSET cover_individual :
    /\ pc = "always" /\ TimesOut(U)
    /\ always_reach' = {p \in cover_individual \ U : \A r \in exec : p \in Visited(r)}
    /\ pc' = "pairs"
    /\ UNCHANGED <<exec, common, cover_individual, undetermined, step2, idx, res, step3>>

-----------------------------------------------------------------------------
\* Step 2.  The PLs neither unreachable nor always visited.
perflocs == cover_individual \ always_reach

Pairs == {pair \in perflocs \X perflocs : pair[1] # pair[2]}

exclusive_already(p, q) ==
  \/ <<iid_map[p], iid_map[q]>> \in common.exclusive_set_iids
  \/ <<iid_map[q], iid_map[p]>> \in common.exclusive_set_iids

\* Mutant: the single-PL condition is dropped.
DomAnyPL(p, q) == <<iid_map[p], iid_map[q]>> \in common.implication_set_iids

\* A register implied by another implies a PL only if it has a single covered PL.
dom(p, q) ==
  /\ \A x \in cover_individual : iid_map[x] = iid_map[p] => x = p
  /\ <<iid_map[p], iid_map[q]>> \in common.implication_set_iids

imp_already(p, q) == dom(p, q) \/ <<p, q>> \in common.implication_set_pls

\* The two cover properties of a pair, and the pairs each is generated for.
ImpliesToProve == {pair \in Pairs : ~ imp_already(pair[1], pair[2])
                                    /\ ~ exclusive_already(pair[1], pair[2])}

ExcludesToProve == {pair \in Pairs : /\ pair[1] < pair[2]
                                     /\ ~ exclusive_already(pair[1], pair[2])
                                     /\ ~ imp_already(pair[1], pair[2])
                                     /\ ~ imp_already(pair[2], pair[1])}

\* <<p, q>> in implication.txt: q implies p.
PairwiseDep ==
  \E U \in SUBSET ImpliesToProve, V \in SUBSET ExcludesToProve :
    /\ pc = "pairs"
    /\ timeouts + Cardinality(U) + Cardinality(V) <= Timeouts
    /\ timeouts' = timeouts + Cardinality(U) + Cardinality(V)
    /\ implication' =
         {pair \in ImpliesToProve \ U : \A r \in exec : ~ WithoutEarlier(r, pair[1], pair[2])}
         \cup {pair \in Pairs : imp_already(pair[1], pair[2])}
    /\ undetermined_impl' = U
    /\ exclusive' =
         {pair \in ExcludesToProve \ V :
            \A r \in exec : ~ (pair[1] \in Visited(r) /\ pair[2] \in Visited(r))}
         \cup {pair \in Pairs : exclusive_already(pair[1], pair[2])}
    /\ undetermined_excl' = V
    /\ pc' = "comb"
    /\ UNCHANGED <<exec, common, step1, idx, res, step3>>

-----------------------------------------------------------------------------
\* Step 3, GenComb: decide the PLs in order, for all the partial sets at once.
\* `acc` is a partial set, e the next PL.
Clashes(pairs, acc, e) ==
  \E pair \in pairs : \/ pair[1] \in acc /\ pair[2] = e
                      \/ pair[2] \in acc /\ pair[1] = e

\* Mutant: the order of the two PLs is not looked at.
IncludeIfImpliedPresent(acc, e) ==
  /\ ~ Clashes(exclusive, acc, e) /\ ~ Clashes(undetermined_excl, acc, e)
  /\ ~ \E pair \in implication : pair[2] = e /\ pair[1] \notin acc

MayInclude(acc, e) ==
  /\ ~ Clashes(exclusive, acc, e) /\ ~ Clashes(undetermined_excl, acc, e)
  /\ ~ \E pair \in implication : pair[2] = e /\ pair[1] \notin acc /\ pair[1] < e

\* Mutant: a PL implied by a chosen one may be left out.
ExcludeUnlessAlways(acc, e) == e \notin always_reach

MayExclude(acc, e) ==
  /\ e \notin always_reach
  /\ ~ \E pair \in implication \cup undetermined_impl : pair[2] \in acc /\ pair[1] = e

Decided(e) ==
  IF e \in cover_individual
  THEN {acc \cup {e} : acc \in {a \in res : MayInclude(a, e)}}
       \cup {acc \in res : MayExclude(acc, e)}
  ELSE res

get_all_combination ==
  /\ pc = "comb" /\ idx <= N
  /\ res' = Decided(idx)
  /\ idx' = idx + 1
  /\ UNCHANGED <<exec, common, pc, timeouts, step1, step2, step3>>

\* The candidates of potential_subset.txt: gen skips the empty set.
potential_subset == res \ {{}}

\* The cover of one set assumes away the other covered PLs, and only those.
Realised(S) == \E r \in exec : Visited(r) \cap cover_individual = S

CoverSets ==
  \E U \in SUBSET potential_subset :
    /\ pc = "comb" /\ idx > N /\ TimesOut(U)
    /\ reachable_set' = {S \in potential_subset \ U : Realised(S)}
    /\ unreachable_set' = {S \in potential_subset \ U : ~ Realised(S)}
    /\ undetermined_set' = U
    /\ pc' = "done"
    /\ UNCHANGED <<exec, common, step1, step2, idx, res>>

Stop == pc = "done" /\ UNCHANGED vars

Next == CoverIndividual \/ AlwaysReach \/ PairwiseDep \/ get_all_combination
        \/ CoverSets \/ Stop

Spec == Init /\ [][Next]_vars

-----------------------------------------------------------------------------
\* plset_cnt, the script's own reference for GenComb: it goes through the power set.
Breaks(S, implications, exclusions) ==
  \/ \E pair \in exclusions : pair[1] \in S /\ pair[2] \in S
  \/ \E pair \in implications : pair[2] \in S /\ pair[1] \notin S

pruned(S) == ~ (always_reach \subseteq S) \/ Breaks(S, implication, exclusive)

pruned_based_undet_pairwise(S) == Breaks(S, undetermined_impl, undetermined_excl)

\* No execution is lost silently: the PL set of every execution of the design ends
\* up reachable or undetermined, unless the logs name an undetermined PL in it or
\* an undetermined pair that rules it out.
NothingLost ==
  pc = "done" =>
    \A r \in exec :
      \/ Visited(r) \in reachable_set \cup undetermined_set
      \/ Visited(r) \cap undetermined # {}
      \/ pruned_based_undet_pairwise(Visited(r))

\* GenComb, which prunes while it builds a set, proposes no set that plset_cnt, which
\* looks at the finished set, counts as pruned by a proven relation.
CandidatesConsistent == idx > N => \A S \in res : ~ pruned(S)

\* `assert(0)` of plset_cnt: every set it does not prune has a verdict.
EveryCandidateClassified ==
  pc = "done" =>
    \A S \in (SUBSET cover_individual) \ {{}} :
      ~ pruned(S) /\ ~ pruned_based_undet_pairwise(S) =>
        S \in reachable_set \cup unreachable_set \cup undetermined_set
=============================================================================
