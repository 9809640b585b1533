----------------------------- MODULE CycleSearch -----------------------------
(***************************************************************************)
(* How many consecutive cycles an instruction may stay in a performing     *)
(* location (PL): the binary search that xPerfLocCycleCount/template.tcl   *)
(* runs inside JasperGold, the post-processing of its report (proc in      *)
(* xPerfLocCycleCountAllSet.py), and the enumeration of the stay lengths   *)
(* (xEnumCycleCnt).                                                        *)
(*                                                                         *)
(* The design under verification is represented by `stays`, the set of the *)
(* lengths of the stays it can make.  JasperGold answers a cover property  *)
(* correctly or, when its time limit (5 minutes) expires, not at all.      *)
(***************************************************************************)
EXTENDS Integers, FiniteSets, FiniteSetsExt

CONSTANTS
  MAX,        \* `set max {70}`
  CNT,        \* `if { $cnt == 10 }`
  Stays       \* the possible values of `stays`

\* The search interval has at most 127 = 2^7 - 1 values above 0 and at least
\* nine rounds to close it (the script has 70 and 10).
ASSUME LimitsAssumption == /\ MAX \in 0 .. 127
                           /\ CNT \in Nat /\ CNT > 8

ASSUME StaysAssumption == \A S \in Stays : S \subseteq Nat /\ \E m \in S : \A k \in S : k <= m

VARIABLES
  stays,            \* the lengths of the stays the design can make
  min, max, cnt,    \* the variables of template.tcl
  covered, unreachable, undetermined_cyc,   \* the report: probed lengths by verdict
  max_cyc_covered, cyc,    \* what proc returns
  n,                \* the counter `cnt` of template_iterloop.tcl
  listed,           \* the lengths written to res.txt
  stage

report == <<covered, unreachable, undetermined_cyc>>
search == <<min, max, cnt>>
answer == <<max_cyc_covered, cyc>>
searchVars == <<stays, search, report, answer, n, listed, stage>>

NONE == -1          \* Python's None, for a number of cycles

Probed == covered \cup unreachable \cup undetermined_cyc

\* `itm [*k] ##1 !itm` matches the last k cycles of any stay of k cycles or more.
Coverable(k) == k = 0 \/ \E s \in stays : k <= s

SearchInit ==
  /\ stays \in Stays
  /\ min = 0 /\ max = MAX /\ cnt = 0
  /\ covered = {} /\ unreachable = {} /\ undetermined_cyc = {}
  /\ max_cyc_covered = NONE /\ cyc = NONE
  /\ n = 1 /\ listed = {}
  /\ stage = "search"

-----------------------------------------------------------------------------
\* Mutant of pivotValue: a search from the top.
TopPivot(lo, hi) == hi

pivotValue(lo, hi) == (lo + hi) \div 2

\* Mutant: one length too many is given up.
SkipOne(k) == k - 2

above(k) == k + 1

below(k) == k - 1

\* JasperGold rejects a second property of the same name and a negative
\* repetition; the script takes the error as the end of the search.
CoverFails(k) == k < 0 \/ k \in Probed

\* The two ways out of the loop: the round limit, and the error.
EndSearch ==
  /\ stage = "search"
  /\ cnt # CNT => CoverFails(pivotValue(min, max))
  /\ cnt' = IF cnt = CNT THEN cnt ELSE cnt + 1
  /\ stage' = "report"
  /\ UNCHANGED <<stays, min, max, report, answer, n, listed>>

\* Only "covered" raises the lower end: an undetermined probe lowers the upper
\* end exactly as an unreachable one does.
Probe ==
  LET k == pivotValue(min, max) IN
  /\ stage = "search" /\ cnt # CNT
  /\ cnt' = cnt + 1
  /\ ~ CoverFails(k)
  /\ \/ /\ Coverable(k)
        /\ covered' = covered \cup {k}
        /\ min' = above(k)
        /\ UNCHANGED <<max, unreachable, undetermined_cyc>>
     \/ /\ ~ Coverable(k)
        /\ unreachable' = unreachable \cup {k}
        /\ max' = below(k)
        /\ UNCHANGED <<min, covered, undetermined_cyc>>
     \/ /\ undetermined_cyc' = undetermined_cyc \cup {k}
        /\ max' = below(k)
        /\ UNCHANGED <<min, covered, unreachable>>
  /\ UNCHANGED <<stays, answer, n, listed, stage>>

-----------------------------------------------------------------------------
\* proc: the longest length not refuted, replaced by the longest covered length
\* below the first unreachable one when a shorter length was refuted.
Unrefuted == covered \cup undetermined_cyc

\* Mutant: keep the longest length not refuted.
KeepUnrefuted == Max(Unrefuted)

RefutedBelow == {k \in unreachable : k < Max(Unrefuted)}

MaxCycle ==
  IF RefutedBelow = {} THEN Max(Unrefuted)
  ELSE LET proven == {k \in covered : \A u \in RefutedBelow : k < u}
       IN IF proven = {} THEN NONE ELSE Max(proven)

\* `assert(max_cyc_covered is not None)`
Abort ==
  /\ stage = "report" /\ covered = {}
  /\ stage' = "aborted"
  /\ UNCHANGED <<stays, search, report, answer, n, listed>>

Report ==
  /\ stage = "report" /\ covered # {}
  /\ max_cyc_covered' = Max(covered)
  /\ cyc' = MaxCycle
  /\ stage' = IF Max(covered) = 1 THEN "done" ELSE "enumerate"
  /\ UNCHANGED <<stays, search, report, n, listed>>

\* One round of template_iterloop.tcl: the cover of a stay of exactly n cycles is
\* created and proved.  Its name reaches res.txt whatever its verdict, because
\* proc of xEnumCycleCnt/gen.py selects on the name alone.
Enumerate ==
  /\ stage = "enumerate" /\ n <= max_cyc_covered
  /\ listed' = listed \cup {n}
  /\ n' = n + 1
  /\ UNCHANGED <<stays, search, report, answer, stage>>

EndOfLoop ==
  /\ stage = "enumerate" /\ n > max_cyc_covered
  /\ stage' = "done"
  /\ UNCHANGED <<stays, search, report, answer, n, listed>>

Finished == stage \in {"done", "aborted"} /\ UNCHANGED searchVars

SearchNext == Probe \/ EndSearch \/ Abort \/ Report \/ Enumerate \/ EndOfLoop \/ Finished

SearchSpec == SearchInit /\ [][SearchNext]_searchVars

-----------------------------------------------------------------------------
\* The repeated pivot always ends the search before the round counter does: the
\* limit of ten rounds never cuts a search over 0..70 short.
BudgetSuffices == stage = "search" => cnt < CNT

Reported == stage \in {"enumerate", "done"}

\* If the longest covered length falls short of what the design can do within the
\* interval, the report itself shows why: a longer length that the design can do
\* was probed and came back undetermined.  With no undetermined verdict the search
\* is exact.
ShortfallIsVisible ==
  Reported =>
    \A k \in 0 .. MAX :
      (Coverable(k) /\ k > max_cyc_covered) =>
        \E u \in undetermined_cyc : max_cyc_covered < u /\ Coverable(u)

\* The larger estimate, which proc writes to max_cycle_per_pl.txt, is never below
\* the covered one and never contradicts the report: no length up to it was found
\* unreachable, so it exceeds what the design can do only by undetermined lengths.
EstimateUnrefuted ==
  Reported => /\ cyc >= max_cyc_covered
              /\ \A u \in unreachable : cyc < u
              /\ cyc \in Unrefuted

\* The lengths in res.txt are lengths of stays the design makes
\* (05-5instn-isa.md:34: "can stay in LSQ for exactly 1, 2, 3, 4, or 5 cycles").
ListedStaysExist == stage = "done" => listed \subseteq stays
=============================================================================
