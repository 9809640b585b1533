------------------------------- MODULE Driver --------------------------------
(***************************************************************************)
(* run_an_instn_demo.sh: the eleven steps that take one instruction from   *)
(* the cover run to its paths and cycle counts.                            *)
(*                                                                         *)
(* A step copies its directory, generates property files, hands them to    *)
(* the batch runner (module BatchRun), possibly a second time, and turns   *)
(* the reports into text files that later steps read.  The script runs     *)
(* under `set -e`; it may be cut anywhere and started again.  A step whose *)
(* directory exists is not generated and not run again, except steps 2 and *)
(* 8.  A missing text file makes a Python step print a line and leave with *)
(* status 0, so that the script goes on; a missing report or an `open`     *)
(* makes it raise, so that the script ends.  A generator that is cut, or   *)
(* raises, leaves some of its property files and a list with no or some of *)
(* its lines.  What pp writes needs no such care: it runs in every start.  *)
(***************************************************************************)
EXTENDS Integers, Sequences, Functions

Step == 1 .. 11
Phase == 1 .. 2

\* Batches a step issues.  Step 10 only computes.
Phases(s) == IF s = 10 THEN 0 ELSE IF s \in {1, 4, 5, 6, 8} THEN 2 ELSE 1

\* Mutant: step 8 is skipped like the others.
AlwaysOnlyPairs == {2}

\* Steps whose `if [ -d ${DIR} ]` guards the copy alone.
Always == {2, 8}

PostProcessed == {1, 2, 3, 4, 5, 6, 11}

\* Phases that have at least one property file.
NeverVoid == {<<1, 1>>, <<3, 1>>}

\* Phases whose property files are made per reachable set.
PerSet == {<<4, 1>>, <<4, 2>>, <<5, 2>>, <<7, 1>>, <<8, 1>>, <<8, 2>>, <<9, 1>>}

File == {"cover_individual", "pairs", "potential_subset", "reachable_set", "whb_todo", "hb",
         "max_cycle", "max_covered", "gt1", "check_e", "leaving", "edge_todo", "final_edge_todo",
         "follower_set", "res"}

Reports == {"none", "ready", "cut", "full"}

VARIABLES
  dir,     \* steps whose directory is there
  rep,     \* reports of a phase: "none" (nothing generated), "ready" (property files),
           \* "cut" (a file has no report and is not started again), "full"
  txt,     \* text files: "none", "empty" (no line a reader takes), "torn" (some), "good"
  step, ph, at

vars == <<dir, rep, txt, step, ph, at>>

Wiped ==
  /\ dir' = {} /\ rep' = [s \in Step |-> [p \in Phase |-> "none"]]
  /\ txt' = [f \in File |-> "none"]

Init ==
  /\ dir = {} /\ rep = [s \in Step |-> [p \in Phase |-> "none"]]
  /\ txt = [f \in File |-> "none"]
  /\ step = 1 /\ ph = 1 /\ at = "down"

\* The script starts, for the first time or again; where the instruction's directory
\* exists it asks whether to remove it.
Start ==
  /\ at \in {"down", "end"}
  /\ \/ Wiped
     \/ UNCHANGED <<dir, rep, txt>>
  /\ step' = 1 /\ ph' = 1 /\ at' = "enter"

There(files) == \A f \in files : txt[f] # "none"

Missing(s, p) == rep[s][p] # "full"

\* No reachable set is listed: the loops over the sets do nothing.
NoSets == txt["reachable_set"] = "empty"

HBFiles == {"hb", "whb_todo"}

\* Mutant: the files of step 4 are optional for steps 7 to 10, like those of step 6, and
\* so are the cycle counts.
ImportsOptional(s) ==
  IF s = 1 \/ s = 11 THEN {} ELSE
  {"cover_individual"} \cup
  (IF s = 2 THEN {} ELSE IF s = 3 THEN {"pairs"} ELSE {"reachable_set"}) \cup
  (IF s = 6 THEN {"hb"} ELSE {})

\* Files a step's script reads with get_array, exit_on_fail left at True, as it is loaded.
Imports(s) ==
  IF s = 1 \/ s = 11 THEN {} ELSE
  {"cover_individual"} \cup
  (IF s = 2 THEN {} ELSE IF s = 3 THEN {"pairs"} ELSE {"reachable_set"}) \cup
  (IF s = 6 THEN {"hb"} ELSE {}) \cup
  (IF s \in 7 .. 10 THEN {"max_cycle", "gt1"} \cup HBFiles ELSE {})

\* The script ends: `set -e`, or a crash.
Down == at' = "down" /\ UNCHANGED <<step, ph>>

NextStep ==
  /\ step' = IF step = 11 THEN 11 ELSE step + 1
  /\ ph' = 1
  /\ at' = IF step = 11 THEN "end" ELSE "enter"

AfterBatches ==
  IF step \in PostProcessed THEN at' = "pp" /\ UNCHANGED <<step, ph>> ELSE NextStep

\* `if [ -d ${DIR} ]`: only post-processing, or the copy and the generator.
Enter ==
  /\ at = "enter"
  /\ dir' = dir \cup {step}
  /\ IF step \in dir \ Always
     THEN AfterBatches
     ELSE at' = "gen" /\ UNCHANGED <<step, ph>>
  /\ UNCHANGED <<rep, txt>>

\* gen_s2 of steps 1, 5 and 6 reads the reports of the first phase.
S2Raises == step \in {1, 5, 6} /\ ph = 2 /\ Missing(step, 1)

\* Steps 8 to 10 open the list of entering orders of every set, and the reports on its lines.
EnteringRaises ==
  /\ step \in 8 .. 10 /\ ~NoSets
  /\ txt["edge_todo"] = "none" \/ (txt["edge_todo"] # "empty" /\ Missing(7, 1))

\* Steps 9 and 10 read the reports on leaving orders, step 10 also the set covers.
LeavingRaises == step \in 9 .. 10 /\ ~NoSets /\ Missing(8, 1)

SetCoverRaises == step = 10 /\ ~NoSets /\ Missing(8, 2)

\* Whether a generator can raise: an assert, read_csv or open of something that is not
\* there, or a line cut short.
GenRaises ==
  IF step = 11 /\ txt["max_covered"] = "torn" THEN BOOLEAN
  ELSE {S2Raises \/ EnteringRaises \/ LeavingRaises \/ SetCoverRaises
        \/ (step = 11 /\ txt["max_covered"] = "none")}

\* The lists gen (first phase) and gen_s2 (second phase) leave for later scripts, in the
\* order they are written.  Steps 7 and 8 write a list per set: "torn" is some line of
\* one of them, "empty" none at all, "none" that a set has no list.
Lists ==
  CASE step \in 7 .. 8 /\ NoSets -> <<>>
    [] step = 3 -> <<"potential_subset">>
    [] step = 4 /\ ph = 2 -> <<"whb_todo">>
    [] step = 5 /\ ph = 2 -> <<"max_cycle", "max_covered">>
    [] step = 6 /\ ph = 1 -> <<"check_e">>
    [] step = 7 -> <<"edge_todo">>
    [] step = 8 -> <<"final_edge_todo">>
    [] step = 10 -> <<"follower_set">>
    [] OTHER -> <<>>

\* Steps whose lists are opened when everything else is done; in the others a list grows
\* with the property files.
ListLast == {4, 5, 6, 10}

\* Phases one run of the generator makes property files for: step 8 makes both.
Generated == IF step = 8 THEN Phase ELSE {ph} \cap (1 .. Phases(step))

\* What the generator leaves: property files, or none to prove.  Step 7 makes the
\* directory of its property files inside the loop over the sets.
Fresh(s, p) ==
  IF rep[s][p] # "none" THEN {rep[s][p]}
  ELSE IF s = 7 /\ NoSets THEN {"none"}
  ELSE IF NoSets /\ <<s, p>> \in PerSet THEN {"full"}
  ELSE IF <<s, p>> \in NeverVoid THEN {"ready"} ELSE {"ready", "full"}

ToBatch == IF step = 10 THEN NextStep ELSE at' = "batch" /\ UNCHANGED <<step, ph>>

\* Step 6 makes its output directory before it asks for the cycle counts.
GenQuietly ==
  IF step = 6 /\ There(Imports(6))
  THEN rep' = [rep EXCEPT ![6][ph] = "full"] ELSE UNCHANGED rep

QuietGen == ~There(Imports(step)) \/ (step = 6 /\ txt["max_cycle"] = "none")

\* Property files left by a cut: only steps 2 and 8 run their batches again.
Lost == IF step \in Always THEN "ready" ELSE "cut"

\* The property files of a generator that ends, and of one that does not.
AllFiles == {new \in [Phase -> Reports] : \A p \in Phase :
               IF p \in Generated THEN new[p] \in Fresh(step, p) ELSE new[p] = rep[step][p]}
SomeFiles == {new \in [Phase -> Reports] : \A p \in Phase :
                \/ new[p] = rep[step][p]
                \/ p \in Generated /\ "ready" \in Fresh(step, p) /\ new[p] = Lost}

\* How a list can be left.  Step 8 writes its lists anew in every start, before they are
\* read, and no script reads the one of step 10; the last list of step 5 is told apart
\* from a whole one only.
Left(f) ==
  CASE f \in {"final_edge_todo", "follower_set"} -> {"good"}
    [] f = "max_covered" -> {"torn", "good"}
    [] OTHER -> {"empty", "torn", "good"}

\* The lists up to k are there, and the last of them may be cut.
ListsUpTo(k, last) ==
  [f \in File |-> IF f \notin Range(SubSeq(Lists, 1, k)) THEN txt[f]
                  ELSE IF f = Lists[k] THEN last ELSE "good"]
SomeLists ==
  {txt} \cup UNION {{ListsUpTo(k, last) : last \in Left(Lists[k])} : k \in DOMAIN Lists}

\* What a generator leaves that raises, and one that is cut.
RaisedGen ==
  \E new \in SomeFiles :
    /\ rep' = [rep EXCEPT ![step] = new]
    /\ txt' \in (IF step \in ListLast THEN {txt} ELSE SomeLists)
CutGen ==
  \/ RaisedGen
  \/ /\ FALSE \in GenRaises
     /\ \E new \in AllFiles :
          rep' = [rep EXCEPT ![step] =
                    [p \in Phase |-> IF new[p] = "ready" THEN Lost ELSE new[p]]]
     /\ txt' \in SomeLists

Gen ==
  /\ at = "gen"
  /\ UNCHANGED dir
  /\ IF QuietGen THEN GenQuietly /\ ToBatch /\ UNCHANGED txt
     ELSE \E raises \in GenRaises :
            IF raises THEN RaisedGen /\ Down
            ELSE /\ \E new \in AllFiles : rep' = [rep EXCEPT ![step] = new]
                 /\ txt' = ListsUpTo(Len(Lists), "good")
                 /\ ToBatch

\* What a batch can make of a phase (module BatchRun): a job that was claimed and left
\* no report is not started again.
Outcome(r) == IF r = "ready" THEN {"full", "cut"} ELSE {r}

\* The batch runner; os.listdir raises where the generator made no directory.
Batch ==
  /\ at = "batch"
  /\ UNCHANGED <<dir, txt>>
  /\ IF rep[step][ph] = "none" THEN Down /\ UNCHANGED rep
     ELSE /\ \E r \in Outcome(rep[step][ph]) : rep' = [rep EXCEPT ![step][ph] = r]
          /\ IF ph = Phases(step) THEN AfterBatches
             ELSE /\ ph' = ph + 1 /\ at' = (IF step = 8 THEN "batch" ELSE "gen")
                  /\ UNCHANGED step

\* A reader of the reports of phase p raises: reports are missing, or nothing was ever
\* generated although there was something to prove.
Lacks(p) ==
  CASE rep[step][p] = "full" -> {FALSE}
    [] rep[step][p] = "none" -> BOOLEAN
    [] OTHER -> {TRUE}

\* pp leaves early with status 0, and so does stats.
QuietPP ==
  \/ ~There(Imports(step))
  \/ step = 3 /\ txt["potential_subset"] = "none"
  \/ step = 4 /\ txt["whb_todo"] = "none"
  \/ step \in {5, 6} /\ txt["max_cycle"] = "none"

\* Mutant: stats of step 4 passes over a missing report, as its pp does.
StatsPassesOver ==
  CASE step = 2 -> {Missing(2, 1)}
    [] step = 3 -> {Missing(3, 1) /\ txt["potential_subset"] # "empty"}
    [] step = 5 -> IF txt["max_cycle"] = "torn" THEN BOOLEAN ELSE {txt["max_cycle"] = "empty"}
    [] step = 6 -> IF txt["check_e"] = "empty" THEN {FALSE}
                   ELSE {txt["check_e"] # "good" \/ Missing(6, 1) \/ l : l \in Lacks(2)}
    [] step = 11 -> IF txt["max_covered"] = "torn" THEN {TRUE} \cup Lacks(1)
                    ELSE {txt["max_covered"] = "none" \/ l : l \in Lacks(1)}
    [] OTHER -> {FALSE}

\* Whether pp, or stats after it, can raise.  A list without a line asks for no report.
\* Step 5 looks every PL up; a number cut short may still be one.
PPRaises ==
  CASE step = 2 -> {Missing(2, 1)}
    [] step = 3 -> {Missing(3, 1) /\ txt["potential_subset"] # "empty"}
    [] step = 4 -> {Missing(4, 2) /\ txt["whb_todo"] # "empty"}
    [] step = 5 -> IF txt["max_cycle"] = "torn" THEN BOOLEAN ELSE {txt["max_cycle"] = "empty"}
    [] step = 6 -> IF txt["check_e"] = "empty" THEN {FALSE}
                   ELSE {txt["check_e"] # "good" \/ Missing(6, 1) \/ l : l \in Lacks(2)}
    [] step = 11 -> IF txt["max_covered"] = "torn" THEN {TRUE} \cup Lacks(1)
                    ELSE {txt["max_covered"] = "none" \/ l : l \in Lacks(1)}
    [] OTHER -> {FALSE}

\* Results pp writes before stats has a chance to raise.
Results ==
  CASE step = 1 -> IF Missing(1, 1) THEN {} ELSE {"cover_individual"}
    [] step = 3 -> {"reachable_set"}
    [] step = 4 -> {"hb"}
    [] OTHER -> {}

\* Results of the steps whose pp itself raises.  In step 5 check_file leaves before the
\* end where a report is missing, or was never asked for because a PL was counted as 0.
ResultsIfRead ==
  CASE step = 2 -> {{"pairs"}}
    [] step = 5 -> {{}} \cup (IF Missing(5, 2) THEN {} ELSE {{"gt1"}})
    [] step = 6 -> {{"leaving"}}
    [] step = 11 -> {{"res"}}
    [] OTHER -> {{}}

Written == IF step = 3 THEN txt["potential_subset"] ELSE "good"

\* pp and stats.
PP ==
  /\ at = "pp"
  /\ UNCHANGED <<dir, rep>>
  /\ IF QuietPP THEN NextStep /\ UNCHANGED txt
     ELSE \E raises \in PPRaises, read \in ResultsIfRead :
            /\ txt' = [f \in File |-> IF f \in Results \/ (f \in read /\ ~raises)
                                      THEN Written ELSE txt[f]]
            /\ IF raises THEN Down ELSE NextStep

\* What is left of a batch that was running.
CutBatch ==
  /\ \E r \in {Lost, "cut", "full"} : rep' = [rep EXCEPT ![step][ph] = r]
  /\ UNCHANGED txt

\* The script and its children end at any point.
Crash ==
  /\ at \notin {"down", "end"}
  /\ IF at = "gen" /\ ~QuietGen THEN CutGen
     ELSE IF at = "batch" /\ rep[step][ph] = "ready" THEN CutBatch
     ELSE UNCHANGED <<rep, txt>>
  /\ Down
  /\ UNCHANGED dir

Next == Start \/ Enter \/ Gen \/ Batch \/ PP \/ Crash

Spec == Init /\ [][Next]_vars

-----------------------------------------------------------------------------
\* Phases whose reports no script insists on before the end of run_an_instn_demo.sh.
Unread == {<<1, 2>>, <<4, 1>>, <<8, 1>>, <<8, 2>>, <<9, 1>>}

\* The list through which later scripts know of a phase's property files was opened and
\* never filled, so that it says there are none.
Forgotten(s, p) ==
  CASE <<s, p>> = <<3, 1>> -> txt["potential_subset"] = "empty"
    [] <<s, p>> = <<4, 2>> -> txt["whb_todo"] = "empty"
    [] <<s, p>> = <<6, 1>> -> txt["check_e"] = "empty"
    [] <<s, p>> = <<7, 1>> -> txt["edge_todo"] = "empty"
    [] OTHER -> FALSE

\* When the script reaches its end, after any number of cuts, of batches that left jobs
\* without a report and of restarts that skipped steps, every property file of every
\* other phase has its report, unless the list that names the property files was left
\* empty: each other way past a hole is blocked by a script that raises on it, or by one
\* of the two steps that are never skipped.  A list with some of its lines hides nothing.
FinishedReports ==
  at = "end" =>
    \A s \in Step : \A p \in Phase :
      <<s, p>> \in Unread \/ Forgotten(s, p) \/ rep[s][p] \notin {"ready", "cut"}

\* When the script reaches its end, every intermediate result is there, although a step
\* that misses one leaves with status 0 and each restart skips one step more: step 8,
\* never skipped, asks for all of them again.  (Two exceptions: nothing needs the decisions
\* of step 10, and an interrupted step 3 can leave an empty list of sets, which every
\* later step takes for a finished one: then there are no lists per set.)
FinishedFiles ==
  at = "end" =>
    /\ There(File \ {"edge_todo", "final_edge_todo", "follower_set"})
    /\ NoSets \/ There({"edge_todo", "final_edge_todo"})

\* Steps 7 to 10 take the leaving orders as optional, but an entering order is never
\* generated without them: what keeps step 6 from writing them keeps step 7 from running.
LeavingBeforeOrders == txt["edge_todo"] # "none" => There({"leaving", "hb", "gt1"})
=============================================================================
