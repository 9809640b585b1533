---------------------------- MODULE HBProofs -------------------------------
(***************************************************************************)
(* The files of steps 4 and 6 are true of the design and lose no order     *)
(* silently: for any PLs, any horizon, any design and data flow graph, and *)
(* any time-outs and lost reports.  For step 6 an instruction occupies a   *)
(* PL in one stay, which its templates take for granted.                   *)
(***************************************************************************)
EXTENDS HBLeave, TLAPS, WellFoundedInduction

\* A nonempty set of cycles has a first one.
LEMMA FirstCycle ==
  ASSUME NEW S, S \subseteq 1..T, S # {}
  PROVE  \E n \in S : \A m \in S : n <= m
PROOF
<1>1. S \subseteq Nat
  BY HorizonAssumption
<1>2. PICK n \in S : \A m \in S : ~ (<<m, n>> \in OpToRel(<, Nat))
  BY <1>1, NatLessThanWellFounded, WFMin, Zenon
<1>3. \A m \in S : ~ (m < n)
  BY <1>1, <1>2, Zenon DEF OpToRel
<1> QED BY <1>1, <1>3

\* In an execution that visits s, First is the cycle of the first visit, which is
\* what the registers of the templates call an entry.
LEMMA FirstIsEntry ==
  ASSUME NEW t \in Trace, NEW s \in Visited(t)
  PROVE  /\ First(t, s) \in 1..T /\ s \in t[First(t, s)]
         /\ \A m \in 1..T : s \in t[m] => First(t, s) <= m
         /\ Enter(t, s, First(t, s))
PROOF
<1> DEFINE S == {n \in 1..T : s \in t[n]}
<1>1. \E n \in S : \A m \in S : n <= m
  <2>1. S # {}
    BY DEF Visited
  <2> QED BY <2>1, FirstCycle, Zenon
<1>2. \E n \in 1..T : s \in t[n] /\ \A m \in 1..T : s \in t[m] => n <= m
  BY <1>1
<1>3. /\ First(t, s) \in 1..T /\ s \in t[First(t, s)]
      /\ \A m \in 1..T : s \in t[m] => First(t, s) <= m
  BY <1>2 DEF First
<1>4. ~hpn(t, s, First(t, s))
  BY <1>3, HorizonAssumption DEF hpn
<1> QED BY <1>3, <1>4 DEF Enter

\* What a proof of each assertion says about the first visits.
LEMMA AssertionsOrder ==
  ASSUME NEW t \in Trace, NEW s1 \in Visited(t), NEW s2 \in Visited(t)
  PROVE  /\ HB(t, s1, s2) => First(t, s1) < First(t, s2)
         /\ WHB(t, s1, s2) => First(t, s1) <= First(t, s2)
         /\ WHB_CONCUR(t, s1, s2) => First(t, s1) = First(t, s2)
PROOF
<1> DEFINE n == First(t, s1)
           m == First(t, s2)
<1>1. n \in 1..T /\ Enter(t, s1, n)
  BY FirstIsEntry
<1>2. m \in 1..T /\ s2 \in t[m] /\ \A k \in 1..T : s2 \in t[k] => m <= k
  BY FirstIsEntry
<1> HIDE DEF n, m
<1>3. ASSUME ~hpn(t, s2, n)
      PROVE  n <= m
  BY <1>1, <1>2, <1>3, HorizonAssumption DEF hpn
<1>4. HB(t, s1, s2) => n < m
  <2> HAVE HB(t, s1, s2)
  <2>1. ~hpn(t, s2, n) /\ s2 \notin t[n]
    BY <1>1 DEF HB
  <2> QED BY <2>1, <1>1, <1>2, <1>3, HorizonAssumption
<1>5. WHB(t, s1, s2) => n <= m
  BY <1>1, <1>3 DEF WHB
<1>6. WHB_CONCUR(t, s1, s2) => n = m
  <2> HAVE WHB_CONCUR(t, s1, s2)
  <2>1. ~hpn(t, s2, n) /\ s2 \in t[n]
    BY <1>1 DEF WHB_CONCUR, Enter
  <2> QED BY <2>1, <1>1, <1>2, <1>3, HorizonAssumption
<1> QED BY <1>4, <1>5, <1>6 DEF n, m

-----------------------------------------------------------------------------
\* A report that is there is right about the design or says that it does not know;
\* the files alone do not say so, and pp reads them back from the reports.
ReportsTrue ==
  \A p \in DOMAIN report :
    /\ report[p] \in {"proven", "cex", "undetermined"}
    /\ report[p] = "proven" => Holds(p)
    /\ report[p] = "cex" => ~Holds(p)

Inv == /\ exec \subseteq Trace /\ edge \subseteq PL \X PL
       /\ ReportsTrue /\ EnterSound /\ NoSilentLoss

LEMMA InitInv == EnterInit => Inv
PROOF
<1> SUFFICES ASSUME EnterInit PROVE Inv
  OBVIOUS
<1>1. exec \subseteq Trace /\ edge \subseteq PL \X PL
  BY DesignAssumption, DfgAssumption DEF EnterInit
<1>2. ReportsTrue
  BY DEF EnterInit, ReportsTrue
<1>3. EnterSound
  BY DEF EnterInit, EnterSound
<1>4. NoSilentLoss
  BY DEF EnterInit, NoSilentLoss
<1> QED BY <1>1, <1>2, <1>3, <1>4 DEF Inv

\* Every file that pp writes is true of the design.
LEMMA EdgesTrue ==
  ASSUME Inv, NEW kind \in {"HB", "WHB", "WHB_CONCUR"}, NEW e \in EdgesWith(kind, "proven")
  PROVE  Holds(<<kind, e>>)
PROOF
<1>1. get_result(<<kind, e>>) = "proven"
  BY DEF EdgesWith
<1>2. <<kind, e>> \in DOMAIN report /\ report[<<kind, e>>] = "proven"
  BY <1>1 DEF get_result
<1> QED BY <1>2 DEF Inv, ReportsTrue

LEMMA HBEdge ==
  ASSUME Inv, NEW t \in exec, NEW e \in EdgesWith("HB", "proven"), Together(t, e)
  PROVE  First(t, e[1]) < First(t, e[2])
PROOF
<1>1. HB(t, e[1], e[2])
  <2>1. Holds(<<"HB", e>>)
    BY EdgesTrue
  <2> QED BY <2>1 DEF Holds
<1>2. t \in Trace /\ e[1] \in Visited(t) /\ e[2] \in Visited(t)
  BY DEF Inv, Together
<1> QED BY <1>1, <1>2, AssertionsOrder

LEMMA WHBEdge ==
  ASSUME Inv, NEW t \in exec, NEW e \in whb_, Together(t, e)
  PROVE  First(t, e[1]) <= First(t, e[2])
PROOF
<1>1. WHB(t, e[1], e[2])
  <2>1. Holds(<<"WHB", e>>)
    BY EdgesTrue DEF whb_
  <2> QED BY <2>1 DEF Holds
<1>2. t \in Trace /\ e[1] \in Visited(t) /\ e[2] \in Visited(t)
  BY DEF Inv, Together
<1> QED BY <1>1, <1>2, AssertionsOrder

\* The inference of pp: two one-sided proofs make an edge concurrent.
LEMMA ConcurrentEdge ==
  ASSUME Inv, NEW t \in exec, NEW e \in at_the_same_time, Together(t, e)
  PROVE  First(t, e[1]) = First(t, e[2])
PROOF
<1>0. t \in Trace /\ e[1] \in Visited(t) /\ e[2] \in Visited(t)
  BY DEF Inv, Together
<1>1. CASE e \in whb_ /\ Rev(e) \in whb_
  <2>1. First(t, e[1]) <= First(t, e[2])
    BY <1>1, WHBEdge
  <2>2. Together(t, Rev(e)) /\ Rev(e)[1] = e[2] /\ Rev(e)[2] = e[1]
    BY DEF Together, Rev
  <2>3. First(t, e[2]) <= First(t, e[1])
    BY <1>1, <2>2, WHBEdge
  <2>4. First(t, e[1]) \in 1..T /\ First(t, e[2]) \in 1..T
    BY <1>0, FirstIsEntry
  <2> QED BY <2>1, <2>3, <2>4, HorizonAssumption
<1>2. CASE e \in EdgesWith("WHB_CONCUR", "proven")
  <2>1. Holds(<<"WHB_CONCUR", e>>)
    BY <1>2, EdgesTrue
  <2>2. WHB_CONCUR(t, e[1], e[2])
    BY <2>1 DEF Holds
  <2> QED BY <2>2, <1>0, AssertionsOrder
<1> QED BY <1>1, <1>2 DEF at_the_same_time, mutual_whb

\* An execution that refutes WHB enters s2 first.
LEMMA RefutedOrder ==
  ASSUME NEW t \in Trace, NEW s1 \in PL, NEW s2 \in PL, ~WHB(t, s1, s2)
  PROVE  {s1, s2} \subseteq Visited(t) /\ First(t, s2) < First(t, s1)
PROOF
<1>1. PICK n \in 1..T : Enter(t, s1, n) /\ hpn(t, s2, n)
  BY DEF WHB
<1>2. PICK m \in 1 .. n - 1 : s2 \in t[m]
  BY <1>1 DEF hpn
<1>3. m \in 1..T /\ m < n
  BY HorizonAssumption
<1>4. s1 \in Visited(t) /\ s2 \in Visited(t)
  BY <1>1, <1>2, <1>3 DEF Visited, Enter
<1>5. First(t, s2) \in 1..T /\ First(t, s2) <= m
  BY <1>2, <1>3, <1>4, FirstIsEntry
<1>6. First(t, s1) \in 1..T /\ s1 \in t[First(t, s1)]
  BY <1>4, FirstIsEntry
<1>7. n <= First(t, s1)
  BY <1>1, <1>6, HorizonAssumption DEF Enter, hpn
<1> QED BY <1>3, <1>4, <1>5, <1>6, <1>7, HorizonAssumption

\* An edge whose reports are there, and which is in no file after pp, was refuted
\* by HB and by WHB.
LEMMA UnlistedIsRefuted ==
  ASSUME Inv, pp, NEW e \in Asked, Reported(e), ~Listed(e)'
  PROVE  ~Holds(<<"WHB", e>>)
PROOF
<1>1. /\ hb_proven' = EdgesWith("HB", "proven")
      /\ undetermined_hb' = EdgesWith("HB", "undetermined")
      /\ undetermined_whb' = EdgesWith("WHB", "undetermined")
      /\ whb_ \subseteq whb_proven' \cup aws_concurrent'
  BY DEF pp
<1>2. /\ e \notin EdgesWith("HB", "proven") /\ e \notin EdgesWith("HB", "undetermined")
      /\ e \notin EdgesWith("WHB", "undetermined") /\ e \notin whb_
  BY <1>1 DEF Listed
<1>3. <<"HB", e>> \in DOMAIN report /\ report[<<"HB", e>>] = "cex"
  <2>1. <<"HB", e>> \in DOMAIN report
    BY DEF Reported
  <2>2. report[<<"HB", e>>] # "proven" /\ report[<<"HB", e>>] # "undetermined"
    BY <1>2, <2>1 DEF EdgesWith, get_result
  <2> QED BY <2>1, <2>2 DEF Inv, ReportsTrue
<1>4. <<"WHB", e>> \in DOMAIN report
  BY <1>3 DEF Reported
<1>5. report[<<"WHB", e>>] # "proven" /\ report[<<"WHB", e>>] # "undetermined"
  BY <1>2, <1>3, <1>4 DEF EdgesWith, whb_, get_result
<1> QED BY <1>4, <1>5 DEF Inv, ReportsTrue

-----------------------------------------------------------------------------
\* A batch adds verdicts that are true of the design, or none.
LEMMA ProveKeepsInv ==
  ASSUME Inv, NEW from, NEW to, to # "entered", prove(from, to)
  PROVE  Inv'
PROOF
<1>1. exec' = exec /\ edge' = edge /\ results' = results
  BY DEF prove, inputs
<1>2. \A p : Holds(p)' <=> Holds(p)
  BY <1>1 DEF Holds
<1>3. PICK bad \in Hit(out) : \E lost \in SUBSET bad :
         report' = [p \in DOMAIN report \cup (out \ lost) |->
                      IF p \in DOMAIN report THEN report[p]
                      ELSE IF p \in bad THEN "undetermined" ELSE Verdict(p)]
  BY DEF prove
<1>4. PICK lost \in SUBSET bad :
         report' = [p \in DOMAIN report \cup (out \ lost) |->
                      IF p \in DOMAIN report THEN report[p]
                      ELSE IF p \in bad THEN "undetermined" ELSE Verdict(p)]
  BY <1>3
<1>5. ReportsTrue'
  <2> SUFFICES ASSUME NEW p \in DOMAIN report'
               PROVE  /\ report'[p] \in {"proven", "cex", "undetermined"}
                      /\ report'[p] = "proven" => Holds(p)
                      /\ report'[p] = "cex" => ~Holds(p)
    BY <1>2 DEF ReportsTrue
  <2>1. CASE p \in DOMAIN report
    BY <2>1, <1>4 DEF Inv, ReportsTrue
  <2>2. CASE p \notin DOMAIN report
    <3>1. report'[p] = "undetermined" \/ report'[p] = Verdict(p)
      BY <2>2, <1>4, Zenon
    <3> QED BY <3>1 DEF Verdict
  <2> QED BY <2>1, <2>2
<1>6. EnterSound'
  BY <1>1 DEF Inv, EnterSound, results, Together, First, Visited
<1>7. NoSilentLoss'
  BY DEF prove, NoSilentLoss
<1> QED BY <1>1, <1>5, <1>6, <1>7 DEF Inv

LEMMA NextInv == Inv /\ [EnterNext]_enterVars => Inv'
PROOF
<1> SUFFICES ASSUME Inv, [EnterNext]_enterVars PROVE Inv'
  OBVIOUS
<1>1. CASE gen \/ gen_s2
  <2>1. /\ UNCHANGED <<exec, edge, report, hb_proven, whb_proven, aws_concurrent>>
        /\ pc' # "entered"
    BY <1>1 DEF gen, gen_s2, inputs, results
  <2> QED BY <2>1, Zenon DEF Inv, ReportsTrue, Holds, EnterSound, NoSilentLoss
<1>2. CASE prove("prove", "gen_s2")
  BY <1>2, ProveKeepsInv
<1>3. CASE prove("prove_s2", "pp")
  BY <1>3, ProveKeepsInv
<1>4. CASE pp
  <2>1. UNCHANGED <<exec, edge, report>>
    BY <1>4 DEF pp, inputs
  <2>2. /\ hb_proven' = EdgesWith("HB", "proven")
        /\ whb_proven' = whb_ \ at_the_same_time
        /\ aws_concurrent' = at_the_same_time
    BY <1>4 DEF pp
  <2>3. EnterSound'
    <3> SUFFICES ASSUME NEW t \in exec
        PROVE /\ \A e \in hb_proven' : Together(t, e) => First(t, e[1]) < First(t, e[2])
              /\ \A e \in whb_proven' : Together(t, e) => First(t, e[1]) <= First(t, e[2])
              /\ \A e \in aws_concurrent' : Together(t, e) => First(t, e[1]) = First(t, e[2])
      BY <2>1 DEF EnterSound
    <3>1. \A e \in hb_proven' : Together(t, e) => First(t, e[1]) < First(t, e[2])
      BY <2>2, HBEdge
    <3>2. \A e \in whb_proven' : Together(t, e) => First(t, e[1]) <= First(t, e[2])
      BY <2>2, WHBEdge
    <3>3. \A e \in aws_concurrent' : Together(t, e) => First(t, e[1]) = First(t, e[2])
      BY <2>2, ConcurrentEdge
    <3> QED BY <3>1, <3>2, <3>3
  <2>4. NoSilentLoss'
    <3>1. Asked' = Asked /\ \A e : Reported(e)' <=> Reported(e)
      BY <1>4 DEF pp, inputs, Asked, in_aset, Reported
    <3> SUFFICES ASSUME NEW e \in Asked, Reported(e), ~Listed(e)'
                 PROVE  \E t \in exec : Together(t, e) /\ First(t, e[2]) < First(t, e[1])
      BY <2>1, <3>1 DEF NoSilentLoss
    <3>2. ~Holds(<<"WHB", e>>)
      BY <1>4, UnlistedIsRefuted
    <3>3. PICK t \in exec : ~WHB(t, e[1], e[2])
      BY <3>2 DEF Holds
    <3>4. t \in Trace
      BY DEF Inv
    <3>5. e[1] \in PL /\ e[2] \in PL
      BY DEF Inv, Asked
    <3> QED BY <3>3, <3>4, <3>5, RefutedOrder DEF Together
  <2> QED BY <2>1, <2>3, <2>4, Zenon DEF Inv, ReportsTrue, Holds
<1>6. CASE UNCHANGED enterVars
  BY <1>6, Zenon DEF enterVars, inputs, results, Inv, ReportsTrue, Holds, EnterSound, NoSilentLoss,
              Asked, in_aset, Reported, Listed
<1> QED BY <1>1, <1>2, <1>3, <1>4, <1>6 DEF EnterNext

\* Soundness of hb_proven.txt, whb_proven.txt and aws_concurrent.txt for every design
\* and every pattern of time-outs and lost reports: pp of xHBPerf_dfg_v3.py writes no
\* order that some execution breaks.
THEOREM EnterSoundHolds == Spec => []EnterSound
PROOF
<1>1. Inv => EnterSound
  BY DEF Inv
<1> QED BY <1>1, InitInv, NextInv, PTL DEF Spec

\* Completeness of the files of step 4: an edge whose reports are all there and which
\* pp puts into no file is entered against its direction by some execution.
THEOREM NoSilentLossHolds == Spec => []NoSilentLoss
PROOF
<1>1. Inv => NoSilentLoss
  BY DEF Inv
<1> QED BY <1>1, InitInv, NextInv, PTL DEF Spec

-----------------------------------------------------------------------------
(***************************************************************************)
(* Step 6, for designs in which an execution occupies a PL in one stay.    *)
(***************************************************************************)

\* A nonempty set of cycles has a last one.
LEMMA LastCycle ==
  ASSUME NEW S, S \subseteq 1..T, S # {}
  PROVE  \E n \in S : \A m \in S : m <= n
PROOF
<1> DEFINE R == {k \in 1..T : T + 1 - k \in S}
<1>1. \A n \in S : n \in 1..T /\ T + 1 - n \in 1..T /\ T + 1 - (T + 1 - n) = n
  BY HorizonAssumption
<1>2. \A n \in S : T + 1 - n \in R
  BY <1>1
<1>3. PICK k \in R : \A j \in R : k <= j
  <2>1. R # {} /\ R \subseteq 1..T
    BY <1>2, Zenon
  <2> HIDE DEF R
  <2> QED BY <2>1, FirstCycle, Zenon
<1>4. \A m \in S : m <= T + 1 - k
  <2> SUFFICES ASSUME NEW m \in S PROVE m <= T + 1 - k
    OBVIOUS
  <2>1. k <= T + 1 - m
    BY <1>2, <1>3
  <2> QED BY <1>1, <2>1, HorizonAssumption
<1> QED BY <1>3, <1>4, Zenon

LEMMA FinalIsLast ==
  ASSUME NEW t \in Trace, NEW s \in Visited(t)
  PROVE  /\ Final(t, s) \in 1..T /\ s \in t[Final(t, s)]
         /\ \A m \in 1..T : s \in t[m] => m <= Final(t, s)
PROOF
<1> DEFINE S == {n \in 1..T : s \in t[n]}
<1>1. \E n \in S : \A m \in S : m <= n
  <2>1. S # {}
    BY DEF Visited
  <2> QED BY <2>1, LastCycle, Zenon
<1>2. \E n \in 1..T : s \in t[n] /\ \A m \in 1..T : s \in t[m] => m <= n
  BY <1>1
<1> QED BY <1>2 DEF Final

\* What the registers and antecedents of the templates are for a single stay that
\* is entered at cycle i and has its final cycle at f.
StayAt(t, s, i, f, n) ==
  /\ s \in t[n] <=> i <= n /\ n <= f
  /\ hpn(t, s, n) <=> i < n
  /\ Enter(t, s, n) <=> n = i
  /\ Seen(t, s, n) <=> i <= n
  /\ Left(t, s, n) <=> i < f /\ n = f + 1
  /\ PastNew(t, s, n) <=> n = i \/ (n = i + 1 /\ i < f)
StayOf(t, s, i, f) ==
  /\ i = First(t, s) /\ f = Final(t, s)
  /\ i \in 2..T /\ f \in i .. T - 1
  /\ \A n \in 1..T : StayAt(t, s, i, f, n)
  /\ S2_STAY_AT_LEAST_TWO(t, s) <=> i < f

LEMMA Stay ==
  ASSUME NEW t \in Trace, NEW s \in Visited(t), OneStay(t, s)
  PROVE  StayOf(t, s, First(t, s), Final(t, s))
PROOF
<1> DEFINE i == First(t, s)
           f == Final(t, s)
<1>1. /\ i \in 1..T /\ s \in t[i] /\ \A m \in 1..T : s \in t[m] => i <= m
  BY FirstIsEntry
<1>2. /\ f \in 1..T /\ \A m \in 1..T : s \in t[m] => m <= f
  BY FinalIsLast
<1>3. i >= 2 /\ f < T /\ \A n \in i .. f : s \in t[n]
  BY DEF OneStay
<1> USE HorizonAssumption
<1> HIDE DEF i, f
<1>4. i <= f
  BY <1>1, <1>2
<1>5. \A n \in 1..T : s \in t[n] <=> i <= n /\ n <= f
  BY <1>1, <1>2, <1>3
<1>6. \A n \in 1..T : hpn(t, s, n) <=> i < n
  <2> SUFFICES ASSUME NEW n \in 1..T PROVE hpn(t, s, n) <=> i < n
    OBVIOUS
  <2>1. ASSUME i < n PROVE i \in 1 .. n - 1 /\ s \in t[i]
    BY <1>1, <2>1
  <2>2. ASSUME NEW m \in 1 .. n - 1, s \in t[m] PROVE i < n
    BY <1>1, <2>2
  <2> QED BY <2>1, <2>2 DEF hpn
<1>7. \A n \in 1..T : /\ Enter(t, s, n) <=> n = i
                      /\ Seen(t, s, n) <=> i <= n
  BY <1>1, <1>2, <1>4, <1>5, <1>6 DEF Enter, Seen
<1>8. \A n \in 1..T : Left(t, s, n) <=> i < f /\ n = f + 1
  BY <1>1, <1>2, <1>3, <1>4, <1>5 DEF Left
<1>9. \A n \in 1..T : PastNew(t, s, n) <=> n = i \/ (n = i + 1 /\ i < f)
  BY <1>1, <1>2, <1>3, <1>4, <1>5, <1>6 DEF PastNew
<1>10. S2_STAY_AT_LEAST_TWO(t, s) <=> i < f
  <2>1. ASSUME i < f PROVE i \in 1 .. T - 1 /\ s \in t[i] /\ s \in t[i+1]
    BY <1>1, <1>2, <1>3, <2>1
  <2>2. ASSUME NEW n \in 1 .. T - 1, s \in t[n], s \in t[n+1] PROVE i < f
    BY <1>1, <1>2, <2>2
  <2> QED BY <2>1, <2>2 DEF S2_STAY_AT_LEAST_TWO
<1>11. i \in 2..T /\ f \in i .. T - 1
  BY <1>1, <1>2, <1>3, <1>4
<1> QED BY <1>5, <1>6, <1>7, <1>8, <1>9, <1>10, <1>11 DEF StayOf, StayAt, i, f

-----------------------------------------------------------------------------
\* The three kinds of relations, and the template each is written with.
LEMMA Kinds ==
  ASSUME NEW r \in Relations
  PROVE  /\ r[2] \in PL /\ r[4] \in PL /\ Edge(r) = <<r[2], r[4]>>
         /\ \/ r[1] = 1 /\ r[3] = 0
            \/ r[1] = 0 /\ r[3] = 1
            \/ r[1] = 1 /\ r[3] = 1
PROOF
  BY DEF Relations, Edge

LEMMA Forms ==
  ASSUME NEW r \in Relations, NEW t
  PROVE  /\ r[1] = 1 /\ r[3] = 0 =>
              /\ Sva(<<"HB", r>>, t) = HB_LEAVING(t, r[2], r[4])
              /\ Sva(<<"WHB", r>>, t) = WHB_LEAVING(t, r[2], r[4])
              /\ Sva(<<"WHB_CONCUR", r>>, t) = CONCUR_LEAVING(t, r[2], r[4])
         /\ r[1] = 0 /\ r[3] = 1 =>
              /\ Sva(<<"HB", r>>, t) = HB_ENTER_LEAVING(t, r[2], r[4])
              /\ Sva(<<"WHB", r>>, t) = WHB_ENTER_LEAVING(t, r[2], r[4])
         /\ r[1] = 1 /\ r[3] = 1 =>
              /\ Sva(<<"HB", r>>, t) = HB_LEAVING_LEAVING(t, r[2], r[4])
              /\ Sva(<<"WHB", r>>, t) = WHB_LEAVING_LEAVING(t, r[2], r[4])
              /\ Sva(<<"WHB_CONCUR", r>>, t) = CONCUR_LEAVING_LEAVING(t, r[2], r[4])
         /\ r[1] = 1 => \A k \in {"HB", "WHB", "WHB_CONCUR"} :
                           Triggered(<<k, r>>, t) = LeftCovered(t, r[2], r[4])
         /\ r[1] = 0 => /\ Triggered(<<"HB", r>>, t) = EnterSeenCovered(t, r[2], r[4])
                        /\ Triggered(<<"WHB", r>>, t) = EnterHpnCovered(t, r[2], r[4])
PROOF
<1>1. CASE r[1] = 1 /\ r[3] = 0
  <2>1. Sva(<<"HB", r>>, t) = HB_LEAVING(t, r[2], r[4])
    BY <1>1 DEF Sva
  <2>2. Sva(<<"WHB", r>>, t) = WHB_LEAVING(t, r[2], r[4])
    BY <1>1 DEF Sva
  <2>3. Sva(<<"WHB_CONCUR", r>>, t) = CONCUR_LEAVING(t, r[2], r[4])
    BY <1>1 DEF Sva
  <2>4. Triggered(<<"HB", r>>, t) = LeftCovered(t, r[2], r[4])
    BY <1>1 DEF Triggered
  <2>5. Triggered(<<"WHB", r>>, t) = LeftCovered(t, r[2], r[4])
    BY <1>1 DEF Triggered
  <2>6. Triggered(<<"WHB_CONCUR", r>>, t) = LeftCovered(t, r[2], r[4])
    BY <1>1 DEF Triggered
  <2> QED BY <1>1, <2>1, <2>2, <2>3, <2>4, <2>5, <2>6
<1>2. CASE r[1] = 0 /\ r[3] = 1
  <2>1. Sva(<<"HB", r>>, t) = HB_ENTER_LEAVING(t, r[2], r[4])
    BY <1>2 DEF Sva
  <2>2. Sva(<<"WHB", r>>, t) = WHB_ENTER_LEAVING(t, r[2], r[4])
    BY <1>2 DEF Sva
  <2>3. Triggered(<<"HB", r>>, t) = EnterSeenCovered(t, r[2], r[4])
    BY <1>2 DEF Triggered
  <2>4. Triggered(<<"WHB", r>>, t) = EnterHpnCovered(t, r[2], r[4])
    BY <1>2 DEF Triggered
  <2> QED BY <1>2, <2>1, <2>2, <2>3, <2>4
<1>3. CASE r[1] = 1 /\ r[3] = 1
  <2>1. Sva(<<"HB", r>>, t) = HB_LEAVING_LEAVING(t, r[2], r[4])
    BY <1>3 DEF Sva
  <2>2. Sva(<<"WHB", r>>, t) = WHB_LEAVING_LEAVING(t, r[2], r[4])
    BY <1>3 DEF Sva
  <2>3. Sva(<<"WHB_CONCUR", r>>, t) = CONCUR_LEAVING_LEAVING(t, r[2], r[4])
    BY <1>3 DEF Sva
  <2>4. Triggered(<<"HB", r>>, t) = LeftCovered(t, r[2], r[4])
    BY <1>3 DEF Triggered
  <2>5. Triggered(<<"WHB", r>>, t) = LeftCovered(t, r[2], r[4])
    BY <1>3 DEF Triggered
  <2>6. Triggered(<<"WHB_CONCUR", r>>, t) = LeftCovered(t, r[2], r[4])
    BY <1>3 DEF Triggered
  <2> QED BY <1>3, <2>1, <2>2, <2>3, <2>4, <2>5, <2>6
<1> QED BY <1>1, <1>2, <1>3, Kinds, Zenon

\* What a proof of each assertion says about the two cycles.
LEMMA LeavingOrder ==
  ASSUME NEW t \in Trace, NEW r \in Relations, Speaks(t, r),
         OneStay(t, r[2]), OneStay(t, r[4])
  PROVE  /\ Sva(<<"HB", r>>, t) => Before(t, r)
         /\ Sva(<<"WHB", r>>, t) => NotAfter(t, r)
         /\ r[1] = 1 /\ Sva(<<"WHB_CONCUR", r>>, t) => SameCycle(t, r)
PROOF
<1> DEFINE s1 == r[2]
           s2 == r[4]
           i1 == First(t, s1)
           f1 == Final(t, s1)
           i2 == First(t, s2)
           f2 == Final(t, s2)
<1>1. s1 \in Visited(t) /\ s2 \in Visited(t)
  BY Kinds DEF Speaks, Together
<1>2. StayOf(t, s1, i1, f1) /\ StayOf(t, s2, i2, f2)
  BY <1>1, Stay
<1>3. /\ r[1] = 1 => S2_STAY_AT_LEAST_TWO(t, s1)
      /\ r[3] = 1 => S2_STAY_AT_LEAST_TWO(t, s2)
  BY Zenon DEF Speaks
<1>4. /\ Before(t, r) <=> (IF r[1] = 1 THEN f1 ELSE i1) < (IF r[3] = 1 THEN f2 ELSE i2)
      /\ NotAfter(t, r) <=> (IF r[1] = 1 THEN f1 ELSE i1) <= (IF r[3] = 1 THEN f2 ELSE i2)
      /\ SameCycle(t, r) <=> (IF r[1] = 1 THEN f1 ELSE i1) = (IF r[3] = 1 THEN f2 ELSE i2)
  BY Zenon DEF Before, NotAfter, SameCycle, Time
<1> HIDE DEF s1, s2, i1, f1, i2, f2
<1> USE HorizonAssumption
<1>5. /\ i1 \in 2..T /\ f1 \in i1 .. T - 1 /\ i2 \in 2..T /\ f2 \in i2 .. T - 1
      /\ f1 + 1 \in 1..T /\ f1 \in 1..T /\ (f1 + 1) - 1 = f1 /\ i1 \in 1 .. T - 1 /\ i1 \in 1..T
  BY <1>2 DEF StayOf, StayAt
<1>6. r[1] = 1 => Left(t, s1, f1 + 1) /\ i1 < f1
  BY <1>2, <1>3, <1>5, Zenon DEF StayOf, StayAt
<1>7. PastNew(t, s1, i1)
  BY <1>2, <1>5, Zenon DEF StayOf, StayAt
<1>8. CASE r[1] = 1 /\ r[3] = 0
  <2>1. HB_LEAVING(t, s1, s2) => f1 < i2
    BY <1>2, <1>5, <1>6, <1>8 DEF HB_LEAVING, StayOf, StayAt
  <2>2. WHB_LEAVING(t, s1, s2) => f1 <= i2
    BY <1>2, <1>5, <1>6, <1>8 DEF WHB_LEAVING, StayOf, StayAt
  <2>3. CONCUR_LEAVING(t, s1, s2) => f1 = i2
    BY <1>2, <1>5, <1>6, <1>8, Zenon DEF CONCUR_LEAVING, StayOf, StayAt
  <2> QED BY <1>4, <1>8, <2>1, <2>2, <2>3, Forms DEF s1, s2
<1>9. CASE r[1] = 0 /\ r[3] = 1
  <2>1. HB_ENTER_LEAVING(t, s1, s2) => i1 < f2
    BY <1>2, <1>5, <1>7 DEF HB_ENTER_LEAVING, StayOf, StayAt
  <2>2. WHB_ENTER_LEAVING(t, s1, s2) => i1 <= f2
    BY <1>2, <1>5, <1>7 DEF WHB_ENTER_LEAVING, StayOf, StayAt
  <2>3. (Before(t, r) <=> i1 < f2) /\ (NotAfter(t, r) <=> i1 <= f2) /\ r[1] # 1
    BY <1>4, <1>9
  <2>4. /\ Sva(<<"HB", r>>, t) = HB_ENTER_LEAVING(t, s1, s2)
        /\ Sva(<<"WHB", r>>, t) = WHB_ENTER_LEAVING(t, s1, s2)
    BY <1>9, Forms, Zenon DEF s1, s2
  <2> QED BY <2>1, <2>2, <2>3, <2>4, Zenon
<1>10. CASE r[1] = 1 /\ r[3] = 1
  <2>1. HB_LEAVING_LEAVING(t, s1, s2) => f1 < f2
    BY <1>2, <1>5, <1>6, <1>10 DEF HB_LEAVING_LEAVING, StayOf, StayAt, Staying
  <2>2. WHB_LEAVING_LEAVING(t, s1, s2) => f1 <= f2
    BY <1>2, <1>5, <1>6, <1>10 DEF WHB_LEAVING_LEAVING, StayOf, StayAt, Staying
  <2>3. CONCUR_LEAVING_LEAVING(t, s1, s2) => f1 = f2
    BY <1>2, <1>5, <1>6, <1>10 DEF CONCUR_LEAVING_LEAVING, StayOf, StayAt
  <2> QED BY <1>4, <1>10, <2>1, <2>2, <2>3, Forms DEF s1, s2
<1> QED BY <1>8, <1>9, <1>10, Kinds, Zenon

\* An execution that refutes WHB has the two cycles the other way round, or has the
\* entry of s1 in the final cycle of s2 with a stay in s1 that goes on.
LEMMA RefutedLeaving ==
  ASSUME NEW t \in Trace, NEW r \in Relations, \A s \in Visited(t) : OneStay(t, s),
         ~Sva(<<"WHB", r>>, t)
  PROVE  /\ Together(t, Edge(r))
         /\ \/ ~NotAfter(t, r) /\ (r[1] = 1 => S2_STAY_AT_LEAST_TWO(t, r[2]))
            \/ r[1] = 0 /\ SameCycle(t, r) /\ S2_STAY_AT_LEAST_TWO(t, r[2])
PROOF
<1> DEFINE s1 == r[2]
           s2 == r[4]
           i1 == First(t, s1)
           f1 == Final(t, s1)
           i2 == First(t, s2)
           f2 == Final(t, s2)
<1> USE HorizonAssumption
<1>1. PICK n \in 1..T :
         \/ r[1] = 1 /\ r[3] = 0 /\ Left(t, s1, n) /\ hpn(t, s2, n - 1)
         \/ r[1] = 0 /\ r[3] = 1 /\ PastNew(t, s1, n) /\ hpn(t, s2, n) /\ s2 \notin t[n]
         \/ r[1] = 1 /\ r[3] = 1 /\ Left(t, s1, n) /\ ~Staying(t, s2, n - 1)
  <2>1. CASE r[1] = 1 /\ r[3] = 0
    BY <2>1, Forms, Zenon DEF WHB_LEAVING
  <2>2. CASE r[1] = 0 /\ r[3] = 1
    BY <2>2, Forms, Zenon DEF WHB_ENTER_LEAVING
  <2>3. CASE r[1] = 1 /\ r[3] = 1
    BY <2>3, Forms, Zenon DEF WHB_LEAVING_LEAVING
  <2> QED BY <2>1, <2>2, <2>3, Kinds, Zenon
<1>2. s1 \in Visited(t) /\ s2 \in Visited(t)
  <2>1. Left(t, s1, n) \/ PastNew(t, s1, n)
    BY <1>1
  <2>2. \E m \in 1..T : s1 \in t[m]
    BY <2>1 DEF Left, PastNew
  <2>3. hpn(t, s2, n) \/ (n >= 2 /\ hpn(t, s2, n - 1))
    BY <1>1 DEF Left, Staying
  <2>4. \E m \in 1..T : s2 \in t[m]
    BY <2>3 DEF hpn
  <2> QED BY <2>2, <2>4, Kinds DEF Visited
<1>3. StayOf(t, s1, i1, f1) /\ StayOf(t, s2, i2, f2)
  BY <1>2, Stay
<1>4. /\ NotAfter(t, r) <=> (IF r[1] = 1 THEN f1 ELSE i1) <= (IF r[3] = 1 THEN f2 ELSE i2)
      /\ SameCycle(t, r) <=> (IF r[1] = 1 THEN f1 ELSE i1) = (IF r[3] = 1 THEN f2 ELSE i2)
  BY DEF NotAfter, SameCycle, Time
<1>5. Together(t, Edge(r))
  BY <1>2, Kinds DEF Together
<1> HIDE DEF s1, s2, i1, f1, i2, f2
<1>6. i1 \in 2..T /\ f1 \in i1 .. T - 1 /\ i2 \in 2..T /\ f2 \in i2 .. T - 1
  BY <1>3, Zenon DEF StayOf
<1>7. StayAt(t, s1, i1, f1, n) /\ StayAt(t, s2, i2, f2, n)
  BY <1>3, Zenon DEF StayOf
<1>8. CASE r[1] = 1 /\ r[3] = 0
  <2>1. i1 < f1 /\ n = f1 + 1
    BY <1>1, <1>8, <1>7 DEF StayAt
  <2>2. i2 < f1
    <3>1. hpn(t, s2, f1) /\ f1 \in 1..T
      BY <1>1, <1>6, <1>8, <2>1
    <3>2. StayAt(t, s2, i2, f2, f1)
      BY <1>3, <3>1, Zenon DEF StayOf
    <3> QED BY <3>1, <3>2, Zenon DEF StayAt
  <2>3. S2_STAY_AT_LEAST_TWO(t, s1)
    BY <1>3, <2>1, Zenon DEF StayOf
  <2> QED BY <1>4, <1>5, <1>6, <1>8, <2>2, <2>3 DEF s1
<1>9. CASE r[1] = 0 /\ r[3] = 1
  <2>1. f2 < n /\ (n = i1 \/ (n = i1 + 1 /\ i1 < f1))
    <3>1. n = i1 \/ (n = i1 + 1 /\ i1 < f1)
      BY <1>1, <1>9, <1>7 DEF StayAt
    <3>2. i2 < n /\ ~(i2 <= n /\ n <= f2)
      BY <1>1, <1>9, <1>7 DEF StayAt
    <3> QED BY <1>6, <3>1, <3>2
  <2>2. f2 < i1 \/ (f2 = i1 /\ S2_STAY_AT_LEAST_TWO(t, s1))
    <3>1. i1 < f1 => S2_STAY_AT_LEAST_TWO(t, s1)
      BY <1>3 DEF StayOf
    <3> QED BY <1>6, <2>1, <3>1
  <2>3. (NotAfter(t, r) <=> i1 <= f2) /\ (SameCycle(t, r) <=> i1 = f2)
    BY <1>4, <1>9
  <2> QED BY <1>5, <1>6, <1>9, <2>2, <2>3 DEF s1
<1>10. CASE r[1] = 1 /\ r[3] = 1
  <2>1. i1 < f1 /\ n = f1 + 1
    BY <1>1, <1>10, <1>7 DEF StayAt
  <2>2. f2 < f1
    <3>1. ~Staying(t, s2, n - 1)
      BY <1>1, <1>10
    <3>2. n - 1 = f1 /\ f1 \in 1..T
      BY <1>6, <2>1
    <3>3. StayAt(t, s2, i2, f2, f1)
      BY <1>3, <3>2, Zenon DEF StayOf
    <3>4. s2 \notin t[f1] /\ hpn(t, s2, f1)
      BY <3>1, <3>2, Zenon DEF Staying
    <3> QED BY <1>6, <3>3, <3>4 DEF StayAt
  <2>3. S2_STAY_AT_LEAST_TWO(t, s1)
    BY <1>3, <2>1 DEF StayOf
  <2> QED BY <1>4, <1>5, <1>6, <1>10, <2>2, <2>3 DEF s1
<1> QED BY <1>8, <1>9, <1>10, Kinds, Zenon

\* Where HB is refuted with a long stay in s2, the precondition of WHB is met.
LEMMA RefutedIsTriggered ==
  ASSUME NEW t \in Trace, NEW r \in Relations, \A s \in Visited(t) : OneStay(t, s),
         r[1] = 0, S2_STAY_AT_LEAST_TWO(t, r[4]), ~Sva(<<"HB", r>>, t)
  PROVE  Triggered(<<"WHB", r>>, t)
PROOF
<1> DEFINE s1 == r[2]
           s2 == r[4]
<1> USE HorizonAssumption
<1>1. PICK n \in 1 .. T - 1 : PastNew(t, s1, n) /\ Seen(t, s2, n) /\ s2 \notin t[n+1]
  BY Kinds, Forms, Zenon DEF HB_ENTER_LEAVING
<1>2. s2 \in Visited(t)
  BY Kinds DEF S2_STAY_AT_LEAST_TWO, Visited
<1>3. StayOf(t, s2, First(t, s2), Final(t, s2))
  BY <1>2, Stay
<1> HIDE DEF s1, s2
<1>4. n \in 1..T /\ n + 1 \in 1..T
  OBVIOUS
<1>5. hpn(t, s2, n)
  <2>1. /\ StayAt(t, s2, First(t, s2), Final(t, s2), n)
        /\ StayAt(t, s2, First(t, s2), Final(t, s2), n + 1)
    BY <1>3, <1>4 DEF StayOf
  <2>2. First(t, s2) \in 2..T /\ Final(t, s2) \in 2..T /\ First(t, s2) < Final(t, s2)
    <3>1. S2_STAY_AT_LEAST_TWO(t, s2)
      BY DEF s2
    <3>2. /\ First(t, s2) \in 2..T /\ Final(t, s2) \in First(t, s2) .. T - 1
          /\ S2_STAY_AT_LEAST_TWO(t, s2) <=> First(t, s2) < Final(t, s2)
      BY <1>3, Zenon DEF StayOf
    <3> QED BY <3>1, <3>2
  <2> DEFINE i == First(t, s2)
             f == Final(t, s2)
  <2>3. /\ Seen(t, s2, n) <=> i <= n
        /\ hpn(t, s2, n) <=> i < n
        /\ s2 \in t[n+1] <=> i <= n + 1 /\ n + 1 <= f
    BY <2>1, Zenon DEF StayAt
  <2>4. i \in Int /\ f \in Int /\ i < f
    BY <2>2
  <2> HIDE DEF i, f
  <2>5. i <= n /\ ~(i <= n + 1 /\ n + 1 <= f)
    BY <1>1, <2>3, Zenon
  <2>6. i < n
    BY <1>4, <2>4, <2>5
  <2> QED BY <2>3, <2>6, Zenon
<1> QED BY <1>1, <1>4, <1>5, Forms, Zenon DEF EnterHpnCovered, s1, s2

-----------------------------------------------------------------------------
\* The answers on record are right about the design, as far as they go, and belong
\* to relations that were asked; the two forms of gen_s2 are written, and lost, one
\* file at a time.  Nothing is there before step 6 begins, and from gen_s2 on every
\* relation has its first answer.
Forms3 == {"HB", "WHB", "WHB_CONCUR"}
AnswerTrue(p) ==
  /\ answer[p].result \in {"proven", "cex", "undetermined"}
  /\ answer[p].precond \in {"covered", "unreachable", "undetermined"}
  /\ answer[p].result = "proven" => \A t \in Over(p) : Sva(p, t)
  /\ answer[p].result = "cex" => \E t \in Over(p) : ~Sva(p, t)
  /\ answer[p].precond = "unreachable" => \A t \in Over(p) : ~Triggered(p, t)
Answers ==
  /\ asked \subseteq Forms3 \X check_e /\ DOMAIN answer \subseteq Forms3 \X check_e
  /\ \A p \in DOMAIN answer : AnswerTrue(p)
  /\ \A r : /\ <<"WHB", r>> \in asked <=> <<"WHB_CONCUR", r>> \in asked
            /\ <<"WHB", r>> \in DOMAIN answer <=> <<"WHB_CONCUR", r>> \in DOMAIN answer
Entering == pc \in {"gen", "prove", "gen_s2", "prove_s2", "pp", "entered"}
LInv ==
  /\ exec \in Designs
  /\ Answers
  /\ Entering => /\ asked = {} /\ DOMAIN answer = {}
                 /\ leaving_hb = {} /\ leaving_whb = {} /\ leaving_concur = {}
  /\ pc \in {"prove_s2_leaving", "pp_leaving", "left"} =>
        \A r \in check_e : <<"HB", r>> \in DOMAIN answer
  /\ LeavingSound /\ NoLeavingLost

LEMMA Kept ==
  ASSUME UNCHANGED <<exec, edge, reachable_sets, hb_proven, aws_concurrent, max_cycle_per_pl>>
  PROVE  check_e' = check_e /\ \A p : Over(p)' = Over(p)
PROOF
<1>0. over1cyc_pl' = over1cyc_pl
  BY DEF over1cyc_pl
<1>1. check_e' = check_e
  BY <1>0 DEF check_e, Wanted, e_in_tc_edge, TC_per_set, DG, Asked, in_aset, enter_concurrent_pairs
<1>2. \A p : Over(p)' = Over(p)
  BY <1>0, Zenon DEF Over
<1> QED BY <1>1, <1>2

\* A step that leaves the design, the answers and the files alone.
LEMMA SoundKept ==
  ASSUME LeavingSound, UNCHANGED <<exec, max_cycle_per_pl, leaving_hb, leaving_whb, leaving_concur>>
  PROVE  LeavingSound'
PROOF
<1>1. over1cyc_pl' = over1cyc_pl
  BY DEF over1cyc_pl
<1> QED BY <1>1 DEF LeavingSound, Assumed

LEMMA InitLInv == LeaveInit => LInv
PROOF
<1> SUFFICES ASSUME LeaveInit PROVE LInv
  OBVIOUS
<1>1. /\ exec \in Designs /\ pc = "gen" /\ asked = {} /\ DOMAIN answer = {}
      /\ leaving_hb = {} /\ leaving_whb = {} /\ leaving_concur = {}
  BY DEF LeaveInit, EnterInit
<1>2. Answers
  BY <1>1, Zenon DEF Answers
<1>3. LeavingSound /\ NoLeavingLost
  BY <1>1, Zenon DEF LeavingSound, NoLeavingLost
<1> QED BY <1>1, <1>2, <1>3, Zenon DEF LInv, Entering

LEMMA EnterKeepsLInv ==
  ASSUME LInv, EnterNext, UNCHANGED leaveVars
  PROVE  LInv'
PROOF
<1>1. Entering /\ Entering' /\ exec' = exec /\ pc' \notin {"prove_s2_leaving", "pp_leaving", "left"}
  BY DEF EnterNext, gen, gen_s2, prove, pp, inputs, Entering
<1>2. UNCHANGED <<asked, answer, leaving_hb, leaving_whb, leaving_concur>>
  BY Zenon DEF leaveVars, leavingFiles
<1>3. /\ asked' = {} /\ DOMAIN answer' = {}
      /\ leaving_hb' = {} /\ leaving_whb' = {} /\ leaving_concur' = {}
  BY <1>1, <1>2, Zenon DEF LInv
<1>4. Answers'
  BY <1>3, Zenon DEF Answers
<1>5. LeavingSound' /\ NoLeavingLost'
  BY <1>1, <1>3, Zenon DEF LeavingSound, NoLeavingLost
<1> QED BY <1>1, <1>3, <1>4, <1>5, Zenon DEF LInv

LEMMA GenKeepsLInv ==
  ASSUME LInv, gen_leaving
  PROVE  LInv'
PROOF
<1>1. /\ exec' = exec /\ pc' = "prove_leaving" /\ DOMAIN answer' = {}
      /\ leaving_hb' = {} /\ leaving_whb' = {} /\ leaving_concur' = {}
      /\ asked' = {<<"HB", r>> : r \in check_e'}
  BY DEF LInv, Entering, gen_leaving, inputs, leavingFiles
<1>2. Answers'
  BY <1>1 DEF Answers, Forms3
<1>3. LeavingSound' /\ NoLeavingLost'
  BY <1>1, Zenon DEF LeavingSound, NoLeavingLost
<1> QED BY <1>1, <1>2, <1>3, Zenon DEF LInv, Entering

\* JasperGold adds answers that are right, or "undetermined".
LEMMA ProveKeepsLInv ==
  ASSUME LInv, NEW from, NEW to,
         \/ from = "prove_leaving" /\ to = "gen_s2_leaving"
         \/ from = "prove_s2_leaving" /\ to = "pp_leaving",
         prove_leaving(from, to)
  PROVE  LInv'
PROOF
<1>1. /\ UNCHANGED <<exec, edge, reachable_sets, hb_proven, aws_concurrent, max_cycle_per_pl>>
      /\ UNCHANGED <<leaving_hb, leaving_whb, leaving_concur>>
      /\ pc = from /\ pc' = to /\ asked' = {}
  BY Zenon DEF prove_leaving, inputs, results, leavingFiles
<1> DEFINE Answered(lost, slow) ==
             [p \in DOMAIN answer \cup {q \in asked : Edge(q[2]) \notin lost} |->
                IF p \in DOMAIN answer THEN answer[p]
                ELSE [f \in {"result", "precond"} |->
                        IF <<p, f>> \in slow THEN "undetermined" ELSE Truth(p)[f]]]
<1>0. \E lost \in Hit({Edge(p[2]) : p \in asked}) :
        \E slow \in Hit(asked \X {"result", "precond"}) : answer' = Answered(lost, slow)
  BY Zenon DEF prove_leaving
<1>2. PICK lost, slow : answer' = Answered(lost, slow)
  <2> HIDE DEF Answered
  <2> QED BY <1>0
<1>3. check_e' = check_e /\ \A p : Over(p)' = Over(p)
  BY <1>1, Kept
<1>4. /\ DOMAIN answer' = DOMAIN answer \cup {q \in asked : Edge(q[2]) \notin lost}
      /\ \A p \in DOMAIN answer : answer'[p] = answer[p]
      /\ \A p \in DOMAIN answer' : p \notin DOMAIN answer =>
            /\ answer'[p].result \in {"undetermined", Truth(p).result}
            /\ answer'[p].precond \in {"undetermined", Truth(p).precond}
  <2> DEFINE D == DOMAIN answer \cup {q \in asked : Edge(q[2]) \notin lost}
             A(p) == [f \in {"result", "precond"} |->
                        IF <<p, f>> \in slow THEN "undetermined" ELSE Truth(p)[f]]
  <2>1. \A p : /\ A(p).result \in {"undetermined", Truth(p).result}
               /\ A(p).precond \in {"undetermined", Truth(p).precond}
    OBVIOUS
  <2> HIDE DEF A
  <2>2. answer' = [p \in D |-> IF p \in DOMAIN answer THEN answer[p] ELSE A(p)]
    BY <1>2 DEF A
  <2> HIDE DEF D
  <2>3. /\ DOMAIN answer' = D
        /\ \A p \in D : answer'[p] = IF p \in DOMAIN answer THEN answer[p] ELSE A(p)
    BY <2>2
  <2> QED BY <2>1, <2>3 DEF D
<1>5. DOMAIN answer' \subseteq Forms3 \X check_e' /\ asked' \subseteq Forms3 \X check_e'
  BY <1>1, <1>3, <1>4 DEF LInv, Answers
<1>6. ASSUME NEW p \in DOMAIN answer'
      PROVE  AnswerTrue(p)'
  <2>1. CASE p \in DOMAIN answer
    BY <1>3, <1>4, <2>1, Zenon DEF LInv, Answers, AnswerTrue
  <2>2. CASE p \notin DOMAIN answer
    <3>1. /\ Truth(p).result \in {"proven", "cex"}
          /\ Truth(p).result = "proven" <=> \A t \in Over(p) : Sva(p, t)
          /\ Truth(p).precond \in {"covered", "unreachable"}
          /\ Truth(p).precond = "covered" <=> \E t \in Over(p) : Triggered(p, t)
      BY Zenon DEF Truth
    <3> QED BY <1>3, <1>4, <2>2, <3>1, Zenon DEF AnswerTrue
  <2> QED BY <2>1, <2>2, Zenon
<1>7. ASSUME NEW r
      PROVE  /\ <<"WHB", r>> \in DOMAIN answer' <=> <<"WHB_CONCUR", r>> \in DOMAIN answer'
             /\ <<"WHB", r>> \in asked' <=> <<"WHB_CONCUR", r>> \in asked'
  BY <1>1, <1>4, Zenon DEF LInv, Answers
<1>8. Answers'
  BY <1>5, <1>6, <1>7, Zenon DEF Answers
<1>9. LeavingSound'
  BY <1>1, SoundKept, Zenon DEF LInv
<1>10. pc' \in {"prove_s2_leaving", "pp_leaving", "left"} =>
          \A r \in check_e' : <<"HB", r>> \in DOMAIN answer'
  BY <1>1, <1>3, <1>4, Zenon DEF LInv
<1>11. exec' \in Designs /\ ~Entering' /\ pc' # "left"
  BY <1>1, Zenon DEF LInv, Entering
<1> QED BY <1>8, <1>9, <1>10, <1>11, Zenon DEF LInv, NoLeavingLost

LEMMA GenS2KeepsLInv ==
  ASSUME LInv, gen_s2_leaving
  PROVE  LInv'
PROOF
<1>1. /\ UNCHANGED <<exec, edge, reachable_sets, hb_proven, aws_concurrent, max_cycle_per_pl>>
      /\ UNCHANGED <<answer, leaving_hb, leaving_whb, leaving_concur>>
  BY Zenon DEF gen_s2_leaving, inputs, results, leavingFiles
<1>2. \/ pc' = "aborted" /\ asked' = asked
      \/ /\ pc' = "prove_s2_leaving" /\ \A r \in check_e : <<"HB", r>> \in DOMAIN answer
         /\ asked' = {<<k, r>> : k \in {"WHB", "WHB_CONCUR"}, r \in Refuted}
  BY DEF gen_s2_leaving, Refuted
<1>3. check_e' = check_e /\ \A p : Over(p)' = Over(p)
  BY <1>1, Kept, Zenon
<1>4. /\ asked' \subseteq Forms3 \X check_e'
      /\ \A r : <<"WHB", r>> \in asked' <=> <<"WHB_CONCUR", r>> \in asked'
  <2>1. CASE asked' = asked
    BY <1>3, <2>1, Zenon DEF LInv, Answers
  <2>2. CASE asked' = {<<k, r>> : k \in {"WHB", "WHB_CONCUR"}, r \in Refuted}
    <3>1. Refuted \subseteq check_e
      BY DEF Refuted
    <3>2. \A r : /\ <<"WHB", r>> \in asked' <=> r \in Refuted
                 /\ <<"WHB_CONCUR", r>> \in asked' <=> r \in Refuted
      BY <2>2
    <3> QED BY <1>3, <2>2, <3>1, <3>2 DEF Forms3
  <2> QED BY <1>2, <2>1, <2>2
<1>5. \A p \in DOMAIN answer' : AnswerTrue(p)'
  BY <1>1, <1>3, Zenon DEF LInv, Answers, AnswerTrue
<1>6. Answers'
  BY <1>1, <1>3, <1>4, <1>5, Zenon DEF LInv, Answers
<1>7. LeavingSound'
  BY <1>1, SoundKept, Zenon DEF LInv
<1>8. pc' \in {"prove_s2_leaving", "pp_leaving", "left"} =>
         \A r \in check_e' : <<"HB", r>> \in DOMAIN answer'
  <2>1. pc' = "aborted" \/ \A r \in check_e : <<"HB", r>> \in DOMAIN answer
    BY <1>2
  <2> QED BY <1>1, <1>3, <2>1, Zenon
<1> QED BY <1>1, <1>2, <1>6, <1>7, <1>8 DEF LInv, Entering, NoLeavingLost

-----------------------------------------------------------------------------

LEMMA StaysOfDesign ==
  ASSUME LInv, SingleStays, NEW t \in exec
  PROVE  t \in Trace /\ \A s \in Visited(t) : OneStay(t, s)
PROOF
  BY DesignAssumption, Zenon DEF LInv, SingleStays

\* The relations of check_e.
LEMMA Checked ==
  ASSUME NEW r \in check_e
  PROVE  r \in Relations /\ (r[3] = 1 => r[4] \in over1cyc_pl)
PROOF
  BY Zenon DEF check_e, Wanted, Edge

\* Every relation pp writes to a file is true of the design.
LEMMA FilesTrue ==
  ASSUME LInv, SingleStays, NEW t \in exec, NEW r \in check_e, Speaks(t, r)
  PROVE  /\ <<"HB", r>> \in DOMAIN answer /\ Proven("HB", r) /\ Assumed(t, r) => Before(t, r)
         /\ <<"WHB", r>> \in DOMAIN answer /\ Proven("WHB", r) => NotAfter(t, r)
         /\ <<"WHB_CONCUR", r>> \in DOMAIN answer /\ Proven("WHB_CONCUR", r) /\ r[1] = 1
               => SameCycle(t, r)
PROOF
<1>1. t \in Trace /\ r \in Relations /\ OneStay(t, r[2]) /\ OneStay(t, r[4])
  <2>1. r[2] \in Visited(t) /\ r[4] \in Visited(t)
    BY Checked, Kinds DEF Speaks, Together
  <2> QED BY <2>1, StaysOfDesign, Checked, Zenon
<1>2. /\ Assumed(t, r) => t \in Over(<<"HB", r>>)
      /\ t \in Over(<<"WHB", r>>) /\ t \in Over(<<"WHB_CONCUR", r>>)
  BY Zenon DEF Over, Assumed
<1>3. ASSUME NEW k \in Forms3, <<k, r>> \in DOMAIN answer, Proven(k, r), t \in Over(<<k, r>>)
      PROVE  Sva(<<k, r>>, t)
  <2>1. answer[<<k, r>>].result = "proven"
    BY <1>3, Zenon DEF Proven, Result
  <2>2. AnswerTrue(<<k, r>>)
    BY <1>3, Zenon DEF LInv, Answers
  <2> QED BY <1>3, <2>1, <2>2, Zenon DEF AnswerTrue
<1> QED BY <1>1, <1>2, <1>3, LeavingOrder, Zenon DEF Forms3

\* A relation that was answered and is in no file.
LEMMA LostIsUnordered ==
  ASSUME LInv, SingleStays, NEW r \in check_e, <<"HB", r>> \in DOMAIN answer,
         r \in Refuted => <<"WHB", r>> \in DOMAIN answer,
         ~Proven("HB", r), r \in Refuted => ~Proven("WHB", r)
  PROVE  \/ TimedOut(r)
         \/ \A t \in Over(<<"HB", r>>) : ~Triggered(<<"HB", r>>, t)
         \/ \E t \in exec :
               /\ Together(t, Edge(r))
               /\ \/ ~NotAfter(t, r) /\ (r[1] = 1 => S2_STAY_AT_LEAST_TWO(t, r[2]))
                  \/ r[1] = 0 /\ SameCycle(t, r) /\ S2_STAY_AT_LEAST_TWO(t, r[2])
PROOF
<1> DEFINE h == <<"HB", r>>
           v == <<"WHB", r>>
<1>0. r \in Relations /\ (r[3] = 1 => r[4] \in over1cyc_pl)
  BY Checked, Zenon
<1>1. SUFFICES ASSUME ~TimedOut(r), \E t \in Over(h) : Triggered(h, t)
               PROVE  \E t \in exec :
                         /\ Together(t, Edge(r))
                         /\ \/ ~NotAfter(t, r) /\ (r[1] = 1 => S2_STAY_AT_LEAST_TWO(t, r[2]))
                            \/ r[1] = 0 /\ SameCycle(t, r) /\ S2_STAY_AT_LEAST_TWO(t, r[2])
  BY Zenon
<1>2. AnswerTrue(h) /\ answer[h].result # "undetermined" /\ answer[h].precond # "undetermined"
  BY <1>1, Zenon DEF TimedOut, LInv, Answers
<1>3. answer[h].result = "cex"
  BY <1>1, <1>2, Zenon DEF AnswerTrue, Proven, Result
<1>4. r \in Refuted
  BY <1>3, Zenon DEF Refuted, Result
<1>5. v \in DOMAIN answer
  BY <1>4, Zenon
<1>6. AnswerTrue(v) /\ answer[v].result # "undetermined" /\ answer[v].precond # "undetermined"
  BY <1>1, <1>5, Zenon DEF TimedOut, LInv, Answers
<1>7. Over(v) = exec /\ Over(h) \subseteq exec
  BY Zenon DEF Over
<1>8. CASE answer[v].result = "cex"
  <2>1. PICK t \in exec : ~Sva(v, t)
    BY <1>6, <1>7, <1>8, Zenon DEF AnswerTrue
  <2> QED BY <1>0, <2>1, StaysOfDesign, RefutedLeaving, Zenon
<1>9. CASE answer[v].result = "proven"
  <2>1. answer[v].precond = "unreachable"
    BY <1>4, <1>6, <1>9, Zenon DEF AnswerTrue, Proven, Result
  <2>2. \A t \in exec : ~Triggered(v, t)
    BY <1>6, <1>7, <2>1, Zenon DEF AnswerTrue
  <2>3. CASE r[1] = 1
    BY <1>0, <1>1, <1>7, <2>2, <2>3, Forms, ZenonT(30)
  <2>4. CASE r[1] = 0
    <3>1. r[4] \in over1cyc_pl
      BY <1>0, <2>4, Kinds, Zenon
    <3>2. PICK t \in Over(h) : ~Sva(h, t)
      BY <1>2, <1>3, Zenon DEF AnswerTrue
    <3>3. S2_STAY_AT_LEAST_TWO(t, r[4]) /\ t \in exec
      BY <1>7, <3>1, <3>2, Zenon DEF Over
    <3>4. Triggered(v, t)
      BY <1>0, <2>4, <3>2, <3>3, StaysOfDesign, RefutedIsTriggered, Zenon
    <3> QED BY <2>2, <3>3, <3>4, Zenon
  <2> QED BY <1>0, <2>3, <2>4, Kinds, Zenon
<1> QED BY <1>6, <1>8, <1>9, Zenon DEF AnswerTrue

LEMMA PpKeepsLInv ==
  ASSUME LInv, SingleStays, pp_leaving
  PROVE  LInv'
PROOF
<1>1. /\ UNCHANGED <<exec, edge, reachable_sets, hb_proven, aws_concurrent, max_cycle_per_pl>>
      /\ UNCHANGED <<asked, answer>> /\ pc = "pp_leaving" /\ pc' \in {"aborted", "left"}
  BY DEF pp_leaving, inputs, results
<1>2. check_e' = check_e /\ \A p : Over(p)' = Over(p)
  BY <1>1, Kept, Zenon
<1>3. Answers'
  <2>1. \A p \in DOMAIN answer' : AnswerTrue(p)'
    BY <1>1, <1>2, Zenon DEF LInv, Answers, AnswerTrue
  <2> QED BY <1>1, <1>2, <2>1, Zenon DEF LInv, Answers
<1>4. \A r \in check_e' : <<"HB", r>> \in DOMAIN answer'
  BY <1>1, <1>2, Zenon DEF LInv
<1>5. exec' \in Designs /\ ~Entering'
  BY <1>1, Zenon DEF LInv, Entering
<1>6. CASE pc' = "aborted"
  <2>1. UNCHANGED <<leaving_hb, leaving_whb, leaving_concur>>
    BY <1>6, Zenon DEF pp_leaving, leavingFiles
  <2>2. LeavingSound'
    BY <1>1, <2>1, SoundKept, Zenon DEF LInv
  <2> QED BY <1>3, <1>4, <1>5, <1>6, <2>2, Zenon DEF LInv, NoLeavingLost
<1>7. CASE pc' = "left"
  <2>1. /\ \A r \in Refuted : <<"WHB", r>> \in DOMAIN answer
        /\ leaving_hb' = {r \in check_e : Proven("HB", r)}
        /\ leaving_concur' = {r \in Refuted : Proven("WHB_CONCUR", r)}
        /\ leaving_whb' = {r \in Refuted : /\ Proven("WHB", r)
                                           /\ {r, Flip(r)} \cap leaving_concur' = {}}
    BY <1>7, Zenon DEF pp_leaving
  <2>2. /\ \A r \in Refuted : /\ r \in check_e
                              /\ <<"WHB", r>> \in DOMAIN answer
                              /\ <<"WHB_CONCUR", r>> \in DOMAIN answer
        /\ \A r \in check_e : <<"HB", r>> \in DOMAIN answer
    BY <1>1, <2>1, Zenon DEF LInv, Answers, Refuted
  <2>3. LeavingSound'
    <3> SUFFICES ASSUME NEW t \in exec
        PROVE /\ \A r \in leaving_hb' : Speaks(t, r) /\ Assumed(t, r) => Before(t, r)
              /\ \A r \in leaving_whb' : Speaks(t, r) => NotAfter(t, r)
              /\ \A r \in leaving_concur' : r[1] = 1 /\ Speaks(t, r) => SameCycle(t, r)
      <4>1. over1cyc_pl' = over1cyc_pl
        BY <1>1, Zenon DEF over1cyc_pl
      <4> QED BY <1>1, <4>1, Zenon DEF LeavingSound, Assumed
    <3>1. \A r \in leaving_hb' : Speaks(t, r) /\ Assumed(t, r) => Before(t, r)
      BY <2>1, <2>2, FilesTrue, Zenon
    <3>2. \A r \in leaving_whb' : Speaks(t, r) => NotAfter(t, r)
      BY <2>1, <2>2, FilesTrue, Zenon
    <3>3. \A r \in leaving_concur' : r[1] = 1 /\ Speaks(t, r) => SameCycle(t, r)
      BY <2>1, <2>2, FilesTrue, Zenon
    <3> QED BY <3>1, <3>2, <3>3, Zenon
  <2>4. NoLeavingLost'
    <3> SUFFICES ASSUME NEW r \in check_e,
                        r \notin leaving_hb' /\ r \notin leaving_whb' /\ r \notin leaving_concur',
                        Flip(r) \notin leaving_concur'
        PROVE /\ <<"HB", r>> \in DOMAIN answer
              /\ \/ TimedOut(r)
                 \/ \A t \in Over(<<"HB", r>>) : ~Triggered(<<"HB", r>>, t)
                 \/ \E t \in exec :
                       /\ Together(t, Edge(r))
                       /\ \/ ~NotAfter(t, r) /\ (r[1] = 1 => S2_STAY_AT_LEAST_TWO(t, r[2]))
                          \/ r[1] = 0 /\ SameCycle(t, r) /\ S2_STAY_AT_LEAST_TWO(t, r[2])
      BY <1>1, <1>2, <1>4, Zenon DEF NoLeavingLost, TimedOut
    <3>1. ~Proven("HB", r) /\ (r \in Refuted => ~Proven("WHB", r))
      BY <2>1, Zenon
    <3> QED BY <2>2, <3>1, LostIsUnordered, Zenon
  <2> QED BY <1>3, <1>4, <1>5, <2>3, <2>4, Zenon DEF LInv
<1> QED BY <1>1, <1>6, <1>7, Zenon

LEMMA NextLInv ==
  ASSUME SingleStays
  PROVE  LInv /\ [(EnterNext /\ UNCHANGED leaveVars) \/ LeaveNext]_vars => LInv'
PROOF
<1> SUFFICES ASSUME LInv, [(EnterNext /\ UNCHANGED leaveVars) \/ LeaveNext]_vars PROVE LInv'
  OBVIOUS
<1>1. CASE EnterNext /\ UNCHANGED leaveVars
  BY <1>1, EnterKeepsLInv
<1>2. CASE gen_leaving
  BY <1>2, GenKeepsLInv, Zenon
<1>3. CASE prove_leaving("prove_leaving", "gen_s2_leaving")
  BY <1>3, ProveKeepsLInv, Zenon
<1>4. CASE gen_s2_leaving
  BY <1>4, GenS2KeepsLInv
<1>5. CASE prove_leaving("prove_s2_leaving", "pp_leaving")
  BY <1>5, ProveKeepsLInv
<1>6. CASE pp_leaving
  BY <1>6, PpKeepsLInv, Zenon
<1>7. CASE UNCHANGED vars
  <2>1. /\ UNCHANGED <<exec, edge, reachable_sets, hb_proven, aws_concurrent, max_cycle_per_pl>>
        /\ UNCHANGED <<pc, asked, answer, leaving_hb, leaving_whb, leaving_concur>>
    BY <1>7, Zenon DEF vars, enterVars, leaveVars, leavingFiles, inputs, results
  <2>2. check_e' = check_e /\ \A p : Over(p)' = Over(p)
    BY <2>1, Kept, Zenon
  <2>3. LeavingSound'
    BY <2>1, SoundKept, Zenon DEF LInv
  <2>4. Answers'
    BY <2>1, <2>2, Zenon DEF LInv, Answers, AnswerTrue
  <2>5. NoLeavingLost'
    BY <2>1, <2>2, Zenon DEF LInv, NoLeavingLost, TimedOut
  <2> QED BY <2>1, <2>2, <2>3, <2>4, <2>5, Zenon DEF LInv, Entering
<1> QED BY <1>1, <1>2, <1>3, <1>4, <1>5, <1>6, <1>7, Zenon DEF LeaveNext

\* Soundness of the leaving files for every design with single stays and every pattern
\* of time-outs and lost reports: pp of xHBPerfG_leaving.py writes no order of final
\* cycles that some execution breaks.
THEOREM LeavingSoundHolds ==
  ASSUME SingleStays
  PROVE  LeaveSpec => []LeavingSound
PROOF
<1>1. LInv => LeavingSound
  BY DEF LInv
<1> QED BY <1>1, InitLInv, NextLInv, PTL DEF LeaveSpec

\* Completeness of the leaving files: a relation that step 6 asked about and that is in
\* no file timed out, has a precondition that no execution meets, or is broken by some
\* execution.
THEOREM NoLeavingLostHolds ==
  ASSUME SingleStays
  PROVE  LeaveSpec => []NoLeavingLost
PROOF
<1>1. LInv => NoLeavingLost
  BY DEF LInv
<1> QED BY <1>1, InitLInv, NextLInv, PTL DEF LeaveSpec
=============================================================================
