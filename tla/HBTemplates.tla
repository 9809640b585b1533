---------------------------- MODULE HBTemplates ----------------------------
(***************************************************************************)
(* The happens-before properties of the property templates                 *)
(* (fv/synthlc/src/HB_template.py).  An execution of the instruction under *)
(* verification is observed for T clock edges; t[n] is the set of          *)
(* performing locations (PLs) it occupies at edge n.  Each operator says   *)
(* whether one assertion (or assumption) of a template holds on one        *)
(* execution, cycle by cycle, with the auxiliary registers of the          *)
(* template; $past of a cycle before the first is false.                   *)
(***************************************************************************)
EXTENDS Naturals

CONSTANTS PL,   \* performing locations
          T     \* clock edges an execution is observed for

ASSUME HorizonAssumption == T \in Nat

Trace == [1..T -> SUBSET PL]

\* The register s_hpn, set by the first edge at which s is occupied.
hpn(t, s, n) == \E m \in 1 .. n - 1 : s \in t[m]
Enter(t, s, n) == s \in t[n] /\ ~hpn(t, s, n)

\* The PLs an execution visits: its set_r.
Visited(t) == {s \in PL : \E n \in 1..T : s \in t[n]}

-----------------------------------------------------------------------------
\* ENTER_A_HP_ENTER_B_t: when s1 is entered, s2 has not been (HB), has not been
\* before (WHB), is being entered too (WHB_CONCUR).
HB(t, s1, s2) == \A n \in 1..T : Enter(t, s1, n) => ~(hpn(t, s2, n) \/ s2 \in t[n])
WHB(t, s1, s2) == \A n \in 1..T : Enter(t, s1, n) => ~hpn(t, s2, n)
WHB_CONCUR(t, s1, s2) == \A n \in 1..T : Enter(t, s1, n) => Enter(t, s2, n)

-----------------------------------------------------------------------------
\* The antecedents of the leaving templates.  Edge n is one after the final
\* cycle of a stay of at least two cycles in s; PastNew is the $past(!s_hpn) && s
\* of HB_s1_hb_leaving_s2.
Left(t, s, n) == n >= 3 /\ s \in t[n-2] /\ s \in t[n-1] /\ s \notin t[n]
PastNew(t, s, n) == n >= 2 /\ ~hpn(t, s, n - 1) /\ s \in t[n]
Seen(t, s, n) == hpn(t, s, n) \/ s \in t[n]
Staying(t, s, n) == s \in t[n] \/ ~hpn(t, s, n)

\* HB_leaving_s1_hb_s2: the final cycle of s1 against the entry of s2.
HB_LEAVING(t, s1, s2) == \A n \in 1..T : Left(t, s1, n) => ~Seen(t, s2, n - 1)
WHB_LEAVING(t, s1, s2) == \A n \in 1..T : Left(t, s1, n) => ~hpn(t, s2, n - 1)
CONCUR_LEAVING(t, s1, s2) == \A n \in 1..T : Left(t, s1, n) => Enter(t, s2, n - 1)

\* HB_s1_hb_leaving_s2: the entry of s1 against the final cycle of s2.
HB_ENTER_LEAVING(t, s1, s2) ==
    \A n \in 1 .. T - 1 : PastNew(t, s1, n) /\ Seen(t, s2, n) => s2 \in t[n+1]
WHB_ENTER_LEAVING(t, s1, s2) ==
    \A n \in 1..T : PastNew(t, s1, n) /\ hpn(t, s2, n) => s2 \in t[n]
CONCUR_ENTER_LEAVING(t, s1, s2) ==
    \A n \in 1 .. T - 1 :
       PastNew(t, s1, n) /\ hpn(t, s2, n) /\ s2 \in t[n] => s2 \notin t[n+1]

\* HB_leaving_s1_hb_leaving_s2: the final cycle of s1 against that of s2.
HB_LEAVING_LEAVING(t, s1, s2) == \A n \in 1..T : Left(t, s1, n) => Staying(t, s2, n)
WHB_LEAVING_LEAVING(t, s1, s2) == \A n \in 1..T : Left(t, s1, n) => Staying(t, s2, n - 1)
CONCUR_LEAVING_LEAVING(t, s1, s2) == \A n \in 1..T : Left(t, s1, n) => Left(t, s2, n)

\* The preconditions JasperGold covers along with the assertions.
LeftCovered(t, s1, s2) == \E n \in 1..T : Left(t, s1, n)
EnterSeenCovered(t, s1, s2) == \E n \in 1 .. T - 1 : PastNew(t, s1, n) /\ Seen(t, s2, n)
EnterHpnCovered(t, s1, s2) == \E n \in 1..T : PastNew(t, s1, n) /\ hpn(t, s2, n)
EnterStayCovered(t, s1, s2) ==
    \E n \in 1 .. T - 1 : PastNew(t, s1, n) /\ hpn(t, s2, n) /\ s2 \in t[n]

\* assume_s2_over_2cyc: s2 is occupied at two successive edges some time.
S2_STAY_AT_LEAST_TWO(t, s2) == \E n \in 1 .. T - 1 : s2 \in t[n] /\ s2 \in t[n+1]

-----------------------------------------------------------------------------
\* The covers of steps 7 and 8 on an execution that visits all of its set (which is
\* the ##[0:$] set_r they end with).  OutOf is the $past(e0) & !e0 of the templates.
OutOf(t, s, n) == n >= 2 /\ s \in t[n-1] /\ s \notin t[n]

C_hb_prop(t, e0, e1) == \E n \in 1..T : Enter(t, e0, n) /\ ~Seen(t, e1, n)
C_concur_prop(t, e0, e1) == \E n \in 1..T : Enter(t, e0, n) /\ Enter(t, e1, n)
C_final_hb_enter(t, e0, e1) == \E n \in 1..T : OutOf(t, e0, n) /\ ~Seen(t, e1, n)
C_final_concur_enter(t, e0, e1) == \E n \in 1..T : OutOf(t, e0, n) /\ Enter(t, e1, n - 1)
C_enter_hb_final(t, e0, e1) ==
    \E n \in 2..T : /\ e0 \notin t[n-1] /\ e0 \in t[n] /\ Staying(t, e1, n)
                    /\ \E m \in n + 1 .. T : e1 \in t[m]
C_final_hb_final(t, e0, e1) == \E n \in 1..T : OutOf(t, e0, n) /\ Staying(t, e1, n)
C_final_concur_final(t, e0, e1) == \E n \in 1..T : OutOf(t, e0, n) /\ OutOf(t, e1, n)

\* The assumptions of steps 8 and 9.
A_enter_hb_enter(t, e0, e1) == HB(t, e0, e1)
A_enter_concur_enter(t, e0, e1) == WHB_CONCUR(t, e0, e1) /\ WHB_CONCUR(t, e1, e0)
A_final_hb_enter(t, e0, e1) == \A n \in 1..T : OutOf(t, e0, n) => ~hpn(t, e1, n)
A_final_concur_enter(t, e0, e1) == \A n \in 1..T : OutOf(t, e0, n) => Enter(t, e1, n - 1)
A_enter_hb_final(t, e0, e1) ==
    \A n \in 1 .. T - 1 : Enter(t, e0, n) => ~hpn(t, e1, n) \/ (e1 \in t[n] /\ e1 \in t[n+1])
A_enter_concur_final(t, e0, e1) ==
    \A n \in 1 .. T - 1 : Enter(t, e0, n) => e1 \in t[n] /\ e1 \notin t[n+1]
\* Mutant: e1 may be left in the same cycle.
LeftTogether(t, e0, e1) == \A n \in 1..T : OutOf(t, e0, n) => Staying(t, e1, n - 1)
A_final_hb_final(t, e0, e1) == \A n \in 1..T : OutOf(t, e0, n) => Staying(t, e1, n)
A_final_concur_final(t, e0, e1) == \A n \in 1..T : OutOf(t, e0, n) => OutOf(t, e1, n)
=============================================================================
