------------------------------ MODULE MCBatchRun -----------------------------
(***************************************************************************)
(* BatchRun with three jobs, two workers and at most two crashes, and the  *)
(* fairness under which a batch returns.                                   *)
(***************************************************************************)
EXTENDS BatchRun

CONSTANT MaxCrashes

MCNext == (List \/ Return \/ Generate \/ \E w \in Worker : Work(w))
          \/ (crashes < MaxCrashes /\ Crash)

\* The scheduler runs every process, and JasperGold ends at the latest when its time
\* limit expires.
MCSpec == /\ BatchInit /\ [][MCNext]_batchVars
          /\ WF_batchVars(List) /\ WF_batchVars(Return)
          /\ \A w \in Worker : WF_batchVars(Work(w))

\* Once the crashes are over, every batch returns to the driver.
BatchReturns == (batch = "list" /\ crashes = MaxCrashes) ~> batch = "returned"
=============================================================================
