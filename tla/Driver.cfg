SPECIFICATION Spec
INVARIANTS
  FinishedReports
  FinishedFiles
  LeavingBeforeOrders
