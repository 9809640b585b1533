SPECIFICATION SearchSpec
CONSTANTS
  MAX = 70
  CNT = 10
  Stays <- MCStays
INVARIANTS BudgetSuffices ShortfallIsVisible EstimateUnrefuted
