SPECIFICATION SearchSpec
CONSTANTS
  MAX = 70
  CNT = 10
  Stays <- MCStays
INVARIANT ListedStaysExist
