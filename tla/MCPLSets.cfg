SPECIFICATION Spec
CONSTANTS
  N = 3
  A = A
  B = B
  IID = {A, B}
  iid_map <- MCIid
  Designs <- MCDesigns
  Files <- MCFiles
  Timeouts = 2
INVARIANTS NothingLost CandidatesConsistent EveryCandidateClassified
