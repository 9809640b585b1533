SPECIFICATION PathSpec
CONSTANTS
    a = a
    b = b
    c = c
    PL <- MCPL
    T <- MCT
    iid_map <- MCiid_map
    Designs <- MCDesigns
    Dfgs <- MCDfgs
    dfg_e <- MCdfg_e
    pl_names <- MCpl_names
    Estimates <- MCEstimates
    Faults = 1
INVARIANTS EnterSound NoSilentLoss LeavingSound NoLeavingLost OrdersKept StopsOnlyOnContradiction PathsKept PathSound
