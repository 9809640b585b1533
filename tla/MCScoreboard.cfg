CONSTANTS
    Instr = {add, fault, nop}
    Faulty = {fault}
    NoUnit = {nop}
    ResetInstr = add
    NR_ENTRIES = 4
    NR_COMMIT_PORTS = 2
SPECIFICATION Spec
INVARIANTS TypeOK IssueWindow NoDoubleRetire
PROPERTY RefinesInOrderWindow
