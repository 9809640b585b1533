CONSTANTS
    Addr = {"a", "b"}
    Data = {0, 1}
    ResetStore <- MCReset
    DEPTH_SPEC = 2
    DEPTH_COMMIT = 2
    NR_ENTRIES = 4
    NR_COMMIT_PORTS = 2
    Instr <- MCInstr
SPECIFICATION Spec
VIEW Observable
INVARIANTS AssumptionsHold LoadsReadLatestStore CommitsOwnStore BypassRoom RequestsNeverMatch
PROPERTY FenceDrains
