CONSTANTS
    Addr = {"a", "b"}
    Data = {0}
    ResetStore <- MCReset
    DEPTH_SPEC = 2
    DEPTH_COMMIT = 2
    NR_ENTRIES = 4
    NR_COMMIT_PORTS = 2
    Instr <- MCInstr
SPECIFICATION LiveSpec
PROPERTIES InstructionsLeave RetiredStoresReachMemory
