CONSTANTS
    s0 = s0
    s1 = s1
    s2 = s2
    Store <- MCStore
    ResetStore = s0
    DEPTH_SPEC = 2
    DEPTH_COMMIT = 2
SPECIFICATION StoreBufferSpec
INVARIANTS BufferTypeOK SpecWindow CommitWindow
PROPERTY RefinesStoreQueue
