CONSTANTS
    Store = {s1, s2}
    ResetStore = s1
    DEPTH_SPEC = 2
    DEPTH_COMMIT = 2
    TransId = {0, 1}
SPECIFICATION UnitSpec
INVARIANT RoomWhenPosted
PROPERTY BufferSpec
