CONSTANTS
    NumLayers = 2
    AttentionPeriod = 2
    Capacity = 4
    Token = {a}
    Corrupt = Corrupt
    Empty = Empty
    NoSnapshot = NoSnapshot
    ChunkCapacity = 2
    GraphBase = 1
    NoControls = NoControls
    Overrides = {"cursor"}
SPECIFICATION Spec
INVARIANTS
    TypeOK
    StateMatchesLog
    SnapshotConsistent
    ReadoutSeesWholeChunk
    ReplayUsesCurrentControls
    
    CommitsCleanUnit
    NoStaleFailure
PROPERTIES
    PoisonForbidsProgress
    ImplementsTokenLog
ACTION_CONSTRAINT
    OverriddenIsReplaced
CHECK_DEADLOCK FALSE
