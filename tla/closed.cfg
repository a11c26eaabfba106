CONSTANTS
    NumLayers = 2
    AttentionPeriod = 2
    Capacity = 2
    Token = {a}
    Corrupt = Corrupt
    Empty = Empty
    NoSnapshot = NoSnapshot
    ChunkCapacity = 1
    GraphBase = 1
    NoControls = NoControls
    Overrides = {"populated", "cursor"}
SPECIFICATION Spec
PROPERTIES
    ClosedTakesNoMetadata
CHECK_DEADLOCK FALSE
