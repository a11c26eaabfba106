CONSTANTS
    Capacity = 19
    Tile = 2
    Segment = 4
    Waves = 3
    KvHeads = 2
    Group = 2
    Stale = Stale
SPECIFICATION Spec
INVARIANTS
    TypeOK
    MergeReadsEveryKeyOnce
    ReplayMatchesEager
    BlocksAreDisjoint
