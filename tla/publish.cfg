CONSTANTS
    weight = weight
    alias = alias
    scale = scale
    long = long
    short = short
    Writer = {w1, w2}
    Byte = {x, y}
    Hole = Hole
    Old = Old
    Name <- Names
    Span <- Spans
    Owner <- Owners
    Length <- Lengths
SPECIFICATION Spec
INVARIANTS
    TypeOK
    DestinationIsWhole
    NoTemporaryLeft
SYMMETRY Interchangeable
CHECK_DEADLOCK FALSE
