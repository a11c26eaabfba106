CONSTANTS
    Input = {z, x}
    Zero = z
    MaxChunk = 5
SPECIFICATION Spec
INVARIANTS
    TypeOK
    CutsAreInvisible
PROPERTIES
    ImplementsSlidingWindow
