CONSTANTS
    Posts = {p1, p2, p3}
    MaxImages = 2
    MaxBlobs = 4
    Unreachable <- MCUnreachable
    None = None
SYMMETRY Symmetry
SPECIFICATION Spec
INVARIANTS
    OneEmbedType
CHECK_DEADLOCK FALSE
