\* Two exported models, two evaluation keys (two looks of one confirmation),
\* three paths to move between, and one pin.
SPECIFICATION Spec
SYMMETRY Symmetry
CONSTANTS
    A = A
    B = B
    C = C
    g0 = g0
    g1 = g1
    g2 = g2
    g3 = g3
    p1 = p1
    p2 = p2
    p3 = p3
    k1 = k1
    k2 = k2
    pin1 = pin1
    pin2 = pin2
    None = None
    Original = A
    Hash = {A, B, C}
    Exports = {B, C}
    Path = {p1, p2, p3}
    EvalKey = {k1, k2}
    GenId = {g0, g1}
    PinId = {pin1}
INVARIANTS
    DistinctPaths
PROPERTIES
    PinNotResurrected
CHECK_DEADLOCK FALSE
