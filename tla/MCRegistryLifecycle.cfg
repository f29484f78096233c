\* Three models, each of which may be exported, and four generations: every
\* order of promotion, rollback and re-promotion of three hashes.  No pins.
SPECIFICATION Spec
SYMMETRY Symmetry
CONSTANTS
    A = A
    B = B
    C = C
    g0 = g0
    g1 = g1
    g2 = g2
    g3 = g3
    p1 = p1
    p2 = p2
    p3 = p3
    k1 = k1
    k2 = k2
    pin1 = pin1
    pin2 = pin2
    None = None
    Original = A
    Hash = {A, B, C}
    Exports = {A, B, C}
    Path = {p1, p2, p3}
    EvalKey = {k1}
    GenId = {g0, g1, g2, g3}
    PinId = {}
INVARIANTS
    TypeOK
    GenerationBinding
    CurrentGenerationMatchesChampion
    NoRolledBackChampion
PROPERTIES
    TestedPromotion
    
\* every candidate and generation may have reached a terminal state
CHECK_DEADLOCK FALSE
