CONSTANTS
    r1 = r1
    r2 = r2
    p1 = p1
    p2 = p2
    c1 = c1
    c2 = c2
    m1 = m1
    m2 = m2
    m3 = m3
    NoMap = NoMap
    Readers = {r1, r2}
    Publishers = {p1}
    Closers = {c1, c2}
    Mappings = {m1, m2, m3}
    NumStripes = 2
    MaxRetired = 1
    MaxReads = 2
    HasGrace = TRUE
    QuietClose = TRUE
SPECIFICATION Spec
INVARIANTS NoUseAfterUnmap MappedBound CloseUnmapsAll
PROPERTY ImplementsMapSpec
SYMMETRY Symmetry
