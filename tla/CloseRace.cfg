CONSTANTS
    r1 = r1
    r2 = r2
    p1 = p1
    p2 = p2
    c1 = c1
    c2 = c2
    m1 = m1
    m2 = m2
    m3 = m3
    NoMap = NoMap
    Readers = {r1}
    Publishers = {p1}
    Closers = {c1}
    Mappings = {m1, m2, m3}
    NumStripes = 1
    MaxRetired = 1
    MaxReads = 1
    HasGrace = FALSE
    QuietClose = FALSE
SPECIFICATION Spec
INVARIANT CloseUnmapsAll
SYMMETRY Symmetry
