CONSTANTS
    c1 = c1
    c2 = c2
    r1 = r1
    r2 = r2
    Compilers = {c1, c2}
    Readers = {r1, r2}
    Formats = {1, 2}
    MaxFiles = 4
    MaxFaults = 2
SPECIFICATION OutputSpec
INVARIANTS OutIntact MappingIntact
SYMMETRY Symmetry
