CONSTANTS
    Rows <- ThreeHashes
    Hashes <- ThreeHashes
    Inputs <- BothInputs
    PosFns <- Moves
    M = 4
    NB = 3
    P2 = 1
    PilotBits = 2
    k1 = k1
    k2 = k2
    k3 = k3
    k4 = k4
    RowKey <- ThreeKeys
    Keys = {k1, k2, k3, k4}
    NotFound = NotFound
    Corrupt = Corrupt
    Lengths <- MixedLengths
    Shifts = {0, 1}
    Prints <- SomePrints
    OffsetLimit = 8
    r1 = r1
    r2 = r2
    None = None
    Readers = {r1, r2}
    b1 = b1
    b2 = b2
    Buffers = {b1, b2}
    MaxLookups = 2
    Bytes = {0, 1}
    Garbage = 9
    SrcLengths = {0, 1, 8, 13}
    Damaged <- SmallBlocks
    Slack = 3
    Spares = {0, 3}
    MinMatch = 4
    LastLits = 2
    MFLimit = 5
    MaxOffset = 7
    Hash <- Differ
    Nibble = 3
    Cont = 3
    Chunk = 2
    MaxFast = 8
SPECIFICATION PartsSpec
INVARIANTS MinimalPerfect  RoundTrip
SYMMETRY Symmetry
CHECK_DEADLOCK FALSE
