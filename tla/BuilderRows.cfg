CONSTANTS
    Keys <- MCKeys
    Values <- MCValues
    Sources <- MCSources
    Hash <- MCHash
    MaxKeyLen = 2
    MaxValueLen = 2
    ArenaChunk = 5
    BufferSize = 4
    MaxDataBlock = 10
    MaxRows = 3
SPECIFICATION Spec
INVARIANT StoreSound
PROPERTY ImplementsRowList
