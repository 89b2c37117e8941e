CONSTANTS
    k1 = k1
    k2 = k2
    k3 = k3
    k4 = k4
    Keys = {k1, k2, k3, k4}
    NoRow = NoRow
    NotScalar = NotScalar
    Words <- SmallWords
    Hashes <- SmallHashes
    Xor <- XorOf
    Length <- Lengths
    Total <- Sums
    NarrowLimit = 2
    OffsetLimit = 15
    MaxDataBlock = 14
    ValueColumn = 2
    KeyField = 4
    ValueField = 5
    Headers <- SomeHeaders
    Records <- SomeRecords
    Objects <- SomeObjects
    MaxKeyLen = 4
    MaxValueLen = 1
    MaxLines = 3
    Limits <- SampleSizes
    MaxRows = 5
SPECIFICATION RowsToFileSpec
INVARIANTS LookupsExact ScanExact RowsSound EarliestReported 
CHECK_DEADLOCK FALSE
