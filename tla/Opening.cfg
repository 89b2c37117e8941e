CONSTANTS
    Word = 128
    HeaderSize = 33
    HeaderSizeV2 = 64
    FilesV1 <- SmallV1
    FilesV2 <- SmallV2
    Counts <- ReadCounts
    Base = 4
    Schemas <- SomeSchemas
    Arguments <- SomeArguments
    Error = Error
SPECIFICATION OpeningSpec
INVARIANTS LoadsInside AcceptsExactly 
CHECK_DEADLOCK FALSE
