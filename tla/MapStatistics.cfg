CONSTANTS
    r1 = r1
    r2 = r2
    w1 = w1
    w2 = w2
    Readers = {r1, r2}
    NumMaps = 2
    Ops = {"get", "batch", "other"}
    BatchLen = 2
    Width = 4
    MaxOps = 3
    MaxBuilds = 2
    Drainers = {w1, w2}
    SubBits = 1
    TimeWidth = 3
    NumBuckets = 4
    Durations <- FewLatencies
    MaxSamples = 3
    MaxDrains = 3
    MaxScrapes = 1
    ManyTimeWidth = 6
    ManyBuckets = 12
    ManyDurations <- EdgeLatencies
    ManySamples = 6
SPECIFICATION StatisticsSpec
INVARIANTS  NothingUnreported CountsExact ScrapeSound QuantilesSound
SYMMETRY Symmetry
