SPECIFICATION ScriptsSpec
CONSTANTS
    MaxSamples = 5
    MaxThroughput = 3
    LastInterval = 3
    SeriesFlows = {1, 2}
    Entries <- MCEntries
    Window = 2
    TextRank <- DecimalRank
INVARIANTS EllipseRows FlowSeriesOfRecords
CHECK_DEADLOCK FALSE
