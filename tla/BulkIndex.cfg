CONSTANTS
    p1 = p1
    p2 = p2
    Paths <- MCPaths
    Initial <- MCInitial
    Versions <- MCVersions
    ChunksOf <- MCChunksOf
    None = None
    MaxChanges = 2
    MaxStops = 1
SPECIFICATION FairSpec
INVARIANTS FoundIsExact FoundIsReadable
PROPERTIES Settles
CHECK_DEADLOCK FALSE
