CONSTANTS
    Chunks <- MCChunks
    Blank = {"blank"}
    Docs = {"p"}
    Models <- MCModels
    Live = "live"
    ShardOf <- MCShardOf
    Initial <- MCInitial
    Limit = 2
    MaxChanges = 2
    MaxToolFaults = 1
SPECIFICATION CoverageFairSpec
INVARIANTS AuditIsTrue
PROPERTIES RepairConverges
CHECK_DEADLOCK FALSE
